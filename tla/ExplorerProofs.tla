--------------------------- MODULE ExplorerProofs ---------------------------
(***************************************************************************)
(* Theorems about the explorer, one section for each part of it.           *)
(***************************************************************************)
EXTENDS ExplorerWallet, DidPage, VcExchange, BatchFlow, InscriptionContents, InscriptionWizard, CollectionPages,
        FiniteSetTheorems, SequenceTheorems, WellFoundedInduction, TLAPS

-----------------------------------------------------------------------------
(***************************************************************************)
(* The wallet and its network.                                             *)
(***************************************************************************)
\* With a wallet w on network n, u questions open, and UniSat on the networks of s since
\* it was asked: the effect leaves no other network without a wallet or with Magic Eden
\* even while answers are awaited; with UniSat the network is of s or a question is open.
Settling(w, n, u, s) ==
    /\ w = NoWallet => n = NoNetwork
    /\ w = "magiceden" => n = "mainnet"
    /\ w = "unisat" /\ u = 0 => n \in s \cup {NoNetwork}

WalletInv ==
    /\ wallet \in Wallets \cup {NoWallet} /\ connects \subseteq Wallets /\ updates \in Nat
    /\ Settling(wallet, walletNet, updates, span)

\* A render asks again whenever the connection or the network has changed; what it
\* changes without asking is right for the wallet.
LEMMA RenderSettles ==
    ASSUME WalletInv, NEW w \in Wallets \cup {NoWallet}, NEW n, NEW queued \in Nat,
           Render(w, n, queued), w = "unisat" => connects' \subseteq connects,
           \/ queued = updates
           \/ w = wallet /\ n \in span \cup {NoNetwork} /\ updates = queued + 1
    PROVE  wallet' = w /\ updates' \in Nat /\ Settling(wallet', walletNet', updates', span')
    <1>1. wallet' = w /\ UpdateEffect(w, n, queued) /\ SpanFrom
        BY DEF Render
    <1>2. CASE w = wallet /\ n = walletNet
        <2>1. walletNet' = n /\ updates' = queued
            BY <1>1, <1>2 DEF UpdateEffect
        <2>2. Settling(w, n, queued, span)
            <3>1. CASE queued = updates
                BY <1>2, <3>1 DEF WalletInv
            <3>2. CASE n \in span \cup {NoNetwork} /\ updates = queued + 1
                BY <1>2, <3>2, ExplorerWalletAssumption DEF WalletInv, Settling
            <3> QED BY <3>1, <3>2
        <2>3. w = "unisat" /\ queued = 0 => span' = span
            <3> SUFFICES ASSUME w = "unisat", queued = 0 PROVE span' = span
                OBVIOUS
            <3>1. ~(updates' > 0) /\ connects' \subseteq connects
                BY <2>1
            <3> QED BY <1>1, <3>1 DEF SpanFrom, Asked
        <2>4. Settling(w, n, queued, span')
            BY <2>2, <2>3 DEF Settling
        <2> QED BY <1>1, <2>1, <2>4
    <1>3. CASE ~(w = wallet /\ n = walletNet)
        BY <1>1, <1>3 DEF UpdateEffect, Settling, Wallets, NoWallet
    <1> QED BY <1>2, <1>3

LEMMA WalletStep ==
    ASSUME WalletInv, WalletNext
    PROVE  WalletInv'
    <1>0. /\ NoWallet \in Wallets \cup {NoWallet} /\ wallet \in Wallets \cup {NoWallet} /\ updates \in Nat
          /\ NoWallet # "unisat"
        BY DEF WalletInv, NoWallet
    <1>1. ASSUME NEW found \in SUBSET Wallets, Recheck(found) PROVE WalletInv'
        <2>1. wallet' = wallet /\ walletNet' = walletNet /\ connects' = connects
              /\ updates' \in {updates, updates + 1} /\ SpanFrom
            BY <1>1 DEF Recheck, connectVars
        <2>2. updates' = 0 => span' = span
            BY <1>0, <2>1 DEF SpanFrom, Asked
        <2> QED BY <1>0, <2>1, <2>2 DEF WalletInv, Settling
    <1>2. CASE UNCHANGED <<wallet, walletNet, updates, span>> /\ connects' \subseteq connects
        BY <1>2 DEF WalletInv
    <1>3. CASE Disconnect
        BY <1>0, <1>3, RenderSettles DEF Disconnect, connectVars, WalletInv
    <1>4. ASSUME NEW w \in Wallets, Connect(w) PROVE WalletInv'
        BY <1>0, <1>4, RenderSettles DEF Connect, WalletInv
    <1>5. ASSUME NEW w \in Wallets, NEW n, Connected(w, n) PROVE WalletInv'
        BY <1>0, <1>5, RenderSettles DEF Connected, ConnectEnds, WalletInv
    <1>6. ASSUME NEW w \in Wallets, ConnectFails(w) PROVE WalletInv'
        BY <1>0, <1>6, RenderSettles DEF ConnectFails, ConnectEnds, WalletInv
    <1>7. ASSUME NEW w \in Wallets, ConnectedNowhere(w) PROVE WalletInv'
        BY <1>0, <1>7, RenderSettles DEF ConnectedNowhere, ConnectEnds, WalletInv
    <1>8. ASSUME NEW n, NetworkAnswered(n) PROVE WalletInv'
        <2>1. updates - 1 \in Nat /\ updates = (updates - 1) + 1
            BY <1>0, <1>8 DEF NetworkAnswered
        <2>2. n \in span \cup {NoNetwork} /\ Render(wallet, n, updates - 1) /\ connects' = connects
            BY <1>8 DEF NetworkAnswered, NamedFor, connectVars
        <2> QED BY <1>0, <2>1, <2>2, RenderSettles DEF WalletInv
    <1>9. CASE ReloadApp
        <2>1. wallet' = NoWallet /\ walletNet' = NoNetwork /\ updates' = 0 /\ connects' = {}
            BY <1>9 DEF ReloadApp
        <2> QED BY <2>1 DEF WalletInv, Settling, NoWallet
    <1>10. CASE \/ ToggleMenu \/ (\E known \in SUBSET Networks : NetworksFetched(known)) \/ FetchFails
                \/ (\E n \in Networks : SelectNetwork(n)) \/ OpenUtxos \/ LeaveUtxos \/ RefreshUtxos
                \/ \E l \in listings : UtxosListed(l)
        <2>1. UNCHANGED <<wallet, walletNet, updates, span>> /\ connects' = connects
            BY <1>10 DEF ToggleMenu, NetworksFetched, FetchFails, SelectNetwork, OpenUtxos, LeaveUtxos,
                         RefreshUtxos, UtxosListed, hookVars, connectVars, unisatVars
        <2> QED BY <1>2, <2>1
    <1>11. ASSUME NEW n \in Networks, SwitchNetwork(n) PROVE WalletInv'
        <2>1. UNCHANGED <<wallet, walletNet, updates>> /\ connects' = connects
            BY <1>11 DEF SwitchNetwork, hookVars, connectVars
        <2>2. wallet = "unisat" => span \subseteq span'
            BY <1>11 DEF SwitchNetwork
        <2> QED BY <2>1, <2>2 DEF WalletInv, Settling
    <1> QED BY <1>1, <1>3, <1>4, <1>5, <1>6, <1>7, <1>8, <1>9, <1>10, <1>11 DEF WalletNext

\* Once no question about the wallet's network is open the network shown is right for
\* the wallet connected by then, with UniSat one it has been on since it was asked,
\* although the answers to questions about wallets that were disconnected or replaced
\* are written as they come (useDirectWallet.ts:84-123).
THEOREM NetworkAlwaysSettles == WalletSpec => []NetworkSettles
    <1>1. WalletInit => WalletInv
        BY DEF WalletInit, WalletInv, Settling, NoWallet
    <1>2. WalletInv /\ [WalletNext]_walletVars => WalletInv'
        <2>1. ASSUME WalletInv, UNCHANGED walletVars PROVE WalletInv'
            BY <2>1 DEF walletVars, hookVars, connectVars, unisatVars, WalletInv
        <2> QED BY <2>1, WalletStep
    <1>3. WalletInv => NetworkSettles
        BY DEF WalletInv, Settling, NetworkSettles
    <1> QED BY <1>1, <1>2, <1>3, PTL DEF WalletSpec

-----------------------------------------------------------------------------
\* The calls of connect under way, and those to come from the second check, may each
\* add a question about the network.
Budget == updates + Cardinality(connects) + (IF rechecked THEN 0 ELSE 1)

LEMMA FewConnects ==
    ASSUME NEW c \in SUBSET Wallets
    PROVE  /\ Cardinality(c) \in Nat /\ Cardinality(c) <= 3
           /\ \A w \in c : Cardinality(c \ {w}) = Cardinality(c) - 1
    <1>1. IsFiniteSet(Wallets) /\ Cardinality(Wallets) = 3
        <2>1. IsFiniteSet({}) /\ Cardinality({}) = 0
            BY FS_EmptySet
        <2>2. IsFiniteSet({"unisat"}) /\ Cardinality({"unisat"}) = 1
            BY FS_Singleton
        <2>3. IsFiniteSet({"unisat"} \cup {"xverse"}) /\ Cardinality({"unisat"} \cup {"xverse"}) = 2
            BY <2>2, FS_AddElement
        <2> DEFINE two == {"unisat"} \cup {"xverse"}
        <2>4. "magiceden" \notin two /\ two \cup {"magiceden"} = Wallets
            BY DEF Wallets
        <2>5. IsFiniteSet(two) /\ Cardinality(two) = 2
            BY <2>3
        <2> HIDE DEF two
        <2>6. IsFiniteSet(two \cup {"magiceden"}) /\ Cardinality(two \cup {"magiceden"}) = 2 + 1
            BY <2>4, <2>5, FS_AddElement
        <2> QED BY <2>4, <2>6
    <1>2. IsFiniteSet(c) /\ Cardinality(c) <= 3
        BY <1>1, FS_Subset
    <1>3. \A w \in c : Cardinality(c \ {w}) = Cardinality(c) - 1
        BY <1>2, FS_RemoveElement
    <1> QED BY <1>2, <1>3, FS_CardinalityType

WalletTyped ==
    /\ detected \subseteq Wallets /\ rechecked \in BOOLEAN
    /\ wallet \in Wallets \cup {NoWallet} /\ walletNet \in Networks \cup {NoNetwork}
    /\ updates \in Nat /\ Budget <= MaxUpdates + 4
    /\ isConnecting \in BOOLEAN /\ connects \subseteq Wallets /\ menu \in BOOLEAN
    /\ span \subseteq Networks /\ unisatNet \in span

ContextTyped ==
    /\ available \subseteq Networks /\ {selected, stored, initial} \subseteq Networks
    /\ fetching \in BOOLEAN /\ onPage \in BOOLEAN
    /\ listings \subseteq Shown /\ listed \subseteq Shown
    /\ \A k, l \in listed : k = l

LEMMA ListEffectTyped ==
    ASSUME ContextTyped, wallet' \in Wallets \cup {NoWallet}, walletNet' \in Networks \cup {NoNetwork},
           selected' \in Networks, ListEffect
    PROVE  onPage' \in BOOLEAN /\ listings' \subseteq Shown /\ listed' = listed
    <1>1. PageNetwork(walletNet', selected') \in Networks
        BY DEF PageNetwork
    <1>2. wallet' # NoWallet => [of |-> wallet', on |-> PageNetwork(walletNet', selected')] \in Shown
        BY <1>1 DEF Shown
    <1> QED BY <1>2 DEF ListEffect, ContextTyped

LEMMA RenderTyped ==
    ASSUME WalletTyped, ContextTyped, NEW w \in Wallets \cup {NoWallet},
           NEW n \in Networks \cup {NoNetwork}, NEW queued \in Nat, Render(w, n, queued)
    PROVE  /\ wallet' = w /\ walletNet' \in Networks \cup {NoNetwork}
           /\ updates' = queued \/ (w = "unisat" /\ updates' = queued + 1)
           /\ updates' = queued + 1 => <<w, n>> # <<wallet, walletNet>>
           /\ UNCHANGED <<detected, rechecked>> /\ ContextTyped'
           /\ span' \subseteq Networks /\ unisatNet' \in span'
    <1>1. /\ wallet' = w /\ walletNet' \in Networks \cup {NoNetwork}
          /\ updates' = queued \/ (w = "unisat" /\ updates' = queued + 1)
          /\ updates' = queued + 1 => <<w, n>> # <<wallet, walletNet>>
        BY ExplorerWalletAssumption DEF Render, UpdateEffect, WalletTyped
    <1>2. UNCHANGED <<detected, rechecked, available, selected, stored, fetching, initial>> /\ ListEffect
        BY DEF Render, contextVars
    <1>3. ContextTyped'
        <2>1. selected' \in Networks
            BY <1>2 DEF ContextTyped
        <2>2. onPage' \in BOOLEAN /\ listings' \subseteq Shown /\ listed' = listed
            BY <1>1, <1>2, <2>1, ListEffectTyped
        <2> QED BY <1>2, <2>2 DEF ContextTyped
    <1>4. span' \subseteq Networks /\ unisatNet' \in span'
        BY DEF Render, SpanFrom, WalletTyped
    <1> QED BY <1>1, <1>2, <1>3, <1>4

LEMMA TypedStep ==
    ASSUME WalletTyped, ContextTyped, WalletNext
    PROVE  WalletTyped' /\ ContextTyped'
    <1>0. /\ NoNetwork \in Networks \cup {NoNetwork} /\ NoWallet \in Wallets \cup {NoWallet}
          /\ wallet \in Wallets \cup {NoWallet} /\ walletNet \in Networks \cup {NoNetwork} /\ updates \in Nat
          /\ MaxUpdates \in Nat
        BY ExplorerWalletAssumption DEF WalletTyped
    <1>1. ASSUME UNCHANGED <<detected, rechecked, wallet, walletNet, updates, isConnecting, connects, unisatVars>>,
                 menu' \in BOOLEAN
          PROVE  WalletTyped'
        BY <1>1 DEF WalletTyped, Budget, unisatVars
    <1>2. ASSUME UNCHANGED <<available, selected, stored, fetching, initial, onPage, listings, listed>>
          PROVE  ContextTyped'
        BY <1>2 DEF ContextTyped
    <1>3. ASSUME NEW found \in SUBSET Wallets, Recheck(found) PROVE WalletTyped' /\ ContextTyped'
        <2>1. /\ ~rechecked /\ rechecked' = TRUE /\ detected' = found /\ updates' \in {updates, updates + 1}
              /\ UNCHANGED <<wallet, walletNet, isConnecting, connects, menu>>
              /\ span' \subseteq Networks /\ unisatNet' \in span'
            BY <1>3 DEF Recheck, connectVars, SpanFrom, WalletTyped
        <2>2. UNCHANGED <<available, selected, stored, fetching, initial, onPage, listings, listed>>
            BY <1>3 DEF Recheck, contextVars, utxoPage
        <2>3. Budget' <= MaxUpdates + 4
            <3>1. Cardinality(connects) \in Nat
                BY FewConnects DEF WalletTyped
            <3> QED BY <1>0, <2>1, <3>1 DEF WalletTyped, Budget
        <2> QED BY <1>2, <2>1, <2>2, <2>3 DEF WalletTyped
    <1>4. CASE Disconnect
        <2>1. Render(NoWallet, NoNetwork, updates) /\ updates < MaxUpdates
              /\ UNCHANGED <<isConnecting, connects, menu>>
            BY <1>4 DEF Disconnect, MayClick, connectVars
        <2>2. /\ wallet' = NoWallet /\ walletNet' \in Networks \cup {NoNetwork} /\ updates' = updates
              /\ UNCHANGED <<detected, rechecked>> /\ ContextTyped'
              /\ span' \subseteq Networks /\ unisatNet' \in span'
            BY <1>0, <2>1, RenderTyped DEF NoWallet
        <2>3. Budget' <= MaxUpdates + 4
            <3>1. Cardinality(connects) \in Nat /\ rechecked \in BOOLEAN
                BY FewConnects DEF WalletTyped
            <3> QED BY <1>0, <2>1, <2>2, <3>1 DEF WalletTyped, Budget
        <2> QED BY <1>0, <2>1, <2>2, <2>3 DEF WalletTyped
    <1>5. ASSUME NEW w \in Wallets, Connect(w) PROVE WalletTyped' /\ ContextTyped'
        <2>1. /\ Render(wallet, NoNetwork, updates) /\ wallet = NoWallet /\ updates < MaxUpdates
              /\ connects' = connects \cup {w} /\ isConnecting' = TRUE /\ menu' = menu
            BY <1>5 DEF Connect, MayClick
        <2>2. /\ wallet' = NoWallet /\ walletNet' \in Networks \cup {NoNetwork} /\ updates' = updates
              /\ UNCHANGED <<detected, rechecked>> /\ ContextTyped'
              /\ span' \subseteq Networks /\ unisatNet' \in span'
            BY <1>0, <2>1, RenderTyped DEF NoWallet
        <2>3. Budget' <= MaxUpdates + 4
            <3>1. connects' \subseteq Wallets /\ rechecked \in BOOLEAN
                BY <2>1 DEF WalletTyped
            <3>2. Cardinality(connects') \in Nat /\ Cardinality(connects') <= 3
                BY <3>1, FewConnects
            <3> QED BY <1>0, <2>1, <2>2, <3>1, <3>2 DEF Budget
        <2> QED BY <1>0, <2>1, <2>2, <2>3 DEF WalletTyped
    <1>6. ASSUME NEW w \in Wallets, ConnectEnds(w), NEW v \in Wallets \cup {NoWallet}, NEW n \in Networks \cup {NoNetwork},
                 Render(v, n, updates)
          PROVE  WalletTyped' /\ ContextTyped'
        <2>1. w \in connects /\ connects' = connects \ {w} /\ isConnecting' = FALSE /\ menu' = FALSE
            BY <1>6 DEF ConnectEnds
        <2>2. /\ wallet' = v /\ walletNet' \in Networks \cup {NoNetwork} /\ updates' \in {updates, updates + 1}
              /\ UNCHANGED <<detected, rechecked>> /\ ContextTyped'
              /\ span' \subseteq Networks /\ unisatNet' \in span'
            BY <1>0, <1>6, RenderTyped
        <2>3. Budget' <= MaxUpdates + 4
            <3>1. Cardinality(connects) \in Nat /\ Cardinality(connects') = Cardinality(connects) - 1
                BY <2>1, FewConnects DEF WalletTyped
            <3>2. rechecked' = rechecked /\ rechecked \in BOOLEAN
                BY <2>2 DEF WalletTyped
            <3> QED BY <1>0, <2>2, <3>1, <3>2 DEF WalletTyped, Budget
        <2>4. wallet' \in Wallets \cup {NoWallet}
            BY <2>2
        <2>5. updates' \in Nat /\ connects' \subseteq Wallets /\ detected' \subseteq Wallets /\ rechecked' \in BOOLEAN
            BY <1>0, <2>1, <2>2 DEF WalletTyped
        <2> QED BY <2>1, <2>2, <2>3, <2>4, <2>5 DEF WalletTyped
    <1>7. ASSUME NEW w \in Wallets, NEW n \in Networks \cup {NoNetwork}, Connected(w, n)
          PROVE  WalletTyped' /\ ContextTyped'
        BY <1>0, <1>6, <1>7 DEF Connected
    <1>8. ASSUME NEW w \in Wallets, ConnectFails(w) PROVE WalletTyped' /\ ContextTyped'
        BY <1>0, <1>6, <1>8 DEF ConnectFails
    <1>9. ASSUME NEW w \in Wallets, ConnectedNowhere(w) PROVE WalletTyped' /\ ContextTyped'
        BY <1>0, <1>6, <1>9 DEF ConnectedNowhere
    <1>10. ASSUME NEW n \in Networks \cup {NoNetwork}, NetworkAnswered(n) PROVE WalletTyped' /\ ContextTyped'
        <2>1. updates - 1 \in Nat /\ updates = (updates - 1) + 1
            BY <1>0, <1>10 DEF NetworkAnswered
        <2>2. Render(wallet, n, updates - 1) /\ UNCHANGED <<isConnecting, connects, menu>>
            BY <1>10 DEF NetworkAnswered, connectVars
        <2>3. /\ wallet' = wallet /\ walletNet' \in Networks \cup {NoNetwork} /\ updates' \in {updates - 1, updates}
              /\ UNCHANGED <<detected, rechecked>> /\ ContextTyped'
              /\ span' \subseteq Networks /\ unisatNet' \in span'
            <3> DEFINE queued == updates - 1
            <3>1. queued \in Nat /\ Render(wallet, n, queued) /\ updates = queued + 1
                BY <2>1, <2>2
            <3> HIDE DEF queued
            <3>2. /\ wallet' = wallet /\ walletNet' \in Networks \cup {NoNetwork} /\ updates' \in {queued, queued + 1}
                  /\ UNCHANGED <<detected, rechecked>> /\ ContextTyped'
                  /\ span' \subseteq Networks /\ unisatNet' \in span'
                BY <1>0, <3>1, RenderTyped
            <3> QED BY <3>1, <3>2 DEF queued
        <2>4. Budget' <= MaxUpdates + 4
            <3>1. Cardinality(connects) \in Nat /\ rechecked \in BOOLEAN
                BY FewConnects DEF WalletTyped
            <3> QED BY <1>0, <2>1, <2>2, <2>3, <3>1 DEF WalletTyped, Budget
        <2> QED BY <1>0, <2>1, <2>2, <2>3, <2>4 DEF WalletTyped
    <1>11. CASE ToggleMenu
        BY <1>1, <1>2, <1>11 DEF ToggleMenu, hookVars, contextVars, utxoPage, WalletTyped
    <1>12. ASSUME UNCHANGED <<hookVars, connectVars, unisatVars>>, ListEffect, selected' \in Networks, stored' \in Networks,
                  initial' \in Networks, available' \subseteq Networks, fetching' \in BOOLEAN
           PROVE  WalletTyped' /\ ContextTyped'
        <2>1. WalletTyped'
            BY <1>1, <1>12 DEF hookVars, connectVars, WalletTyped
        <2>2. onPage' \in BOOLEAN /\ listings' \subseteq Shown /\ listed' = listed
            BY <1>12, <2>1, ListEffectTyped DEF WalletTyped
        <2> QED BY <1>12, <2>1, <2>2 DEF ContextTyped
    <1>13. ASSUME NEW known \in SUBSET Networks, NetworksFetched(known) PROVE WalletTyped' /\ ContextTyped'
        <2>1. /\ available' = known /\ fetching' = FALSE /\ ListEffect
              /\ UNCHANGED <<hookVars, connectVars, stored, initial, unisatVars>>
            BY <1>13 DEF NetworksFetched
        <2>2. selected' \in Networks
            BY <1>13 DEF NetworksFetched, ContextTyped
        <2> QED BY <1>12, <2>1, <2>2 DEF ContextTyped
    <1>14. CASE FetchFails
        BY <1>1, <1>14 DEF FetchFails, hookVars, connectVars, utxoPage, WalletTyped, ContextTyped
    <1>15. ASSUME NEW n \in Networks, SelectNetwork(n) PROVE WalletTyped' /\ ContextTyped'
        BY <1>12, <1>15 DEF SelectNetwork, ContextTyped
    <1>16. CASE OpenUtxos
        <2>1. PageNetwork(walletNet, ActiveNetwork) \in Networks
            BY DEF PageNetwork, ActiveNetwork, ActiveFor, WalletTyped, ContextTyped
        <2>2. wallet # NoWallet => [of |-> wallet, on |-> PageNetwork(walletNet, ActiveNetwork)] \in Shown
            BY <1>0, <2>1 DEF Shown
        <2> QED BY <1>1, <1>16, <2>2 DEF OpenUtxos, hookVars, contextVars, WalletTyped, ContextTyped, Nothing
    <1>17. CASE LeaveUtxos
        BY <1>1, <1>17 DEF LeaveUtxos, hookVars, contextVars, WalletTyped, ContextTyped, Nothing
    <1>18. CASE RefreshUtxos
        <2>1. PageNetwork(walletNet, ActiveNetwork) \in Networks
            BY DEF PageNetwork, ActiveNetwork, ActiveFor, WalletTyped, ContextTyped
        <2>2. wallet # NoWallet => [of |-> wallet, on |-> PageNetwork(walletNet, ActiveNetwork)] \in Shown
            BY <1>0, <2>1 DEF Shown
        <2> QED BY <1>1, <1>18, <2>2 DEF RefreshUtxos, hookVars, connectVars, contextVars, WalletTyped, ContextTyped
    <1>19. ASSUME NEW l \in listings, UtxosListed(l) PROVE WalletTyped' /\ ContextTyped'
        BY <1>1, <1>19 DEF UtxosListed, hookVars, connectVars, contextVars, WalletTyped, ContextTyped
    <1>20. CASE ReloadApp
        <2>1. WalletTyped'
            <3>1. Cardinality({}) = 0
                BY FS_EmptySet
            <3>2. detected' \subseteq Wallets
                BY <1>20 DEF ReloadApp, WalletTyped
            <3>3. /\ rechecked' = FALSE /\ wallet' = NoWallet /\ walletNet' = NoNetwork /\ updates' = 0
                  /\ isConnecting' = FALSE /\ connects' = {} /\ menu' = FALSE
                  /\ span' \subseteq Networks /\ unisatNet' \in span'
                BY <1>20 DEF ReloadApp, WalletTyped
            <3>4. Budget' <= MaxUpdates + 4
                BY <1>0, <3>1, <3>3 DEF Budget
            <3> QED BY <3>2, <3>3, <3>4 DEF WalletTyped
        <2>2. ContextTyped'
            BY <1>20, ExplorerWalletAssumption DEF ReloadApp, ContextTyped, Nothing
        <2> QED BY <2>1, <2>2
    <1>21. ASSUME NEW n \in Networks, SwitchNetwork(n) PROVE WalletTyped' /\ ContextTyped'
        <2>1. span' \subseteq Networks /\ unisatNet' \in span'
            BY <1>21 DEF SwitchNetwork, WalletTyped
        <2>2. UNCHANGED <<hookVars, connectVars, contextVars, utxoPage>>
            BY <1>21 DEF SwitchNetwork
        <2> QED BY <1>2, <2>1, <2>2 DEF hookVars, connectVars, contextVars, utxoPage, WalletTyped, Budget
    <1> QED BY <1>3, <1>4, <1>5, <1>7, <1>8, <1>9, <1>10, <1>11, <1>13, <1>14, <1>15, <1>16, <1>17, <1>18,
               <1>19, <1>20, <1>21 DEF WalletNext

\* The wallet's state and the network context keep their types, and no more than a few
\* questions about the network outlive the clicks that made them: each call of connect
\* and the second check add one at most.
THEOREM WalletTypeCorrect == WalletSpec => []ExplorerWalletTypeOK
    <1>1. WalletInit => WalletTyped /\ ContextTyped
        <2> SUFFICES ASSUME WalletInit PROVE WalletTyped /\ ContextTyped
            OBVIOUS
        <2>1. Cardinality({}) = 0
            BY FS_EmptySet
        <2>2. updates = 0 /\ connects = {} /\ rechecked = FALSE
            BY DEF WalletInit
        <2>3. Budget <= MaxUpdates + 4
            BY <2>1, <2>2, ExplorerWalletAssumption DEF Budget
        <2>4. WalletTyped
            BY <2>3, ExplorerWalletAssumption DEF WalletInit, WalletTyped
        <2> QED BY <2>4, ExplorerWalletAssumption DEF WalletInit, ContextTyped, Nothing
    <1>2. WalletTyped /\ ContextTyped /\ [WalletNext]_walletVars => WalletTyped' /\ ContextTyped'
        <2>1. ASSUME WalletTyped, ContextTyped, UNCHANGED walletVars PROVE WalletTyped' /\ ContextTyped'
            BY <2>1 DEF walletVars, hookVars, connectVars, contextVars, utxoPage, unisatVars, WalletTyped,
                        ContextTyped, Budget
        <2> QED BY <2>1, TypedStep
    <1>3. ASSUME WalletTyped, ContextTyped PROVE ExplorerWalletTypeOK
        <2>1. updates \in 0..(MaxUpdates + 4)
            <3>1. Cardinality(connects) \in Nat /\ rechecked \in BOOLEAN
                BY <1>3, FewConnects DEF WalletTyped
            <3> QED BY <1>3, <3>1, ExplorerWalletAssumption DEF WalletTyped, Budget
        <2>2. Cardinality(listed) <= 1
            <3>1. CASE listed = {}
                BY <3>1, FS_EmptySet
            <3>2. CASE listed # {}
                <4>1. PICK l \in listed : listed = {l}
                    BY <1>3, <3>2 DEF ContextTyped
                <4> QED BY <4>1, FS_Singleton
            <3> QED BY <3>1, <3>2
        <2> QED BY <1>3, <2>1, <2>2 DEF WalletTyped, ContextTyped, ExplorerWalletTypeOK
    <1> QED BY <1>1, <1>2, <1>3, PTL DEF WalletSpec

-----------------------------------------------------------------------------
(***************************************************************************)
(* The page of a DID.                                                      *)
(***************************************************************************)
Lookups == [of : Dids, n : 0..MaxMoves]
CardStates == [on : BOOLEAN, runs : Nat, busy : BOOLEAN, outcome : Outcomes \cup {"none"},
               cached : Outcomes \cup {"none"}, against : Sats \cup {NoSat}]
Requests == [of : Dids \cup {Browse}, chain : Chains, page : 1..2, filter : {"all", "image"}]

\* What is shown is of the answer that the satoshi for the cards is taken from, or of
\* an earlier one after a lookup failed.
LookupFits ==
    /\ place \in Dids \cup {Browse} /\ onNet \in Chains
    /\ asked \subseteq Lookups /\ resolving \in BOOLEAN
    /\ lookupError \in {"none", "failed", "broken", "empty"}
    /\ document \in Dids \cup {NoDid} /\ inscribed \in Dids \cup {NoDid}
    /\ resolution \in [of : Dids \cup {NoDid}, kind : Kinds \cup {"none", "failed"}]
    /\ resolution.kind \in Kinds \ {"empty"} => resolution.of = inscribed /\ inscribed \in Dids
    /\ resolution.kind = "empty" => inscribed = NoDid
    /\ alone \in BOOLEAN /\ moves \in 0..MaxMoves

\* On a page whose lookups came one at a time there is one to come, or one answer.
Undisturbed ==
    alone => /\ \A k, l \in asked : k = l
             /\ asked # {} => inscribed = NoDid
             /\ inscribed # NoDid => resolution.kind \in Kinds \ {"empty"}

\* A card is mounted for an answer about its satoshi, and what its checks were made
\* with was of such an answer.
CardFits(c, card, alone_, seen) ==
    /\ card \in CardStates
    /\ card.on => seen \in Dids /\ c \in CardsOn[SatOf[seen]]
    /\ card.on /\ card.outcome # "none" => card.against \in {NoSat, OwnSat(c)}
    /\ card.on /\ card.outcome # "none" /\ alone_ => card.against = OwnSat(c)
    /\ ~card.on => card.runs = 0

CardsFit == cards \in [Cards -> CardStates] /\ \A c \in Cards : CardFits(c, cards[c], alone, inscribed)

LEMMA OwnSatIs ==
    ASSUME NEW s \in Sats, NEW c \in CardsOn[s]
    PROVE  OwnSat(c) = s /\ c \in Cards
    <1>1. \A t \in Sats : c \in CardsOn[t] => t = s
        BY DidPageAssumption
    <1>2. OwnSat(c) \in Sats /\ c \in CardsOn[OwnSat(c)]
        BY DEF OwnSat
    <1> QED BY <1>1, <1>2 DEF Cards

LEMMA CardTypes == NoCard \in CardStates /\ ~NoCard.on /\ NoCard.runs = 0
    BY DEF NoCard, CardStates

LEMMA NoCardFits ==
    ASSUME NEW c \in Cards, NEW b \in BOOLEAN, NEW d
    PROVE  CardFits(c, NoCard, b, d)
    BY CardTypes DEF CardFits

LEMMA MountedFits ==
    ASSUME NEW d \in Dids, NEW c \in CardsOn[SatOf[d]], NEW b \in BOOLEAN
    PROVE  CardFits(c, MountedCard, b, d)
    BY DEF CardFits, MountedCard, NoCard, CardStates

\* The cards after an answer: those of its satoshi stay, others come or go.
LEMMA CardsForFit ==
    ASSUME LookupFits, CardsFit, NEW d \in Dids \cup {NoDid}, NEW replaced \in BOOLEAN, NEW b \in BOOLEAN,
           b => alone \/ \A c \in Cards : ~cards[c].on
    PROVE  /\ CardsFor(d, replaced) \in [Cards -> CardStates]
           /\ \A c \in Cards : CardFits(c, CardsFor(d, replaced)[c], b, d)
    <1>1. ASSUME NEW c \in Cards PROVE CardFits(c, CardsFor(d, replaced)[c], b, d)
        <2>0. CardFits(c, cards[c], alone, inscribed) /\ cards[c] \in CardStates
            BY DEF CardsFit, CardFits
        <2>1. CASE d = NoDid \/ c \notin CardsOn[SatOf[d]]
            BY <2>1, NoCardFits DEF CardsFor
        <2>2. CASE ~(d = NoDid \/ c \notin CardsOn[SatOf[d]]) /\ ~cards[c].on
            BY <2>2, MountedFits DEF CardsFor
        <2>3. CASE ~(d = NoDid \/ c \notin CardsOn[SatOf[d]]) /\ cards[c].on
            <3>1. d \in Dids /\ c \in CardsOn[SatOf[d]] /\ (b => alone)
                BY <2>3
            <3>2. Reverified(cards[c]) \in CardStates /\ Reverified(cards[c]).on
                  /\ Reverified(cards[c]).outcome = cards[c].outcome /\ Reverified(cards[c]).against = cards[c].against
                <4> DEFINE card == cards[c]
                           more == card.runs + 1
                <4>1. card \in CardStates /\ card.on /\ more \in Nat
                    BY <2>0, <2>3 DEF CardStates
                <4>2. Reverified(card) = IF card.cached # "none" THEN [card EXCEPT !.busy = FALSE]
                                         ELSE [card EXCEPT !.runs = more, !.busy = TRUE]
                    BY DEF Reverified
                <4> HIDE DEF card, more
                <4>3. /\ Reverified(card) \in CardStates /\ Reverified(card).on
                      /\ Reverified(card).outcome = card.outcome /\ Reverified(card).against = card.against
                    BY <4>1, <4>2 DEF CardStates
                <4> QED BY <4>3 DEF card
            <3>3. CardsFor(d, replaced)[c] = IF replaced THEN Reverified(cards[c]) ELSE cards[c]
                BY <2>3 DEF CardsFor
            <3> QED BY <2>0, <2>3, <3>1, <3>2, <3>3 DEF CardFits
        <2> QED BY <2>1, <2>2, <2>3
    <1>2. CardsFor(d, replaced) \in [Cards -> CardStates]
        <2>1. \A c \in Cards : CardsFor(d, replaced)[c] \in CardStates
            BY <1>1 DEF CardFits
        <2> QED BY <2>1 DEF CardsFor
    <1> QED BY <1>1, <1>2

PageInv == LookupFits /\ Undisturbed /\ CardsFit

LEMMA NoCardsFit ==
    ASSUME alone' \in BOOLEAN, cards' = [c \in Cards |-> NoCard]
    PROVE  CardsFit'
    BY CardTypes, NoCardFits DEF CardsFit

\* Steps of a list change nothing else but the network.
LEMMA ListStepsKeep ==
    ASSUME PageInv, UNCHANGED <<place, lookupVars, cards, alone, moves>>, onNet' \in Chains
    PROVE  PageInv'
    BY DEF PageInv, lookupVars, LookupFits, Undisturbed, CardsFit

LEMMA VisitKeeps ==
    ASSUME PageInv, NEW d \in Dids, Visit(d)
    PROVE  PageInv'
    <1>1. moves' \in 0..MaxMoves /\ moves' = moves + 1
        BY DidPageAssumption DEF Visit, PageInv, LookupFits
    <1>2. [of |-> d, n |-> moves + 1] \in Lookups
        BY <1>1 DEF Lookups
    <1>3. resolution' = NoResolution /\ inscribed' = NoDid /\ document' = NoDid /\ lookupError' = "none"
          /\ resolving' = TRUE /\ place' = d /\ onNet' = onNet
          /\ asked' = asked \cup {[of |-> d, n |-> moves + 1]} /\ alone' = (asked = {})
          /\ cards' = [c \in Cards |-> NoCard]
        BY DEF Visit, Cleared
    <1>4. LookupFits'
        BY <1>1, <1>2, <1>3 DEF PageInv, LookupFits, NoResolution, Kinds
    <1>5. Undisturbed'
        BY <1>3 DEF Undisturbed
    <1>6. CardsFit'
        BY <1>3, NoCardsFit
    <1> QED BY <1>4, <1>5, <1>6 DEF PageInv

LEMMA VisitListKeeps ==
    ASSUME PageInv, VisitList
    PROVE  PageInv'
    <1>1. moves' \in 0..MaxMoves
        BY DidPageAssumption DEF VisitList, PageInv, LookupFits
    <1>2. LookupFits'
        BY <1>1 DEF VisitList, PageInv, LookupFits, NoResolution, Kinds
    <1>3. Undisturbed'
        BY DEF VisitList, Undisturbed
    <1>4. CardsFit'
        BY NoCardsFit DEF VisitList
    <1> QED BY <1>2, <1>3, <1>4 DEF PageInv

LEMMA ResolvedKeeps ==
    ASSUME PageInv, NEW l \in asked, NEW kind \in Kinds, Resolved(l, kind)
    PROVE  PageInv'
    <1>1. l.of \in Dids
        BY DEF PageInv, LookupFits, Lookups
    <1>2. /\ asked' = asked \ {l} /\ resolving' = FALSE /\ resolution' = [of |-> l.of, kind |-> kind]
          /\ inscribed' = IF kind = "empty" THEN NoDid ELSE l.of
          /\ document' \in {l.of, document} /\ lookupError' \in {kind, lookupError}
          /\ (lookupError' = kind => kind \in {"broken", "empty"} \/ lookupError' = lookupError)
          /\ cards' = CardsFor(inscribed', TRUE)
          /\ UNCHANGED <<place, onNet, alone, moves>>
        BY DEF Resolved
    <1>3. LookupFits'
        <2>1. lookupError' \in {"none", "failed", "broken", "empty"}
            BY <1>2 DEF PageInv, LookupFits
        <2>2. resolution' \in [of : Dids \cup {NoDid}, kind : Kinds \cup {"none", "failed"}]
            BY <1>1, <1>2
        <2>3. inscribed' \in Dids \cup {NoDid} /\ document' \in Dids \cup {NoDid}
            BY <1>1, <1>2 DEF PageInv, LookupFits
        <2>4. /\ resolution'.kind \in Kinds \ {"empty"} => resolution'.of = inscribed' /\ inscribed' \in Dids
              /\ resolution'.kind = "empty" => inscribed' = NoDid
            BY <1>1, <1>2
        <2> QED BY <1>2, <2>1, <2>2, <2>3, <2>4 DEF PageInv, LookupFits
    <1>4. Undisturbed'
        <2> SUFFICES ASSUME alone PROVE Undisturbed'
            BY <1>2 DEF Undisturbed
        <2>1. \A k, m \in asked : k = m
            BY DEF PageInv, Undisturbed
        <2>2. asked' = {}
            BY <1>2, <2>1
        <2>3. inscribed' # NoDid => resolution'.kind \in Kinds \ {"empty"}
            BY <1>2
        <2> QED BY <2>2, <2>3 DEF Undisturbed
    <1>5. inscribed' \in Dids \cup {NoDid} /\ alone \in BOOLEAN
        BY <1>3 DEF PageInv, LookupFits
    <1>6. CardsFit'
        <2> DEFINE d == inscribed'
        <2>1. d \in Dids \cup {NoDid}
            BY <1>5
        <2>2. cards' = CardsFor(d, TRUE)
            BY <1>2
        <2> HIDE DEF d
        <2>3. /\ CardsFor(d, TRUE) \in [Cards -> CardStates]
              /\ \A c \in Cards : CardFits(c, CardsFor(d, TRUE)[c], alone, d)
            BY <1>5, <2>1, CardsForFit DEF PageInv
        <2>4. cards' \in [Cards -> CardStates] /\ \A c \in Cards : CardFits(c, cards'[c], alone', d)
            BY <1>2, <2>2, <2>3
        <2> QED BY <2>4 DEF CardsFit, d
    <1> QED BY <1>3, <1>4, <1>6 DEF PageInv

LEMMA NotResolvedKeeps ==
    ASSUME PageInv, NEW l \in asked, NotResolved(l)
    PROVE  PageInv'
    <1>1. /\ asked' = asked \ {l} /\ resolving' = FALSE /\ resolution' = FailedResolution
          /\ lookupError' = "failed" /\ cards' = CardsFor(inscribed, FALSE)
          /\ UNCHANGED <<place, onNet, document, inscribed, alone, moves>>
        BY DEF NotResolved
    <1>2. LookupFits'
        BY <1>1 DEF PageInv, LookupFits, FailedResolution, Kinds
    <1>3. Undisturbed'
        BY <1>1 DEF PageInv, Undisturbed
    <1>4. inscribed \in Dids \cup {NoDid} /\ alone \in BOOLEAN
        BY DEF PageInv, LookupFits
    <1>5. /\ CardsFor(inscribed, FALSE) \in [Cards -> CardStates]
          /\ \A c \in Cards : CardFits(c, CardsFor(inscribed, FALSE)[c], alone, inscribed)
        BY <1>4, CardsForFit DEF PageInv
    <1>6. CardsFit'
        BY <1>1, <1>5 DEF CardsFit
    <1> QED BY <1>2, <1>3, <1>6 DEF PageInv

LEMMA VerificationKeeps ==
    ASSUME PageInv, NEW c \in Cards, NEW outcome \in Outcomes, VerificationEnds(c, outcome)
    PROVE  PageInv'
    <1> DEFINE card == cards[c]
               left == card.runs - 1
               theSat == ExpectedSat
               next == [card EXCEPT !.runs = left, !.busy = FALSE, !.outcome = outcome,
                                    !.cached = outcome, !.against = theSat]
    <1>1. card \in CardStates /\ card.runs > 0 /\ CardFits(c, card, alone, inscribed)
        BY DEF VerificationEnds, PageInv, CardsFit
    <1>2. left \in Nat /\ card.on /\ inscribed \in Dids /\ c \in CardsOn[SatOf[inscribed]]
        BY <1>1 DEF CardFits, CardStates
    <1>3. OwnSat(c) = SatOf[inscribed] /\ SatOf[inscribed] \in Sats
        BY <1>2, OwnSatIs, DidPageAssumption
    <1>4. theSat \in {NoSat, OwnSat(c)} /\ (alone => theSat = OwnSat(c)) /\ theSat \in Sats \cup {NoSat}
        <2>1. inscribed # NoDid
            BY <1>2, DidPageAssumption
        <2>2. resolution.kind \in Kinds \ {"empty"} => theSat = OwnSat(c)
            BY <1>3 DEF ExpectedSat, PageInv, LookupFits
        <2>3. resolution.kind \notin Kinds \ {"empty"} => theSat = NoSat
            BY DEF ExpectedSat
        <2> QED BY <1>3, <2>1, <2>2, <2>3 DEF PageInv, Undisturbed
    <1>5. cards' = [cards EXCEPT ![c] = next]
        BY <1>1 DEF VerificationEnds, PageInv, CardsFit
    <1> HIDE DEF left, theSat
    <1>6. next \in CardStates /\ next.on = card.on /\ next.against = theSat
        <2> DEFINE n1 == [card EXCEPT !.runs = left, !.busy = FALSE]
                   n2 == [n1 EXCEPT !.outcome = outcome, !.cached = outcome]
                   n3 == [n2 EXCEPT !.against = theSat]
        <2> HIDE DEF card
        <2>1. n1 \in CardStates /\ n1.on = card.on
            BY <1>1, <1>2 DEF CardStates
        <2>2. n2 \in CardStates /\ n2.on = card.on
            <3> HIDE DEF n1
            <3> QED BY <2>1 DEF CardStates
        <2>3. n3 \in CardStates /\ n3.on = card.on /\ n3.against = theSat
            <3> HIDE DEF n2
            <3> QED BY <1>4, <2>2 DEF CardStates
        <2>4. next = n3
            BY DEF n1, n2, n3
        <2> QED BY <2>3, <2>4
    <1> HIDE DEF next, card
    <1>7. CardFits(c, next, alone, inscribed)
        BY <1>1, <1>2, <1>4, <1>6 DEF CardFits
    <1>8. UNCHANGED <<place, onNet, asked, resolving, lookupError, document, resolution, inscribed, alone, moves>>
        BY DEF VerificationEnds, lookupVars
    <1>9. CardsFit'
        <2>1. cards \in [Cards -> CardStates] /\ \A b \in Cards : CardFits(b, cards[b], alone, inscribed)
            BY DEF PageInv, CardsFit
        <2>2. cards' \in [Cards -> CardStates] /\ \A b \in Cards : cards'[b] = IF b = c THEN next ELSE cards[b]
            BY <1>5, <1>6, <2>1
        <2>3. \A b \in Cards : CardFits(b, cards'[b], alone, inscribed)
            BY <1>7, <2>1, <2>2
        <2> QED BY <1>8, <2>2, <2>3 DEF CardsFit
    <1> QED BY <1>8, <1>9 DEF PageInv, LookupFits, Undisturbed

LEMMA PageInvariant == DidPageSpec => []PageInv
    <1>1. DidPageInit => PageInv
        <2> SUFFICES ASSUME DidPageInit PROVE PageInv
            OBVIOUS
        <2>1. LookupFits
            BY DidPageAssumption DEF DidPageInit, LookupFits, Lookups, NoResolution, Kinds
        <2>2. Undisturbed
            BY DEF DidPageInit, Undisturbed
        <2>3. CardsFit
            BY CardTypes, NoCardFits DEF DidPageInit, CardsFit
        <2> QED BY <2>1, <2>2, <2>3 DEF PageInv
    <1>2. PageInv /\ [DidPageNext]_didVars => PageInv'
        <2> SUFFICES ASSUME PageInv, [DidPageNext]_didVars PROVE PageInv'
            OBVIOUS
        <2>1. onNet \in Chains
            BY DEF PageInv, LookupFits
        <2>2. CASE UNCHANGED didVars
            BY <2>1, <2>2, ListStepsKeep DEF didVars, lookupVars
        <2>3. ASSUME NEW i, ListArrives(i) \/ ListFails(i) PROVE PageInv'
            BY <2>1, <2>3, ListStepsKeep DEF ListArrives, ListFails
        <2>4. ASSUME NEW n \in Chains, SelectChain(n) PROVE PageInv'
            BY <2>4, ListStepsKeep DEF SelectChain
        <2>5. ASSUME NEW x, Refilter(x) \/ TurnTo(x) PROVE PageInv'
            BY <2>1, <2>5, ListStepsKeep DEF Refilter, TurnTo
        <2> QED BY <2>2, <2>3, <2>4, <2>5, VisitKeeps, VisitListKeeps, ResolvedKeeps, NotResolvedKeeps,
                   VerificationKeeps DEF DidPageNext
    <1> QED BY <1>1, <1>2, PTL DEF DidPageSpec

\* A credential about its own satoshi is never reported as one about another, in
\* whatever order lookups and verifications end; on a page whose lookups did not
\* overlap one about another satoshi always is (VerificationDetailsPanel.tsx:118-165).
THEOREM ComparedRight == DidPageSpec => []ComparedWithOwnSat
    <1>1. PageInv => ComparedWithOwnSat
        <2> SUFFICES ASSUME PageInv, NEW c \in Cards, Judged(c)
                     PROVE  /\ Subject[c] = OwnSat(c) => <<"satValidation", TRUE>> \in Checks(c)
                            /\ alone /\ Subject[c] \notin {NoSat, OwnSat(c)} => <<"satValidation", FALSE>> \in Checks(c)
            BY DEF ComparedWithOwnSat
        <2>1. CardFits(c, cards[c], alone, inscribed) /\ cards[c].on /\ cards[c].outcome # "none"
            BY DEF PageInv, CardsFit, Judged
        <2>2. cards[c].against \in {NoSat, OwnSat(c)} /\ (alone => cards[c].against = OwnSat(c))
            BY <2>1 DEF CardFits
        <2>3. OwnSat(c) # NoSat
            <3>1. PICK s \in Sats : c \in CardsOn[s]
                BY DEF Cards
            <3> QED BY <3>1, OwnSatIs, DidPageAssumption
        <2> DEFINE fits == Subject[c] = NoSat \/ cards[c].against \in {NoSat, Subject[c]}
        <2>4. <<"satValidation", fits>> \in Checks(c)
            BY DEF Checks
        <2>5. Subject[c] = OwnSat(c) => fits
            BY <2>2
        <2>6. alone /\ Subject[c] \notin {NoSat, OwnSat(c)} => ~fits
            BY <2>2, <2>3
        <2> QED BY <2>4, <2>5, <2>6
    <1> QED BY <1>1, PageInvariant, PTL

Less == {ss \in Nat \X Nat : ss[1] < ss[2]}

LEMMA LeastExists ==
    ASSUME NEW T \in SUBSET Nat, T # {}
    PROVE  \E t \in T : \A y \in T : t <= y
    <1>1. IsWellFoundedOn(Less, Nat)
        BY NatLessThanWellFounded DEF OpToRel, Less
    <1>2. PICK t \in T : \A y \in T : ~(<<y, t>> \in Less)
        BY <1>1, WFMin
    <1>3. ASSUME NEW y \in T PROVE t <= y
        <2>1. y \in Nat /\ t \in Nat /\ <<y, t>> \in Nat \X Nat
            OBVIOUS
        <2>2. ~(y < t)
            BY <1>2, <1>3, <2>1 DEF Less
        <2> QED BY <2>1, <2>2
    <1> QED BY <1>3

-----------------------------------------------------------------------------
(***************************************************************************)
(* Credentials of VC API providers.                                        *)
(***************************************************************************)
Selection == Slots \cup {NoProvider}
VarKeys == Selection \X STRING
Given == [keys : SUBSET VarKeys, typed : SUBSET VarKeys]

Settings == [open : BOOLEAN, listing : BOOLEAN, list : SUBSET Slots, sel : Selection,
             shows : Selection, asked : SUBSET Slots]
Forms == [on : BOOLEAN, vc : BOOLEAN, sel : Selection, options : SUBSET Slots,
          config : [of : Selection, names : SUBSET STRING], vars : Given, loading : BOOLEAN,
          asked : SUBSET Slots, run : Runs \cup {0}]

\* All that a page has come from, or awaits, is of the provider that it shows as
\* selected; what was asked before is dropped with the selection.
FormFits(f) ==
    /\ f \in Forms
    /\ f.vars.typed \subseteq f.vars.keys
    /\ ~f.loading => f.asked = {}
    /\ \A p, q \in f.asked : p = q
    /\ f.sel # NoProvider =>
         /\ f.asked \subseteq {f.sel}
         /\ f.config.names # {} => f.config.of = f.sel
         /\ \A key \in f.vars.keys : key[1] = f.sel

LEMMA NoFormFits == FormFits(NoForm)
    BY DEF FormFits, NoForm, Forms, NoConfig, NoVariables, Given, Selection

LEMMA AskingFits ==
    ASSUME NEW f, FormFits(f), NEW p \in Slots, f.sel = p, f.asked = {}
    PROVE  FormFits(Asking(f, p))
    BY DEF FormFits, Asking, Forms

LEMMA SelectingFits ==
    ASSUME FormFits(form), ~form.loading, NEW p \in Selection
    PROVE  FormFits(Selecting(p))
    <1> DEFINE f == [form EXCEPT !.sel = p, !.config = NoConfig, !.vars = NoVariables]
    <1>1. FormFits(f) /\ f.sel = p /\ f.asked = {}
        BY DEF FormFits, Forms, NoConfig, NoVariables, Given, Selection
    <1> HIDE DEF f
    <1>2. CASE p = NoProvider
        BY <1>1, <1>2 DEF Selecting, f
    <1>3. CASE p # NoProvider
        <2>1. p \in Slots
            BY <1>3 DEF Selection
        <2>2. FormFits(Asking(f, p))
            BY <1>1, <2>1, AskingFits
        <2> QED BY <1>3, <2>2 DEF Selecting, f
    <1> QED BY <1>2, <1>3

RunStates == [phase : {"unused", "create", "participate", "ended"}, provider : Selection,
              given : Given, at : Services \cup {NoProvider}]

\* A run's variables are its provider's.
RunFits(run) ==
    /\ run \in RunStates
    /\ run.given.typed \subseteq run.given.keys
    /\ \A key \in run.given.keys : key[1] = run.provider
    /\ run.phase \in {"create", "participate"} => run.provider \in Slots

Metadata == [vc : BOOLEAN, provider : Selection, given : Given, run : Runs \cup {0}, credential : BOOLEAN]

\* What the wizard keeps is of the run that brought it, which has ended for good.
MetadataFits ==
    /\ metadata \in Metadata
    /\ metadata.run # 0 =>
          LET run == runs[metadata.run] IN
          /\ metadata.provider = run.provider /\ metadata.given = run.given
          /\ run.phase = "ended" /\ run.at # NoProvider

VcInv ==
    /\ environment \in Environments /\ starts \in 0..MaxStarts /\ visits \in 0..MaxVisits
    /\ kept \subseteq Slots /\ settings \in Settings
    /\ FormFits(form)
    /\ runs \in [Runs -> RunStates] /\ \A r \in Runs : RunFits(runs[r])
    /\ MetadataFits

LEMMA ListedIsSlots ==
    ASSUME NEW env \in Environments
    PROVE  /\ ListedProviders(env) \subseteq Slots /\ ListedProviders(env) # {}
           /\ Min(ListedProviders(env)) \in ListedProviders(env)
    <1> DEFINE S == ListedProviders(env)
    <1>1. S \subseteq Slots /\ S \in SUBSET Nat /\ S # {}
        BY VcExchangeAssumption DEF ListedProviders
    <1> HIDE DEF S
    <1>2. \E t \in S : \A y \in S : t <= y
        BY <1>1, LeastExists
    <1>3. Min(S) \in S
        BY <1>2 DEF Min
    <1> QED BY <1>1, <1>3 DEF S

LEMMA ServiceOfSlot ==
    ASSUME VcInv, NEW p
    PROVE  ServiceFor(p) \in Services /\ ServiceFor(p) # NoProvider
    <1>1. environment \in Environments
        BY DEF VcInv
    <1>2. CASE environment = {}
        BY <1>2, VcExchangeAssumption DEF ServiceFor, Services
    <1>3. CASE environment # {}
        <2>1. ProviderById(environment, p) \in Slots
            BY <1>1, ListedIsSlots DEF ProviderById, DefaultProvider
        <2> QED BY <1>3, <2>1, VcExchangeAssumption DEF ServiceFor, Services
    <1> QED BY <1>2, <1>3

LEMMA PageFits ==
    ASSUME VcInv, NEW m \in Metadata
    PROVE  FormFits(PageFor(m))
    <1> DEFINE f == [NoForm EXCEPT !.on = TRUE, !.vc = m.vc, !.sel = m.provider, !.options = kept]
    <1>1. kept \subseteq Slots /\ m.vc \in BOOLEAN /\ m.provider \in Selection
        BY DEF VcInv, Metadata
    <1>2. FormFits(f) /\ f.sel = m.provider /\ f.asked = {}
        BY <1>1 DEF FormFits, NoForm, Forms, NoConfig, NoVariables, Given, Selection
    <1> HIDE DEF f
    <1>3. m.provider # NoProvider => FormFits(Asking(f, m.provider))
        BY <1>1, <1>2, AskingFits DEF Selection
    <1> QED BY <1>2, <1>3 DEF PageFor, f

\* Steps of the form alone.
LEMMA FormSteps ==
    ASSUME VcInv,
           \/ EnterPage \/ LeavePage \/ OptionsFollow \/ ToggleCredential
           \/ \E p \in Selection : SelectProvider(p)
           \/ \E p \in Slots : ConfigFails(p) \/ \E w \in Workflows : ConfigArrives(p, w)
           \/ \E n \in UNION {Names[s] : s \in Services} : EnterVariable(n)
    PROVE  /\ FormFits(form') /\ visits' \in 0..MaxVisits
           /\ UNCHANGED <<environment, starts, kept, settings, runs, metadata>>
    <1> USE DEF VcInv
    <1>0. FormFits(form) /\ form \in Forms /\ visits \in 0..MaxVisits
        BY DEF FormFits
    <1>1. CASE EnterPage
        <2>1. FormFits(PageFor(metadata))
            BY PageFits DEF MetadataFits
        <2> QED BY <1>1, <2>1, VcExchangeAssumption DEF EnterPage, Opening
    <1>2. CASE LeavePage
        BY <1>0, <1>2, NoFormFits DEF LeavePage
    <1>3. CASE OptionsFollow
        BY <1>0, <1>3 DEF OptionsFollow, FormFits, Forms
    <1>4. CASE ToggleCredential
        <2> DEFINE s == IF form.vc THEN NoProvider ELSE form.sel
        <2>1. s \in {form.sel, NoProvider} /\ s \in Selection
            BY <1>0 DEF Forms, Selection
        <2>2. form' = [form EXCEPT !.vc = ~form.vc, !.sel = s]
            BY <1>4 DEF ToggleCredential
        <2>3. form.vc \in BOOLEAN
            BY <1>0 DEF Forms
        <2> HIDE DEF s
        <2>4. FormFits(form')
            BY <1>0, <2>1, <2>2, <2>3 DEF FormFits, Forms
        <2> QED BY <1>0, <1>4, <2>4 DEF ToggleCredential
    <1>5. ASSUME NEW p \in Selection, SelectProvider(p)
          PROVE  FormFits(form') /\ visits' = visits
                 /\ UNCHANGED <<environment, starts, kept, settings, runs, metadata>>
        BY <1>5, SelectingFits DEF SelectProvider, Editable
    <1>6. ASSUME NEW p \in Slots, ConfigFails(p)
          PROVE  FormFits(form') /\ visits' = visits
                 /\ UNCHANGED <<environment, starts, kept, settings, runs, metadata>>
        BY <1>0, <1>6 DEF ConfigFails, FormFits, Forms, NoConfig, Selection
    <1>7. ASSUME NEW p \in Slots, NEW w \in Workflows, ConfigArrives(p, w)
          PROVE  FormFits(form') /\ visits' = visits
                 /\ UNCHANGED <<environment, starts, kept, settings, runs, metadata>>
        <2> DEFINE names == VariablesIn(w, ServiceFor(p))
                   keys == {p} \X names
                   config == [of |-> p, names |-> names]
                   vars == [keys |-> keys, typed |-> {}]
        <2>1. names \in SUBSET STRING
            <3>1. ServiceFor(p) \in Services
                BY ServiceOfSlot
            <3> QED BY <3>1, VcExchangeAssumption DEF VariablesIn
        <2>2. p \in form.asked
              /\ form' = [form EXCEPT !.asked = form.asked \ {p}, !.loading = FALSE,
                                      !.config = config, !.vars = vars]
            BY <1>7 DEF ConfigArrives
        <2> HIDE DEF names
        <2>3. config \in [of : Selection, names : SUBSET STRING] /\ vars \in Given
              /\ vars.typed = {} /\ config.of = p /\ \A key \in vars.keys : key[1] = p
            BY <2>1 DEF Selection, Given, VarKeys
        <2> HIDE DEF config, vars
        <2>4. form' \in Forms
            BY <1>0, <2>2, <2>3 DEF Forms
        <2>5. /\ form'.asked = form.asked \ {p} /\ form'.loading = FALSE /\ form'.config = config
              /\ form'.vars = vars /\ form'.sel = form.sel
            BY <1>0, <2>2 DEF Forms
        <2>6. form.sel # NoProvider => form.sel = p /\ form.asked = {p}
            BY <1>0, <2>2 DEF FormFits
        <2>7. form.asked \ {p} = {}
            BY <1>0, <2>2 DEF FormFits
        <2>8. FormFits(form')
            BY <2>3, <2>4, <2>5, <2>6, <2>7 DEF FormFits
        <2> QED BY <1>7, <2>8 DEF ConfigArrives
    <1>8. ASSUME NEW n, EnterVariable(n)
          PROVE  FormFits(form') /\ visits' = visits
                 /\ UNCHANGED <<environment, starts, kept, settings, runs, metadata>>
        <2> DEFINE key == <<form.config.of, n>>
                   vars == [keys |-> form.vars.keys \cup {key}, typed |-> form.vars.typed \cup {key}]
        <2>1. n \in form.config.names /\ form' = [form EXCEPT !.vars = vars]
            BY <1>8 DEF EnterVariable
        <2>2. form.config \in [of : Selection, names : SUBSET STRING] /\ form.vars \in Given
            BY <1>0 DEF Forms
        <2>3. form.config.of \in Selection /\ n \in STRING
            BY <2>1, <2>2
        <2>4. key \in VarKeys /\ key[1] = form.config.of
            BY <2>3 DEF VarKeys
        <2> HIDE DEF key
        <2>5. vars \in Given
            BY <2>2, <2>4 DEF Given
        <2>6. vars.keys = form.vars.keys \cup {key} /\ vars.typed = form.vars.typed \cup {key}
            OBVIOUS
        <2> HIDE DEF vars
        <2>7. form' \in Forms /\ form'.vars = vars /\ form'.sel = form.sel /\ form'.config = form.config
              /\ form'.loading = form.loading /\ form'.asked = form.asked
            BY <1>0, <2>1, <2>5 DEF Forms
        <2>8. FormFits(form')
            BY <1>0, <2>1, <2>4, <2>6, <2>7 DEF FormFits
        <2> QED BY <1>8, <2>8 DEF EnterVariable
    <1> QED BY <1>0, <1>1, <1>2, <1>3, <1>4, <1>5, <1>6, <1>7, <1>8

\* Steps of the API and of the settings.
LEMMA SettingsSteps ==
    ASSUME VcInv,
           \/ \E env \in Environments : ApiRestarts(env)
           \/ OpenSettings \/ LeaveSettings \/ ProvidersListed \/ ProvidersNotListed
           \/ \E p \in Slots : SelectInSettings(p) \/ SettingsAnswered(p)
    PROVE  VcInv'
    <1> DEFINE Rest == UNCHANGED <<form, runs, metadata>>
    <1> USE DEF VcInv
    <1>1. settings \in Settings
        OBVIOUS
    <1>2. Rest => FormFits(form') /\ (\A r \in Runs : RunFits(runs'[r])) /\ runs' \in [Runs -> RunStates]
                  /\ MetadataFits'
        BY DEF MetadataFits
    <1> HIDE DEF VcInv
    <1>3. ASSUME NEW env \in Environments, ApiRestarts(env) PROVE VcInv'
        <2>1. starts' \in 0..MaxStarts
            BY <1>3, VcExchangeAssumption DEF ApiRestarts, VcInv
        <2> QED BY <1>2, <1>3, <2>1 DEF ApiRestarts, VcInv
    <1>4. CASE OpenSettings
        <2>1. visits' \in 0..MaxVisits
            BY <1>4, VcExchangeAssumption DEF OpenSettings, Opening, VcInv
        <2>2. settings' \in Settings
            BY <1>4 DEF OpenSettings, NoSettings, Settings, Selection
        <2> QED BY <1>2, <1>4, <2>1, <2>2 DEF OpenSettings, VcInv
    <1>5. CASE LeaveSettings
        <2>1. settings' \in Settings
            BY <1>5 DEF LeaveSettings, NoSettings, Settings, Selection
        <2> QED BY <1>2, <1>5, <2>1 DEF LeaveSettings, VcInv
    <1>6. ASSUME NEW found \in SUBSET Slots, Keep(found), found # {} => Min(found) \in found PROVE VcInv'
        <2>1. settings' \in Settings
            <3>1. CASE found = {}
                BY <1>1, <1>6, <3>1 DEF Keep, Settings
            <3>2. CASE found # {}
                <4> DEFINE m == Min(found)
                           asking == settings.asked \cup {m}
                <4>1. m \in Slots /\ asking \in SUBSET Slots /\ m \in Selection
                    BY <1>1, <1>6, <3>2 DEF Settings, Selection
                <4>2. settings' = [settings EXCEPT !.listing = FALSE, !.list = found, !.sel = m, !.asked = asking]
                    BY <1>6, <3>2 DEF Keep
                <4> HIDE DEF m, asking
                <4> QED BY <1>1, <4>1, <4>2 DEF Settings
            <3> QED BY <3>1, <3>2
        <2> QED BY <1>2, <1>6, <2>1 DEF Keep, VcInv
    <1>7. CASE ProvidersListed
        BY <1>6, <1>7, ListedIsSlots DEF ProvidersListed, VcInv
    <1>8. CASE ProvidersNotListed
        BY <1>6, <1>8 DEF ProvidersNotListed
    <1>9. ASSUME NEW p \in Slots, SelectInSettings(p) PROVE VcInv'
        <2> DEFINE asking == settings.asked \cup {p}
        <2>1. asking \in SUBSET Slots /\ p \in Selection
            BY <1>1 DEF Settings, Selection
        <2>2. settings' = [settings EXCEPT !.sel = p, !.asked = asking]
            BY <1>9 DEF SelectInSettings
        <2> HIDE DEF asking
        <2>3. settings' \in Settings
            BY <1>1, <2>1, <2>2 DEF Settings
        <2> QED BY <1>2, <1>9, <2>3 DEF SelectInSettings, VcInv
    <1>10. ASSUME NEW p \in Slots, SettingsAnswered(p) PROVE VcInv'
        <2> DEFINE asking == settings.asked \ {p}
        <2>1. asking \in SUBSET Slots
            BY <1>1 DEF Settings
        <2>2. PICK seen \in {p, NoProvider} :
                settings' = [settings EXCEPT !.asked = asking, !.shows = seen]
            BY <1>10 DEF SettingsAnswered
        <2>3. seen \in Selection
            BY DEF Selection
        <2> HIDE DEF asking
        <2>4. settings' \in Settings
            BY <1>1, <2>1, <2>2, <2>3 DEF Settings
        <2> QED BY <1>2, <1>10, <2>4 DEF SettingsAnswered, VcInv
    <1> QED BY <1>3, <1>4, <1>5, <1>7, <1>8, <1>9, <1>10

\* A run that has not ended may change; what the wizard keeps is of one that has.
LEMMA RunChanges ==
    ASSUME VcInv, NEW r \in Runs, runs[r].phase # "ended", NEW run, RunFits(run),
           runs' = [runs EXCEPT ![r] = run]
    PROVE  /\ runs' \in [Runs -> RunStates] /\ \A q \in Runs : RunFits(runs'[q])
           /\ metadata' = metadata => MetadataFits'
    <1>1. runs \in [Runs -> RunStates] /\ run \in RunStates
        BY DEF VcInv, RunFits
    <1>2. runs' \in [Runs -> RunStates] /\ \A q \in Runs : RunFits(runs'[q])
        BY <1>1 DEF VcInv
    <1>3. ASSUME metadata' = metadata PROVE MetadataFits'
        <2>1. metadata.run # r /\ (metadata.run = 0 \/ metadata.run \in Runs)
            BY <1>1 DEF VcInv, MetadataFits, Metadata, Runs
        <2>2. metadata.run \in Runs => runs'[metadata.run] = runs[metadata.run]
            BY <1>1, <2>1
        <2> QED BY <1>3, <2>1, <2>2 DEF VcInv, MetadataFits
    <1> QED BY <1>2, <1>3

LEMMA EndedFits ==
    ASSUME VcInv, NEW r, Ended(r)
    PROVE  FormFits(form')
    <1>1. CASE form.run = r
        <2>1. form \in Forms /\ FormFits(form)
            BY DEF VcInv, FormFits
        <2>2. form' = [form EXCEPT !.run = 0]
            BY <1>1 DEF Ended
        <2>3. form' \in Forms
            BY <2>1, <2>2 DEF Forms
        <2>4. /\ form'.vars = form.vars /\ form'.loading = form.loading /\ form'.asked = form.asked
              /\ form'.sel = form.sel /\ form'.config = form.config
            BY <2>1, <2>2 DEF Forms
        <2> QED BY <2>1, <2>3, <2>4 DEF FormFits
    <1>2. CASE form.run # r
        BY <1>2 DEF Ended, VcInv
    <1> QED BY <1>1, <1>2

LEMMA FailedFits == RunFits(FailedRun)
    BY DEF RunFits, FailedRun, NoRun, RunStates, NoVariables, Given, Selection

\* Steps of exchanges.
LEMMA RunSteps ==
    ASSUME VcInv, NEW r \in Runs,
           \/ ContinueWithCredential(r) \/ RunBreaksOff(r)
           \/ \E field \in {"exchange_id", "other"} : ExchangeMade(r, {field})
           \/ \E issued \in BOOLEAN : ExchangeJoined(r, issued)
    PROVE  VcInv'
    <1>0. /\ FormFits(form) /\ form \in Forms /\ runs[r] \in RunStates /\ RunFits(runs[r])
          /\ runs \in [Runs -> RunStates]
        BY DEF VcInv, FormFits
    <1>1. CASE ContinueWithCredential(r)
        <2> DEFINE run == [phase |-> "create", provider |-> form.sel, given |-> form.vars, at |-> NoProvider]
        <2>1. form.sel \in Slots /\ form.vars \in Given
            BY <1>0, <1>1 DEF ContinueWithCredential, Forms, Selection
        <2>2. RunFits(run)
            BY <1>0, <1>1, <2>1 DEF ContinueWithCredential, FormFits, RunFits, RunStates, Selection
        <2>3. runs[r].phase # "ended" /\ runs' = [runs EXCEPT ![r] = run]
            BY <1>1 DEF ContinueWithCredential
        <2> HIDE DEF run
        <2>4. form' = [form EXCEPT !.run = r]
            BY <1>1 DEF ContinueWithCredential
        <2>5. form' \in Forms
            BY <1>0, <2>4 DEF Forms
        <2>6. /\ form'.vars = form.vars /\ form'.loading = form.loading /\ form'.asked = form.asked
              /\ form'.sel = form.sel /\ form'.config = form.config
            BY <1>0, <2>4 DEF Forms
        <2>7. FormFits(form')
            BY <1>0, <2>5, <2>6 DEF FormFits
        <2>8. MetadataFits' /\ runs' \in [Runs -> RunStates] /\ \A q \in Runs : RunFits(runs'[q])
            BY <1>1, <2>2, <2>3, RunChanges DEF ContinueWithCredential
        <2> QED BY <1>1, <2>7, <2>8 DEF ContinueWithCredential, VcInv
    <1>2. CASE RunBreaksOff(r)
        <2>1. MetadataFits' /\ runs' \in [Runs -> RunStates] /\ \A q \in Runs : RunFits(runs'[q])
            BY <1>2, FailedFits, RunChanges DEF RunBreaksOff
        <2>2. FormFits(form')
            BY <1>2, EndedFits DEF RunBreaksOff
        <2> QED BY <1>2, <2>1, <2>2 DEF RunBreaksOff, VcInv
    <1>3. ASSUME NEW fields, ExchangeMade(r, fields) PROVE VcInv'
        <2> DEFINE at == ServiceFor(runs[r].provider)
        <2>1. at \in Services
            BY ServiceOfSlot
        <2>2. FormFits(form')
            BY <1>0, <1>3, EndedFits DEF ExchangeMade
        <2> HIDE DEF at
        <2>3. CASE fields \cap IdNames # {}
            <3> DEFINE begun == [runs[r] EXCEPT !.phase = "participate"]
                       run == [begun EXCEPT !.at = at]
            <3>1. begun \in RunStates /\ begun.given = runs[r].given /\ begun.provider = runs[r].provider
                BY <1>0 DEF RunStates
            <3>2. run \in RunStates /\ run.given = runs[r].given /\ run.provider = runs[r].provider
                <4> HIDE DEF begun
                <4> QED BY <2>1, <3>1 DEF RunStates
            <3>3. runs[r].phase = "create" /\ runs' = [runs EXCEPT ![r] = run]
                BY <1>0, <1>3, <2>3 DEF ExchangeMade, at
            <3> HIDE DEF run, begun
            <3>4. RunFits(run)
                BY <1>0, <3>2, <3>3 DEF RunFits
            <3>5. MetadataFits' /\ runs' \in [Runs -> RunStates] /\ \A q \in Runs : RunFits(runs'[q])
                BY <1>3, <3>3, <3>4, RunChanges DEF ExchangeMade
            <3> QED BY <1>3, <2>2, <3>5 DEF ExchangeMade, VcInv
        <2>4. CASE fields \cap IdNames = {}
            <3>1. MetadataFits' /\ runs' \in [Runs -> RunStates] /\ \A q \in Runs : RunFits(runs'[q])
                BY <1>3, <2>4, FailedFits, RunChanges DEF ExchangeMade
            <3> QED BY <1>3, <2>2, <3>1 DEF ExchangeMade, VcInv
        <2> QED BY <2>3, <2>4
    <1>4. ASSUME NEW issued \in BOOLEAN, ExchangeJoined(r, issued) PROVE VcInv'
        <2> DEFINE run == [runs[r] EXCEPT !.phase = "ended"]
                   m == [vc |-> TRUE, provider |-> runs[r].provider, given |-> runs[r].given,
                         run |-> r, credential |-> issued]
        <2>1. run \in RunStates /\ run.given = runs[r].given /\ run.provider = runs[r].provider
              /\ run.phase = "ended" /\ run.at = runs[r].at
            BY <1>0 DEF RunStates
        <2>2. /\ runs[r].phase = "participate" /\ runs' = [runs EXCEPT ![r] = run]
              /\ runs[r].at # NoProvider /\ metadata' = m /\ AfterNextStep(m)
              /\ UNCHANGED <<environment, starts, kept, settings>>
            BY <1>4, ServiceOfSlot DEF ExchangeJoined
        <2>3. m \in Metadata /\ m.run = r /\ m.provider = runs[r].provider /\ m.given = runs[r].given
            BY <1>0 DEF Metadata, RunStates
        <2> HIDE DEF run, m
        <2>4. RunFits(run)
            BY <1>0, <2>1 DEF RunFits
        <2>5. runs' \in [Runs -> RunStates] /\ \A q \in Runs : RunFits(runs'[q])
            BY <2>2, <2>4, RunChanges
        <2>6. MetadataFits'
            BY <1>0, <2>1, <2>2, <2>3 DEF MetadataFits
        <2>7. FormFits(form') /\ visits' \in 0..MaxVisits
            BY <2>2, <2>3, PageFits, NoFormFits, VcExchangeAssumption DEF AfterNextStep, Opening, VcInv
        <2> QED BY <2>2, <2>5, <2>6, <2>7 DEF VcInv
    <1> QED BY <1>1, <1>2, <1>3, <1>4

LEMMA VcInvariant == VcSpec => []VcInv
    <1>1. VcInit => VcInv
        <2> SUFFICES ASSUME VcInit PROVE VcInv
            OBVIOUS
        <2>1. NoSettings \in Settings
            BY DEF NoSettings, Settings, Selection
        <2>2. NoRun \in RunStates /\ RunFits(NoRun)
            BY DEF RunFits, NoRun, RunStates, NoVariables, Given, Selection
        <2>3. Standard \in Metadata /\ Standard.run = 0
            BY DEF Standard, Metadata, NoVariables, Given, Selection
        <2>4. runs \in [Runs -> RunStates] /\ \A r \in Runs : RunFits(runs[r])
            BY <2>2 DEF VcInit
        <2> QED BY <2>1, <2>3, <2>4, NoFormFits, VcExchangeAssumption DEF VcInit, VcInv, MetadataFits
    <1>2. VcInv /\ [VcNext]_vcVars => VcInv'
        <2> SUFFICES ASSUME VcInv, [VcNext]_vcVars PROVE VcInv'
            OBVIOUS
        <2>1. ASSUME /\ FormFits(form') /\ visits' \in 0..MaxVisits
                     /\ UNCHANGED <<environment, starts, kept, settings, runs, metadata>>
              PROVE  VcInv'
            BY <2>1 DEF VcInv, MetadataFits
        <2>2. CASE UNCHANGED vcVars
            BY <2>1, <2>2 DEF vcVars, VcInv
        <2>3. CASE ContinueWithout
            <3>1. Standard \in Metadata /\ Standard.run = 0
                BY DEF Standard, Metadata, NoVariables, Given, Selection
            <3> QED BY <2>3, <3>1, NoFormFits DEF ContinueWithout, VcInv, MetadataFits
        <2>4. CASE \E r \in Runs :
                     \/ ContinueWithCredential(r) \/ RunBreaksOff(r)
                     \/ \E field \in {"exchange_id", "other"} : ExchangeMade(r, {field})
                     \/ \E issued \in BOOLEAN : ExchangeJoined(r, issued)
            BY <2>4, RunSteps
        <2>5. CASE \/ \E env \in Environments : ApiRestarts(env)
                   \/ OpenSettings \/ LeaveSettings \/ ProvidersListed \/ ProvidersNotListed
                   \/ \E p \in Slots : SelectInSettings(p) \/ SettingsAnswered(p)
            BY <2>5, SettingsSteps
        <2>6. CASE \/ EnterPage \/ LeavePage \/ OptionsFollow \/ ToggleCredential
                   \/ \E p \in Selection : SelectProvider(p)
                   \/ \E p \in Slots : ConfigFails(p) \/ \E w \in Workflows : ConfigArrives(p, w)
                   \/ \E n \in UNION {Names[s] : s \in Services} : EnterVariable(n)
            BY <2>1, <2>6, FormSteps
        <2> QED BY <2>2, <2>3, <2>4, <2>5, <2>6 DEF VcNext, Selection
    <1> QED BY <1>1, <1>2, PTL DEF VcSpec

\* The providers kept, the settings, the metadata page and every exchange keep their
\* types, whatever is answered when (MetadataStep.tsx, VCApiProviderSettings.tsx).
THEOREM VcTypeCorrect == VcSpec => []VcTypeOK
    <1>1. VcInv => VcTypeOK
        <2> SUFFICES ASSUME VcInv PROVE VcTypeOK
            OBVIOUS
        <2>1. form \in Forms /\ settings \in Settings /\ metadata \in Metadata
            BY DEF VcInv, FormFits, MetadataFits
        <2>2. \A r \in Runs : RunFits(runs[r])
            BY DEF VcInv
        <2>3. {kept, settings.list, settings.asked, form.options, form.asked} \subseteq SUBSET Slots
            BY <2>1 DEF VcInv, Forms, Settings
        <2>4. {settings.sel, settings.shows, form.sel, form.config.of, metadata.provider} \subseteq Slots \cup {NoProvider}
            <3>1. form.config \in [of : Selection, names : SUBSET STRING]
                BY <2>1 DEF Forms
            <3>2. form.config.of \in Selection
                BY <3>1
            <3> QED BY <2>1, <3>2 DEF Forms, Settings, Metadata, Selection
        <2>5. {settings.open, settings.listing, form.on, form.vc, form.loading, metadata.vc} \subseteq BOOLEAN
            BY <2>1 DEF Forms, Settings, Metadata
        <2>6. {form.run, metadata.run} \subseteq Runs \cup {0}
            BY <2>1 DEF Forms, Metadata
        <2>7. \A r \in Runs : /\ runs[r].phase \in {"unused", "create", "participate", "ended"}
                              /\ runs[r].given.typed \subseteq runs[r].given.keys
            BY <2>2 DEF RunFits, RunStates
        <2> QED BY <2>3, <2>4, <2>5, <2>6, <2>7 DEF VcTypeOK, VcInv
    <1> QED BY <1>1, VcInvariant, PTL

\* Variables go only to the provider whose configuration asked for them, and what the
\* wizard keeps of an exchange - credential, provider, variables - is of one run that
\* has ended, however pages are left, selections changed and answers delayed
\* (MetadataStep.tsx:295-335, 397-455).
THEOREM ExchangesOfTheirForm == VcSpec => []ExchangeIsOfItsForm
    <1>1. VcInv => ExchangeIsOfItsForm
        BY DEF VcInv, RunFits, MetadataFits, ExchangeIsOfItsForm
    <1> QED BY <1>1, VcInvariant, PTL

-----------------------------------------------------------------------------
(***************************************************************************)
(* Batch inscriptions.                                                     *)
(***************************************************************************)
Sends == [commit : Batches, reveal : Reveals]
JobPhases == {"off", "files", "sats", "utxos", "sign", "commit", "reveal", "send", "open", "bump"}
Jobs == [at : JobPhases, batch : Nat, chunk : Nat, chunks : Nat, done : SUBSET Sends]

\* An item whose commit and reveal were accepted, and belong together.
Accepted(item) ==
    /\ item.commit \in committed /\ item.reveal \in revealed
    /\ item.reveal.batch = item.commit

\* A job runs on the page that started it, which is not remounted meanwhile.  One that
\* prepares batches has no batch under review, and is about to sign the last one.
JobFits(j) ==
    /\ j \in Jobs /\ j.batch <= built /\ j.chunk <= j.chunks /\ j.chunks <= 2
    /\ \A item \in j.done : Accepted(item)
    /\ j.at # "off" => batchStep = 1
    /\ j.at \in {"files", "sats", "utxos", "sign", "commit", "reveal"} => ~awaiting
    /\ j.at \in {"sign", "commit", "reveal"} => j.batch # 0
    /\ j.at = "sign" /\ j.chunks = 0 => j.batch = built /\ prepared = built
    /\ j.at \in {"commit", "reveal"} => j.chunks # 0
    /\ j.at \in {"off", "files", "sats", "utxos"} => j.chunk = 0 /\ j.chunks = 0 /\ j.done = {}
    /\ j.at = "send" => commitHex # 0

BatchPagesTyped ==
    /\ batchStep \in 0..2 /\ pkg \in Packages \cup {NoPackage} /\ uploads \subseteq Packages
    /\ awaiting \in BOOLEAN /\ issues \in BOOLEAN /\ polling \in BOOLEAN
    /\ prepared \in 0..built /\ commitHex \in 0..built /\ commitTxid \in 0..built
    /\ extra \in {"off", "combined", "satpoints"} /\ extras \in 0..MaxExtras

NetworkTyped ==
    /\ built \in 0..MaxBatches
    /\ committed \subseteq Batches /\ revealed \subseteq Reveals
    /\ results \subseteq Sends /\ \A item \in results : Accepted(item)

BatchInv == BatchPagesTyped /\ NetworkTyped /\ JobFits(job) /\ ReviewedIsSent

LEMMA NoJobFits ==
    ASSUME built \in Nat
    PROVE  JobFits(NoJob) /\ NoJob.at = "off"
BY DEF JobFits, NoJob, Jobs, JobPhases

LEMMA BatchStart == BatchInit => BatchInv
<1> SUFFICES ASSUME BatchInit PROVE BatchInv
  OBVIOUS
<1>1. MaxBatches \in Nat /\ MaxExtras \in Nat
  BY BatchAssumption
<1>2. JobFits(job)
  <2>1. built \in Nat /\ job = NoJob
    BY DEF BatchInit
  <2>2. QED BY <2>1, NoJobFits
<1>3. BatchPagesTyped
  <2>1. 0 \in 0..2 /\ 0 \in 0..MaxExtras /\ 0 \in 0..built
    BY <1>1 DEF BatchInit
  <2>2. QED BY <2>1 DEF BatchInit, BatchPagesTyped
<1>4. NetworkTyped
  BY <1>1 DEF BatchInit, NetworkTyped
<1>5. ReviewedIsSent
  BY DEF BatchInit, ReviewedIsSent
<1>6. QED BY <1>2, <1>3, <1>4, <1>5 DEF BatchInv

\* A job that moves on, or ends, while what it fits stays.
LEMMA StaysAccepted ==
    ASSUME committed \subseteq committed', revealed \subseteq revealed', NEW item, Accepted(item)
    PROVE  Accepted(item)'
BY DEF Accepted

\* A job that neither begins nor goes on keeps to what it fits.
LEMMA JobStays ==
    ASSUME BatchInv, job' = job, built' = built, committed' = committed, revealed' = revealed,
           batchStep' = batchStep \/ job.at = "off",
           awaiting' = awaiting \/ ~awaiting',
           prepared' = prepared \/ job.at = "off", commitHex' = commitHex \/ job.at = "off"
    PROVE  JobFits(job)'
<1>1. JobFits(job) /\ \A item \in job.done : Accepted(item)'
  BY StaysAccepted DEF BatchInv, JobFits
<1>2. QED BY <1>1 DEF JobFits

LEMMA JobEnds == ASSUME BatchInv, EndJob, built' \in Nat PROVE JobFits(job)'
BY NoJobFits DEF EndJob, JobFits, NoJob, Jobs, JobPhases

\* A step of the job that sends nothing.
LEMMA JobGoes ==
    ASSUME BatchInv, NEW where \in JobPhases \ {"off"}, JobAt(where), built' = built,
           committed \subseteq committed', revealed \subseteq revealed', batchStep' = batchStep,
           batchStep = 1, prepared' = prepared, commitHex' = commitHex,
           where \in {"files", "sats", "utxos", "commit", "reveal"} => ~awaiting',
           where # "sign", where = "send" => commitHex # 0,
           where \in {"files", "sats", "utxos"} => job.at \in {"off", "files", "sats"},
           where \in {"commit", "reveal"} =>
             job.at \in {"sign", "commit", "reveal"} /\ job.chunks # 0
    PROVE  JobFits(job)'
<1>1. JobFits(job) /\ job' = [job EXCEPT !.at = where]
  BY DEF BatchInv, JobAt
<1>2. /\ job'.at = where /\ job'.batch = job.batch /\ job'.chunk = job.chunk
      /\ job'.chunks = job.chunks /\ job'.done = job.done /\ job' \in Jobs
  BY <1>1 DEF JobFits, Jobs
<1>3. \A item \in job.done : Accepted(item)'
  BY <1>1, StaysAccepted DEF JobFits
<1>4. QED BY <1>1, <1>2, <1>3 DEF JobFits

\* Steps of the pages: the job goes on, or there is none.
LEMMA BatchPagesStep ==
    ASSUME BatchInv,
           \/ \E p \in Packages : Upload(p) \/ UploadRead(p) \/ UploadFails(p)
           \/ UploadNext \/ CancelReview \/ BackToUpload
           \/ \E k \in {"combined", "satpoints"} : ExtraStart(k)
           \/ ExtraSent \/ ExtraEnds \/ RefreshItems
    PROVE  BatchInv'
<1>1. MaxBatches \in Nat /\ MaxExtras \in Nat /\ BatchPagesTyped /\ NetworkTyped /\ ReviewedIsSent
      /\ JobFits(job)
  BY BatchAssumption DEF BatchInv
<1>2. UNCHANGED <<built, committed, revealed, results, job>>
  BY DEF Upload, UploadRead, UploadFails, UploadNext, CancelReview, BackToUpload, ExtraStart,
         ExtraSent, ExtraEnds, RefreshItems, batchNetwork
<1>3. NetworkTyped'
  BY <1>1, <1>2 DEF NetworkTyped, Accepted
<1>4. /\ batchStep' = batchStep \/ job.at = "off"
      /\ awaiting' = awaiting \/ ~awaiting'
      /\ UNCHANGED <<prepared, commitHex>> \/ job.at = "off"
  BY <1>1 DEF Upload, UploadRead, UploadFails, UploadNext, CancelReview, BackToUpload, ExtraStart,
         ExtraSent, ExtraEnds, RefreshItems, RunIdle, Remounted, runPage, JobFits
<1>5. JobFits(job)'
  BY <1>2, <1>4, JobStays
<1>6. UNCHANGED runPage \/ Remounted \/ CancelReview
  BY DEF Upload, UploadRead, UploadFails, UploadNext, BackToUpload, ExtraStart, ExtraSent,
         ExtraEnds, RefreshItems
<1>7. ReviewedIsSent'
  BY <1>1, <1>2, <1>6 DEF ReviewedIsSent, runPage, Remounted, CancelReview
<1>8. /\ awaiting' \in BOOLEAN /\ issues' \in BOOLEAN
      /\ prepared' \in 0..built /\ commitHex' \in 0..built /\ commitTxid' \in 0..built
  <2>1. built \in Nat /\ 0 \in 0..built
    BY <1>1 DEF NetworkTyped
  <2>2. CASE UNCHANGED runPage
    BY <1>1, <2>2 DEF BatchPagesTyped, runPage
  <2>3. CASE Remounted
    BY <2>1, <2>3 DEF Remounted
  <2>4. CASE CancelReview
    BY <1>1, <2>4 DEF BatchPagesTyped, CancelReview
  <2>5. QED BY <1>6, <2>2, <2>3, <2>4
<1>9. /\ batchStep' \in 0..2 /\ pkg' \in Packages \cup {NoPackage} /\ uploads' \subseteq Packages
  <2>1. /\ batchStep' \in {batchStep, 0, 1}
        /\ pkg' = pkg \/ \E p \in Packages : pkg' = p
        /\ \/ \E p \in Packages : uploads' = uploads \cup {p}
           \/ uploads' \subseteq uploads
    BY DEF Upload, UploadRead, UploadFails, UploadNext, CancelReview, BackToUpload, ExtraStart,
           ExtraSent, ExtraEnds, RefreshItems
  <2>2. QED BY <1>1, <2>1 DEF BatchPagesTyped
<1>10. polling' \in BOOLEAN /\ extra' \in {"off", "combined", "satpoints"} /\ extras' \in 0..MaxExtras
  <2>1. CASE ExtraSent
    BY <1>1, <2>1 DEF BatchPagesTyped, ExtraSent
  <2>2. CASE RefreshItems
    BY <1>1, <2>2 DEF BatchPagesTyped, RefreshItems
  <2>3. CASE \E k \in {"combined", "satpoints"} : ExtraStart(k)
    BY <1>1, <2>3 DEF BatchPagesTyped, ExtraStart
  <2>4. CASE ExtraEnds
    BY <1>1, <2>4 DEF BatchPagesTyped, ExtraEnds
  <2>5. CASE UNCHANGED batchSummary
    BY <1>1, <2>5 DEF BatchPagesTyped, batchSummary
  <2>6. QED BY <2>1, <2>2, <2>3, <2>4, <2>5 DEF Upload, UploadRead, UploadFails, UploadNext,
              CancelReview, BackToUpload
<1>11. BatchPagesTyped'
  BY <1>2, <1>8, <1>9, <1>10 DEF BatchPagesTyped
<1>12. QED BY <1>3, <1>5, <1>7, <1>11 DEF BatchInv

\* Steps of the job that send nothing, and its ends.
LEMMA JobStep ==
    ASSUME BatchInv,
           \/ StartRun \/ RebuildWithFee \/ FilesRead \/ \E m \in BOOLEAN : SatsResolved(m)
           \/ RunFails \/ Confirm \/ RevealNotReplaced \/ ConfirmFails
    PROVE  BatchInv'
<1>1. MaxBatches \in Nat /\ BatchPagesTyped /\ NetworkTyped /\ ReviewedIsSent /\ JobFits(job)
  BY BatchAssumption DEF BatchInv
<1>2. /\ UNCHANGED <<built, committed, revealed, results, batchStep, pkg, uploads, extra, polling,
                      extras, prepared, commitHex, commitTxid>>
      /\ awaiting' \in {awaiting, FALSE} /\ issues' \in BOOLEAN
  BY <1>1 DEF StartRun, RebuildWithFee, FilesRead, SatsResolved, RunFails, RunEnds, Confirm,
         RevealNotReplaced, ConfirmFails, batchNetwork, batchSummary, runPage, BatchPagesTyped
<1>3. NetworkTyped'
  BY <1>1, <1>2 DEF NetworkTyped, Accepted
<1>4. BatchPagesTyped' /\ ReviewedIsSent'
  <2>1. BatchPagesTyped'
    BY <1>1, <1>2 DEF BatchPagesTyped
  <2>2. ReviewedIsSent'
    BY <1>1, <1>2 DEF ReviewedIsSent, BatchPagesTyped
  <2>3. QED BY <2>1, <2>2
<1>5. built' \in Nat
  BY <1>1, <1>2 DEF NetworkTyped
<1>6. JobFits(job)'
  <2>1. CASE RunFails \/ ConfirmFails
    BY <1>5, <2>1, JobEnds DEF RunFails, ConfirmFails, RunEnds
  <2>2. CASE StartRun \/ RebuildWithFee
    <3>1. JobAt("files") /\ RunIdle /\ ~awaiting'
      BY <2>2 DEF StartRun, RebuildWithFee, RunBegins, runPage
    <3>2. QED BY <1>2, <3>1, JobGoes DEF RunIdle, JobPhases
  <2>3. CASE FilesRead
    <3>1. JobAt("sats") /\ job.at = "files" /\ ~awaiting' /\ batchStep = 1
      BY <1>1, <2>3 DEF FilesRead, JobFits, runPage
    <3>2. QED BY <1>2, <3>1, JobGoes DEF JobPhases
  <2>4. CASE \E m \in BOOLEAN : SatsResolved(m)
    <3>1. JobAt("utxos") /\ job.at = "sats" /\ ~awaiting' /\ batchStep = 1
      BY <1>1, <2>4 DEF SatsResolved, JobFits
    <3>2. QED BY <1>2, <3>1, JobGoes DEF JobPhases
  <2>5. CASE Confirm
    <3>1. /\ JobAt(IF commitTxid = 0 THEN "send" ELSE "open") /\ commitHex # 0 /\ batchStep = 1
      BY <2>5 DEF Confirm, RunIdle
    <3>2. CASE commitTxid = 0
      BY <1>2, <3>1, <3>2, JobGoes DEF JobPhases
    <3>3. CASE commitTxid # 0
      BY <1>2, <3>1, <3>3, JobGoes DEF JobPhases
    <3>4. QED BY <3>2, <3>3
  <2>6. CASE RevealNotReplaced
    <3>1. JobAt("bump") /\ batchStep = 1
      BY <1>1, <2>6 DEF RevealNotReplaced, JobFits
    <3>2. QED BY <1>2, <3>1, JobGoes DEF JobPhases
  <2>7. QED BY <2>1, <2>2, <2>3, <2>4, <2>5, <2>6
<1>7. QED BY <1>3, <1>4, <1>6 DEF BatchInv

LEMMA Signing ==
    ASSUME NEW j \in Jobs, NEW b \in Nat
    PROVE  LET next == [j EXCEPT !.at = "sign", !.batch = b]
           IN  /\ next \in Jobs /\ next.at = "sign" /\ next.batch = b
               /\ next.chunk = j.chunk /\ next.chunks = j.chunks /\ next.done = j.done
BY DEF Jobs, JobPhases

\* A batch is prepared: a new one, of the job that is neither reviewed nor sent yet.
LEMMA BuildStep ==
    ASSUME BatchInv, (\E s \in BOOLEAN : SingleBuilt(s)) \/ (\E n \in 1..2 : SplitBuilt(n))
    PROVE  BatchInv'
<1>1. /\ MaxBatches \in Nat /\ built \in Nat /\ built' = built + 1 /\ built' \in 1..MaxBatches
      /\ BatchPagesTyped /\ NetworkTyped /\ ReviewedIsSent /\ JobFits(job)
  BY BatchAssumption DEF BatchInv, NetworkTyped, SingleBuilt, SplitBuilt
<1>2. /\ UNCHANGED <<committed, revealed, results, batchStep, pkg, uploads, extra, polling,
                      extras, awaiting, issues, commitHex, commitTxid>>
      /\ prepared' \in {prepared, built'}
  BY <1>1 DEF SingleBuilt, SplitBuilt, batchNetwork, batchSummary, runPage
<1>3. job.at = "utxos" /\ ~awaiting /\ batchStep = 1 /\ job.chunk = 0 /\ job.chunks = 0
      /\ job.done = {} /\ job \in Jobs
  BY <1>1 DEF SingleBuilt, SplitBuilt, JobFits
<1>4. NetworkTyped'
  BY <1>1, <1>2 DEF NetworkTyped, Accepted
<1>5. BatchPagesTyped'
  BY <1>1, <1>2 DEF BatchPagesTyped
<1>6. JobFits(job)'
  <2>1. CASE EndJob
    BY <1>1, <2>1, JobEnds
  <2>2. CASE prepared' = built' /\ job' = [job EXCEPT !.at = "sign", !.batch = built']
    <3>1. /\ job' \in Jobs /\ job'.at = "sign" /\ job'.batch = built' /\ job'.chunk = 0
          /\ job'.chunks = 0 /\ job'.done = {}
      <4>1. job \in Jobs /\ built' \in Nat
        BY <1>1, <1>3
      <4>2. QED BY <1>3, <2>2, <4>1, Signing
    <3>2. QED BY <1>1, <1>2, <1>3, <2>2, <3>1 DEF JobFits
  <2>3. ASSUME NEW n \in 1..2,
               job' = [job EXCEPT !.at = "sign", !.batch = built', !.chunk = 1, !.chunks = n]
        PROVE  JobFits(job)'
    <3>1. /\ job' \in Jobs /\ job'.at = "sign" /\ job'.batch = built' /\ job'.chunk = 1
          /\ job'.chunks = n /\ job'.done = {}
      <4> DEFINE j == [job EXCEPT !.at = "sign", !.batch = built']
                 next == [j EXCEPT !.chunk = 1, !.chunks = n]
      <4>1. j \in Jobs /\ j.at = "sign" /\ j.batch = built' /\ j.done = {}
        <5>1. job \in Jobs /\ built' \in Nat
          BY <1>1, <1>3
        <5>2. QED BY <1>3, <5>1, Signing
      <4>2. job' = next
        BY <2>3
      <4> HIDE DEF j
      <4>3. n \in Nat /\ 1 \in Nat
        BY <2>3
      <4>4. QED BY <4>1, <4>2, <4>3 DEF Jobs
    <3>2. QED BY <1>1, <1>2, <1>3, <3>1 DEF JobFits
  <2>4. QED BY <2>1, <2>2, <2>3 DEF SingleBuilt, SplitBuilt
<1>7. QED BY <1>2, <1>3, <1>4, <1>5, <1>6 DEF BatchInv, ReviewedIsSent

\* The commit is signed: what comes under review is the batch prepared last.
LEMMA SignStep == ASSUME BatchInv, CommitSigned PROVE BatchInv'
<1>1. BatchPagesTyped /\ NetworkTyped /\ JobFits(job) /\ built \in Nat
  BY DEF BatchInv, NetworkTyped
<1>2. UNCHANGED <<committed, revealed, results, batchStep, pkg, uploads, extra, polling,
                  extras, issues, prepared, commitTxid, built>>
  BY DEF CommitSigned, batchNetwork, batchSummary
<1>3. job.at = "sign" /\ ~awaiting /\ batchStep = 1 /\ job.batch \in 0..built /\ job \in Jobs
  BY <1>1 DEF CommitSigned, JobFits, Jobs
<1>4. NetworkTyped'
  BY <1>1, <1>2 DEF NetworkTyped, Accepted
<1>5. CASE job.chunks = 0
  <2>1. commitHex' = job.batch /\ awaiting' = TRUE /\ EndJob
    BY <1>5 DEF CommitSigned
  <2>2. job.batch = built /\ prepared = built
    BY <1>1, <1>3, <1>5 DEF JobFits
  <2>3. BatchPagesTyped' /\ ReviewedIsSent'
    BY <1>1, <1>2, <1>3, <2>1, <2>2 DEF BatchPagesTyped, ReviewedIsSent
  <2>4. QED BY <1>1, <1>2, <1>4, <2>1, <2>3, JobEnds DEF BatchInv
<1>6. CASE job.chunks # 0
  <2>1. JobAt("commit") /\ commitHex' = commitHex /\ awaiting' = awaiting
    BY <1>6 DEF CommitSigned
  <2>2. BatchPagesTyped' /\ ReviewedIsSent'
    BY <1>1, <1>2, <1>3, <2>1 DEF BatchPagesTyped, ReviewedIsSent
  <2>3. JobFits(job)'
    BY <1>2, <1>3, <1>6, <2>1, JobGoes DEF JobPhases
  <2>4. QED BY <1>4, <2>2, <2>3 DEF BatchInv
<1>7. QED BY <1>5, <1>6

\* A commit is taken by the network.
LEMMA CommitStep ==
    ASSUME BatchInv, NEW heard \in BOOLEAN, ChunkCommits(heard) \/ ConfirmCommits(heard)
    PROVE  BatchInv'
<1>1. BatchPagesTyped /\ NetworkTyped /\ ReviewedIsSent /\ JobFits(job) /\ built \in 0..MaxBatches
      /\ MaxBatches \in Nat
  BY BatchAssumption DEF BatchInv, NetworkTyped
<1>2. /\ UNCHANGED <<revealed, results, batchStep, pkg, uploads, extra, polling, extras, issues,
                      awaiting, prepared, commitHex, built>>
      /\ commitTxid' \in {commitTxid, commitHex}
  BY DEF ChunkCommits, ConfirmCommits, batchSummary, runPage
<1>3. PICK b \in Batches : committed' = committed \cup {b}
  <2>1. CASE ChunkCommits(heard)
    <3>1. job.batch \in Batches
      BY <1>1, <2>1 DEF ChunkCommits, JobFits, Jobs, Batches
    <3>2. QED BY <2>1, <3>1 DEF ChunkCommits
  <2>2. CASE ConfirmCommits(heard)
    <3>1. commitHex \in Batches
      BY <1>1, <2>2 DEF ConfirmCommits, JobFits, BatchPagesTyped, Batches
    <3>2. QED BY <2>2, <3>1 DEF ConfirmCommits
  <2>3. QED BY <2>1, <2>2
<1>4. NetworkTyped'
  <2>1. \A item \in results : Accepted(item)'
    BY <1>1, <1>2, <1>3, StaysAccepted DEF NetworkTyped
  <2>2. QED BY <1>1, <1>2, <1>3, <2>1 DEF NetworkTyped
<1>5. BatchPagesTyped' /\ ReviewedIsSent'
  BY <1>1, <1>2 DEF BatchPagesTyped, ReviewedIsSent
<1>6. JobFits(job)'
  <2>1. built' \in Nat
    BY <1>1, <1>2
  <2>2. CASE EndJob
    BY <2>1, <2>2, JobEnds
  <2>3. CASE ChunkCommits(heard) /\ JobAt("reveal")
    <3>1. job.at = "commit" /\ batchStep = 1 /\ ~awaiting /\ job.chunks # 0
      BY <1>1, <2>3 DEF ChunkCommits, JobFits
    <3>2. QED BY <1>2, <1>3, <2>3, <3>1, JobGoes DEF JobPhases
  <2>4. CASE ConfirmCommits(heard) /\ JobAt("open")
    <3>1. batchStep = 1
      BY <1>1, <2>4 DEF ConfirmCommits, JobFits
    <3>2. QED BY <1>2, <1>3, <2>4, <3>1, JobGoes DEF JobPhases
  <2>5. QED BY <2>2, <2>3, <2>4 DEF ChunkCommits, ConfirmCommits
<1>7. QED BY <1>4, <1>5, <1>6 DEF BatchInv

\* The summary of items that were accepted.
LEMMA FinishKeeps ==
    ASSUME BatchInv, NEW items \in SUBSET Sends, Finish(items),
           \A item \in items : Accepted(item)',
           revealed' \subseteq Reveals,
           UNCHANGED <<pkg, uploads, built, extra, extras, committed>>
    PROVE  BatchInv'
<1>1. BatchPagesTyped /\ NetworkTyped /\ built \in Nat /\ MaxBatches \in Nat
  BY BatchAssumption DEF BatchInv, NetworkTyped
<1>2. JobFits(job)'
  BY <1>1, JobEnds DEF Finish
<1>3. NetworkTyped'
  BY <1>1 DEF NetworkTyped, Finish
<1>4. BatchPagesTyped'
  <2>1. 0 \in 0..built /\ 2 \in 0..2
    BY <1>1
  <2>2. QED BY <1>1, <2>1 DEF BatchPagesTyped, Finish, Remounted
<1>5. ReviewedIsSent'
  BY DEF ReviewedIsSent, Finish, Remounted
<1>6. QED BY <1>2, <1>3, <1>4, <1>5 DEF BatchInv

LEMMA ItemAccepted ==
    ASSUME NEW b \in Batches, NEW r \in Reveals, r.batch = b, b \in committed', r \in revealed'
    PROVE  LET both == [commit |-> b, reveal |-> r] IN both \in Sends /\ Accepted(both)'
BY DEF Accepted, Sends

\* A reveal is taken by the network, which checks that it spends its own commit.
LEMMA RevealStep ==
    ASSUME BatchInv, NEW heard \in BOOLEAN, ChunkReveals(heard) \/ ConfirmReveals(heard)
    PROVE  BatchInv'
<1>1. BatchPagesTyped /\ NetworkTyped /\ ReviewedIsSent /\ JobFits(job) /\ built \in 0..MaxBatches
      /\ MaxBatches \in Nat
  BY BatchAssumption DEF BatchInv, NetworkTyped
<1>2. PICK b \in committed, bumped \in BOOLEAN :
        /\ revealed' = revealed \cup {Reveal(b, bumped)}
        /\ ChunkReveals(heard) => b = job.batch /\ ~bumped
        /\ ConfirmReveals(heard) => b = prepared /\ b = commitTxid /\ bumped = (job.at = "bump")
  <2>1. CASE ChunkReveals(heard)
    <3>1. job.batch \in committed /\ job.at = "reveal"
      BY <2>1 DEF ChunkReveals, Spends
    <3>2. ~ConfirmReveals(heard)
      BY <3>1 DEF ConfirmReveals
    <3>3. QED BY <2>1, <3>1, <3>2 DEF ChunkReveals
  <2>2. CASE ConfirmReveals(heard)
    <3>1. prepared \in committed /\ (job.at = "bump") \in BOOLEAN /\ prepared = commitTxid
          /\ job.at # "reveal"
      BY <2>2 DEF ConfirmReveals, Spends
    <3>2. QED BY <2>2, <3>1 DEF ConfirmReveals, ChunkReveals
  <2>3. QED BY <2>1, <2>2
<1>3. committed' = committed /\ revealed' \subseteq Reveals /\ revealed \subseteq revealed'
  BY <1>1, <1>2 DEF NetworkTyped, Reveal, Reveals, ChunkReveals, ConfirmReveals
<1>4. \A item : Accepted(item) => Accepted(item)'
  BY <1>3, StaysAccepted
<1>5. CASE EndJob /\ UNCHANGED <<batchStep, results, polling, runPage, built, pkg, uploads, extra, extras>>
  <2>1. NetworkTyped'
    BY <1>1, <1>3, <1>4, <1>5 DEF NetworkTyped
  <2>2. BatchPagesTyped'
    BY <1>1, <1>5 DEF BatchPagesTyped, runPage
  <2>3. ReviewedIsSent'
    BY <1>1, <1>5 DEF ReviewedIsSent, runPage
  <2>4. JobFits(job)'
    BY <1>1, <1>5, JobEnds
  <2>5. QED BY <2>1, <2>2, <2>3, <2>4 DEF BatchInv
<1>both. PICK both \in Sends : both = [commit |-> b, reveal |-> Reveal(b, bumped)] /\ Accepted(both)'
  <2>1. b \in Batches /\ b \in committed' /\ Reveal(b, bumped) \in revealed'
    BY <1>1, <1>2, <1>3 DEF NetworkTyped
  <2>2. Reveal(b, bumped) \in Reveals /\ Reveal(b, bumped).batch = b
    BY <2>1 DEF Reveal, Reveals
  <2>3. QED BY <2>1, <2>2, ItemAccepted
<1>6. CASE ChunkReveals(heard)
  <2> DEFINE done == job.done \cup {both}
  <2>3. done \in SUBSET Sends /\ \A item \in done : Accepted(item)'
    <3>1. job.done \in SUBSET Sends /\ \A item \in job.done : Accepted(item)'
      BY <1>1, <1>4 DEF JobFits, Jobs
    <3>2. QED BY <1>both, <3>1
  <2>item. both = [commit |-> job.batch, reveal |-> Reveal(job.batch, FALSE)]
    BY <1>2, <1>6, <1>both
  <2>4. UNCHANGED <<pkg, uploads, extra, extras, committed>>
    BY <1>6 DEF ChunkReveals
  <2>5. CASE ~heard
    BY <1>5, <1>6, <2>4, <2>5 DEF ChunkReveals
  <2>6. CASE Finish(done) /\ UNCHANGED built
    <3> HIDE DEF done
    <3>1. QED BY <1>3, <2>3, <2>4, <2>6, FinishKeeps
  <2>7. CASE /\ job.chunk < job.chunks /\ ChunkPrepared(done)
             /\ UNCHANGED <<batchStep, results, polling, runPage>>
    <3>1. built < MaxBatches /\ built' = built + 1 /\ built' \in 0..MaxBatches /\ built' \in Nat
      BY <1>1, <2>7 DEF ChunkPrepared
    <3>2. NetworkTyped'
      BY <1>1, <1>3, <1>4, <2>7, <3>1 DEF NetworkTyped
    <3>3. BatchPagesTyped'
      BY <1>1, <2>4, <2>7, <3>1 DEF BatchPagesTyped, runPage
    <3>4. ~awaiting /\ batchStep = 1 /\ job \in Jobs /\ job.chunk \in Nat /\ job.chunks \in Nat
      BY <1>1, <1>6 DEF JobFits, Jobs, ChunkReveals
    <3>5. /\ job' \in Jobs /\ job'.at = "sign" /\ job'.batch = built'
          /\ job'.chunk = job.chunk + 1 /\ job'.chunks = job.chunks /\ job'.done = done
      <4> DEFINE n == job.chunk + 1
                 j == [job EXCEPT !.at = "sign", !.batch = built']
                 next == [j EXCEPT !.chunk = n, !.done = done]
      <4>1. j \in Jobs /\ j.at = "sign" /\ j.batch = built' /\ j.chunks = job.chunks
        BY <3>1, <3>4, Signing
      <4>2. job' = next
        BY <2>7 DEF ChunkPrepared
      <4>3. n \in Nat
        BY <3>4
      <4> HIDE DEF j, n, done
      <4>4. next \in Jobs /\ next.at = j.at /\ next.batch = j.batch /\ next.chunk = n
            /\ next.chunks = j.chunks /\ next.done = done
        BY <2>3, <4>1, <4>3 DEF Jobs
      <4>5. QED BY <4>1, <4>2, <4>4 DEF n
    <3> HIDE DEF done
    <3>6. JobFits(job)'
      <4>1. job.chunk < job.chunks /\ job.chunks <= 2 /\ built' # 0 /\ built' <= built'
        BY <1>1, <2>7, <3>1 DEF JobFits
      <4>2. job'.chunk <= job'.chunks /\ job'.chunks <= 2 /\ job'.chunks # 0
        BY <3>4, <3>5, <4>1
      <4>3. batchStep' = 1 /\ ~awaiting'
        BY <2>7, <3>4 DEF runPage
      <4>4. QED BY <2>3, <3>5, <4>1, <4>2, <4>3 DEF JobFits
    <3>7. ReviewedIsSent'
      BY <2>7, <3>4 DEF ReviewedIsSent, runPage
    <3>8. QED BY <3>2, <3>3, <3>6, <3>7 DEF BatchInv
  <2>8. QED BY <1>6, <2>4, <2>5, <2>6, <2>7, <2>item DEF ChunkReveals
<1>7. CASE ConfirmReveals(heard)
  <2>1. UNCHANGED <<pkg, uploads, built, extra, extras, committed>>
    BY <1>7 DEF ConfirmReveals
  <2>2. CASE heard
    <3>1. Finish({both})
      BY <1>2, <1>7, <1>both, <2>2 DEF ConfirmReveals
    <3>2. {both} \in SUBSET Sends /\ \A item \in {both} : Accepted(item)'
      BY <1>both
    <3>3. QED BY <1>3, <2>1, <3>1, <3>2, FinishKeeps
  <2>3. CASE ~heard
    BY <1>5, <1>7, <2>1, <2>3 DEF ConfirmReveals
  <2>4. QED BY <2>2, <2>3
<1>8. QED BY <1>6, <1>7

LEMMA BatchInvariant == BatchSpec => []BatchInv
<1>1. BatchInv /\ [BatchNext]_batchVars => BatchInv'
  <2> SUFFICES ASSUME BatchInv, [BatchNext]_batchVars PROVE BatchInv'
    OBVIOUS
  <2>1. CASE UNCHANGED batchVars
    BY <2>1 DEF batchVars, runPage, batchSummary, batchNetwork, BatchInv, BatchPagesTyped, NetworkTyped,
           JobFits, ReviewedIsSent, Accepted
  <2>2. CASE BatchNext
    BY <2>2, BatchPagesStep, JobStep, BuildStep, SignStep, CommitStep, RevealStep DEF BatchNext
  <2>3. QED BY <2>1, <2>2
<1>2. QED BY <1>1, BatchStart, PTL DEF BatchSpec

\* The state of the pages, of the job and of the network keeps its type, whatever runs
\* fail, are cancelled, rebuilt or overtaken by a package that is read late.
THEOREM BatchTypeCorrect == BatchSpec => []BatchTypeOK
<1>1. BatchInv => BatchTypeOK
  BY DEF BatchInv, BatchPagesTyped, NetworkTyped, JobFits, Jobs, JobPhases, Sends, BatchTypeOK
<1>2. QED BY <1>1, BatchInvariant, PTL

\* What the summary shows was accepted, commit and reveal of one batch, after any
\* refusals and lost answers; and what is under review is what confirming sends
\* (BatchRunStep.tsx:494-575).
THEOREM CompletedAccepted == BatchSpec => []CompletedWasAccepted
<1>1. BatchInv => CompletedWasAccepted
  BY DEF BatchInv, NetworkTyped, Accepted, CompletedWasAccepted
<1>2. QED BY <1>1, BatchInvariant, PTL

-----------------------------------------------------------------------------
(***************************************************************************)
(* What an inscription holds.                                              *)
(***************************************************************************)
FileKinds == {FileType[f] : f \in Files}
Givens == [as : {"text", "bytes", "data URL"}, of : Items]
OfItem(c) == c = NoContent \/ c \in Givens

FormTyped ==
    /\ contentPage \in BOOLEAN
    /\ chosen \in Offerable \cup FileKinds
    /\ OfItem(draft) /\ OfItem(contentData.content)
    /\ contentData = [type |-> contentData.type, content |-> contentData.content]
    /\ contentData.type \in Offerable \cup FileKinds \cup {""}
    /\ fileReads \subseteq [n : 1..MaxReads, file : Files, here : BOOLEAN]

Placed == {"commit", "reveal", "done"}

\* What an accepted inscription i may be.
Sound(i) ==
    /\ i.body.as # "compact" => Fits(i.body)
    /\ i.body.as = "compact" => Fits(AsText(i.body.of)) /\ i.body.of \in JsonItems
    /\ i.type = Json => i.body.as \in {"compact", "bytes"}

\* An image is not inscribed as the text of a data URL unless its file is empty.
Decoded(i) == i.body.as = "data URL" => i.type \notin ImageTypes \/ i.body.of \in Blank

\* From the click on, an order has an inscription that is right for its form.
OrderFits(o) ==
    /\ o.at \in Placed \cup {"not made", "failed"}
    /\ o.at \in Placed =>
         /\ o = [at |-> o.at, form |-> o.form, meta |-> o.meta, made |-> o.made]
         /\ o.form.type \in {o.made.type, ""}
         /\ o.made.body.of = o.form.content.of
         /\ Decoded(o.made)
         /\ Sound(o.made)

OrdersFit == DOMAIN orders = Orders /\ \A k \in Orders : OrderFits(orders[k])

\* A published inscription is its order's, which is done and stays so.
PublishedFits ==
    \A p \in published :
        p.order \in Orders /\ orders[p.order].at = "done" /\ p.shows = orders[p.order].made

AppliedFits == applied # NotApplied => \A i \in applied.shows : Sound(i)

ContentsInv == FormTyped /\ OrdersFit /\ PublishedFits /\ AppliedFits

\* A content that is accepted makes a sound inscription.
LEMMA AcceptedIsSound ==
    ASSUME NEW c \in Givens, NEW type, NEW meta, Accepts(c, type)
    PROVE  Sound(Inscription(c, type, meta))
<1>1. c.as \in {"text", "bytes", "data URL"} /\ c = [as |-> c.as, of |-> c.of] /\ Fits(c)
  BY DEF Givens, Accepts
<1>2. CASE type = Json /\ c.as # "bytes"
  <2>1. c.as = "text" /\ c.of \in JsonItems
    BY <1>2 DEF Accepts, IsJsonText
  <2>2. c = AsText(c.of)
    BY <1>1, <2>1 DEF AsText
  <2>3. Fits(AsText(c.of))
    BY <1>1, <2>2
  <2>4. Inscription(c, type, meta) = [type |-> type, body |-> [as |-> "compact", of |-> c.of], meta |-> meta]
    BY <1>2 DEF Inscription, PreparedBody, AsCompact
  <2>5. QED BY <2>1, <2>3, <2>4 DEF Sound
<1>3. CASE ~(type = Json /\ c.as # "bytes")
  <2>1. Inscription(c, type, meta) = [type |-> type, body |-> c, meta |-> meta]
    BY <1>3 DEF Inscription, PreparedBody
  <2> DEFINE i == Inscription(c, type, meta)
  <2>2. i.type = type /\ i.body = c
    BY <2>1
  <2> HIDE DEF i
  <2>3. c.as # "compact" /\ (type = Json => c.as = "bytes")
    BY <1>1, <1>3
  <2>4. Sound(i)
    BY <1>1, <2>2, <2>3 DEF Sound
  <2>5. QED BY <2>4 DEF i
<1>4. QED BY <1>2, <1>3

\* The steps on the page.
LEMMA FormStep ==
    ASSUME ContentsInv,
           \/ \E t \in Offerable : ChooseType(t)
           \/ \E i \in Typable : TypeText(i)
           \/ \E f \in Files : DropFile(f)
           \/ \E r \in fileReads : FileIsRead(r) \/ FileIsNotRead(r)
           \/ ContinueContent \/ ReturnToContent
    PROVE  FormTyped' /\ UNCHANGED <<orders, published, applied>>
<1>1. FormTyped /\ "text/plain" \in Offerable
  BY ContentsAssumption DEF ContentsInv
<1>2. ASSUME NEW t \in Offerable, ChooseType(t) PROVE FormTyped' /\ UNCHANGED <<orders, published, applied>>
  BY <1>1, <1>2 DEF ChooseType, FormTyped, OfItem
<1>3. ASSUME NEW i \in Typable, TypeText(i) PROVE FormTyped' /\ UNCHANGED <<orders, published, applied>>
  <2>1. OfItem(AsText(i))
    BY DEF OfItem, AsText, Items, Givens
  <2>2. QED BY <1>1, <1>3, <2>1 DEF TypeText, FormTyped
<1>4. ASSUME NEW f \in Files, DropFile(f) PROVE FormTyped' /\ UNCHANGED <<orders, published, applied>>
  <2>1. PICK n \in 1..MaxReads : fileReads' = fileReads \cup {[n |-> n, file |-> f, here |-> TRUE]}
    BY <1>4 DEF DropFile
  <2>2. [n |-> n, file |-> f, here |-> TRUE] \in [n : 1..MaxReads, file : Files, here : BOOLEAN]
    OBVIOUS
  <2>3. fileReads' \subseteq [n : 1..MaxReads, file : Files, here : BOOLEAN]
    BY <1>1, <2>1, <2>2 DEF FormTyped
  <2>4. QED BY <1>1, <1>4, <2>3 DEF DropFile, FormTyped
<1>5. ASSUME NEW r \in fileReads, FileIsRead(r) PROVE FormTyped' /\ UNCHANGED <<orders, published, applied>>
  <2>1. r.file \in Files /\ FileType[r.file] \in FileKinds
    BY <1>1 DEF FormTyped, FileKinds
  <2>2. OfItem(Loaded(r.file))
    BY <2>1 DEF OfItem, Loaded, AsText, AsDataUrl, Items, Givens
  <2>3. QED BY <1>1, <1>5, <2>1, <2>2 DEF FileIsRead, FormTyped
<1>6. ASSUME NEW r \in fileReads, FileIsNotRead(r) PROVE FormTyped' /\ UNCHANGED <<orders, published, applied>>
  BY <1>1, <1>6 DEF FileIsNotRead, FormTyped
<1>7. CASE ContinueContent
  <2>1. fileReads' \subseteq [n : 1..MaxReads, file : Files, here : BOOLEAN]
    BY <1>1, <1>7 DEF ContinueContent, FormTyped
  <2>2. QED BY <1>1, <1>7, <2>1 DEF ContinueContent, FormTyped
<1>8. CASE ReturnToContent
  <2>1. chosen' \in Offerable \cup FileKinds
    BY <1>1, <1>8 DEF ReturnToContent, FormTyped
  <2>2. contentData'.type = chosen' /\ contentData'.content = contentData.content
    BY <1>1, <1>8 DEF ReturnToContent, FormTyped
  <2>3. QED BY <1>1, <1>8, <2>1, <2>2 DEF ReturnToContent, FormTyped
<1>9. QED BY <1>2, <1>3, <1>4, <1>5, <1>6, <1>7, <1>8

\* The order of a click is for the form that was read.
LEMMA OrderMade ==
    ASSUME ContentsInv, NEW k \in Orders, NEW meta \in Metas, MakeOrder(k, meta)
    PROVE  OrderFits(orders'[k]) /\ orders[k].at # "done"
<1> DEFINE type == IF contentData.type = "" THEN "text/plain" ELSE contentData.type
           c == Processed(contentData.content, type)
           made == Inscription(c, type, Typed(meta))
           placed == [at |-> "commit", form |-> contentData, meta |-> meta, made |-> made]
<1>1. c.of = contentData.content.of /\ (c.as = "data URL" => type \notin ImageTypes \/ c.of \in Blank)
  BY DEF Processed, AsBytes
<1>2. Accepts(c, type) => Sound(made)
  <2>1. contentData.content \in Givens => c \in Givens
    BY DEF Processed, AsBytes, Givens
  <2>2. contentData.content \in Givens \/ c = NoContent
    <3>1. contentData.content = NoContent => c = NoContent
      BY DEF Processed, NoContent
    <3>2. QED BY <3>1 DEF ContentsInv, FormTyped, OfItem
  <2>3. Accepts(c, type) => c \in Givens
    BY <2>1, <2>2 DEF Accepts
  <2>4. QED BY <2>3, AcceptedIsSound
<1>3. made.type = type /\ made.body.of = c.of /\ made.body.as \in {c.as, "compact"}
  BY DEF Inscription, PreparedBody, AsCompact
<1>4. contentData.type \in {type, ""}
  OBVIOUS
<1>5. orders[k] = NoOrder /\ k \in DOMAIN orders
      /\ orders' = [orders EXCEPT ![k] = IF Accepts(c, type) THEN placed ELSE [at |-> "failed"]]
  BY DEF MakeOrder, ContentsInv, OrdersFit
<1> HIDE DEF type, c, made
<1>6. Accepts(c, type) => OrderFits(placed)
  BY <1>1, <1>2, <1>3, <1>4 DEF OrderFits, Placed, Decoded
<1>7. OrderFits([at |-> "failed"])
  BY DEF OrderFits, Placed
<1>8. orders'[k] \in {placed, [at |-> "failed"]} /\ (~Accepts(c, type) => orders'[k] = [at |-> "failed"])
  BY <1>5
<1>9. OrderFits(orders'[k])
  BY <1>6, <1>7, <1>8
<1>10. NoOrder.at # "done"
  BY DEF NoOrder
<1>11. QED BY <1>5, <1>9, <1>10

\* An order under way moves on with what it has.
LEMMA OrderMoves ==
    ASSUME NEW o, OrderFits(o), o.at \in Placed, NEW at \in Placed
    PROVE  /\ OrderFits([o EXCEPT !.at = at]) /\ [o EXCEPT !.at = at].at = at
           /\ [o EXCEPT !.at = at].made = o.made
<1> DEFINE was == o.at
           shape == o.form
           meta == o.meta
           made == o.made
           moved == [at |-> at, form |-> shape, meta |-> meta, made |-> made]
<1>1. /\ o = [at |-> was, form |-> shape, meta |-> meta, made |-> made]
      /\ shape.type \in {made.type, ""} /\ made.body.of = shape.content.of
      /\ Decoded(made) /\ Sound(made)
  BY DEF OrderFits
<1> HIDE DEF was, shape, meta, made
<1>2. [o EXCEPT !.at = at] = moved
  <2>1. o = [at |-> was, form |-> shape, meta |-> meta, made |-> made]
    BY <1>1
  <2>2. QED BY <2>1
<1>3. moved.at = at /\ moved.form = shape /\ moved.meta = meta /\ moved.made = made
  OBVIOUS
<1> HIDE DEF moved
<1>4. OrderFits(moved)
  BY <1>1, <1>3 DEF OrderFits, moved
<1>5. QED BY <1>2, <1>3, <1>4 DEF made

\* Only one order changes, if it is not done, and keeps its inscription.
LEMMA OrderChanges ==
    ASSUME ContentsInv, NEW k \in Orders, NEW o, orders' = [orders EXCEPT ![k] = o],
           OrderFits(o), orders[k].at # "done", published' = published
    PROVE  OrdersFit' /\ PublishedFits'
<1>1. DOMAIN orders' = Orders /\ orders'[k] = o /\ \A j \in Orders \ {k} : orders'[j] = orders[j]
  BY DEF ContentsInv, OrdersFit
<1>2. OrdersFit'
  BY <1>1 DEF ContentsInv, OrdersFit
<1>3. PublishedFits'
  BY <1>1 DEF ContentsInv, PublishedFits
<1>4. QED BY <1>2, <1>3

LEMMA OrderStep ==
    ASSUME ContentsInv, NEW k \in Orders,
           \/ \E meta \in Metas : MakeOrder(k, meta)
           \/ OrderFails(k) \/ OrderCommits(k) \/ OrderReveals(k)
    PROVE  ContentsInv'
<1>1. OrderFits(orders[k]) /\ DOMAIN orders = Orders
  BY DEF ContentsInv, OrdersFit
<1>2. UNCHANGED <<contentPage, chosen, draft, contentData, fileReads, applied>>
  BY DEF MakeOrder, OrderFails, OrderCommits, OrderReveals
<1>3. FormTyped' /\ AppliedFits'
  BY <1>2 DEF ContentsInv, FormTyped, AppliedFits
<1>4. ASSUME NEW meta \in Metas, MakeOrder(k, meta) PROVE ContentsInv'
  <2> DEFINE o == orders'[k]
  <2>1. orders' = [orders EXCEPT ![k] = o] /\ published' = published
    BY <1>1, <1>4 DEF MakeOrder
  <2>2. OrderFits(o) /\ orders[k].at # "done"
    BY <1>4, OrderMade
  <2> HIDE DEF o
  <2>3. QED BY <1>3, <2>1, <2>2, OrderChanges DEF ContentsInv
<1>5. CASE OrderFails(k)
  <2>1. OrderFits([at |-> "failed"])
    BY DEF OrderFits, Placed
  <2>2. orders[k].at # "done" /\ orders' = [orders EXCEPT ![k] = [at |-> "failed"]] /\ published' = published
    BY <1>5 DEF OrderFails
  <2>3. QED BY <1>3, <2>1, <2>2, OrderChanges DEF ContentsInv
<1>6. CASE OrderCommits(k)
  <2> DEFINE o == [orders[k] EXCEPT !.at = "reveal"]
  <2>1. OrderFits(o)
    BY <1>1, <1>6, OrderMoves DEF OrderCommits, Placed
  <2>2. orders[k].at # "done" /\ orders' = [orders EXCEPT ![k] = o] /\ published' = published
    BY <1>6 DEF OrderCommits
  <2> HIDE DEF o
  <2>3. QED BY <1>3, <2>1, <2>2, OrderChanges DEF ContentsInv
<1>7. CASE OrderReveals(k)
  <2> DEFINE o == [orders[k] EXCEPT !.at = "done"]
  <2>1. OrderFits(o) /\ o.at = "done" /\ o.made = orders[k].made
    BY <1>1, <1>7, OrderMoves DEF OrderReveals, Placed
  <2>2. orders[k].at = "reveal" /\ orders' = [orders EXCEPT ![k] = o]
        /\ published' = published \cup {[order |-> k, shows |-> orders[k].made]}
    BY <1>7 DEF OrderReveals
  <2> HIDE DEF o
  <2>3. DOMAIN orders' = Orders /\ orders'[k] = o /\ \A j \in Orders \ {k} : orders'[j] = orders[j]
    BY <1>1, <2>2
  <2>4. OrdersFit'
    BY <2>1, <2>3 DEF ContentsInv, OrdersFit
  <2>5. PublishedFits'
    <3> SUFFICES ASSUME NEW p \in published'
                 PROVE  p.order \in Orders /\ orders'[p.order].at = "done"
                        /\ p.shows = orders'[p.order].made
      BY DEF PublishedFits
    <3>1. CASE p \in published
      BY <2>2, <2>3, <3>1 DEF ContentsInv, PublishedFits
    <3>2. CASE p = [order |-> k, shows |-> orders[k].made]
      BY <2>1, <2>3, <3>2
    <3>3. QED BY <2>2, <3>1, <3>2
  <2>6. QED BY <1>3, <2>4, <2>5 DEF ContentsInv
<1>8. QED BY <1>4, <1>5, <1>6, <1>7

LEMMA ContentsInvariant == ContentsSpec => []ContentsInv
<1>1. ContentsInit => ContentsInv
  <2> SUFFICES ASSUME ContentsInit PROVE ContentsInv
    OBVIOUS
  <2>1. "text/plain" \in Offerable
    BY ContentsAssumption
  <2>2. FormTyped
    BY <2>1 DEF ContentsInit, FormTyped, OfItem
  <2>3. OrdersFit
    BY DEF ContentsInit, OrdersFit, OrderFits, NoOrder, Placed
  <2>4. PublishedFits /\ AppliedFits
    BY DEF ContentsInit, PublishedFits, AppliedFits
  <2>5. QED BY <2>2, <2>3, <2>4 DEF ContentsInv
<1>2. ContentsInv /\ [ContentsNext]_contentVars => ContentsInv'
  <2> SUFFICES ASSUME ContentsInv, [ContentsNext]_contentVars PROVE ContentsInv'
    OBVIOUS
  <2>1. CASE UNCHANGED contentVars
    BY <2>1 DEF ContentsInv, FormTyped, OrdersFit, PublishedFits, AppliedFits, contentVars
  <2>2. CASE FormTyped' /\ UNCHANGED <<orders, published, applied>>
    BY <2>2 DEF ContentsInv, OrdersFit, PublishedFits, AppliedFits
  <2>3. ASSUME NEW k \in Orders,
               \/ \E meta \in Metas : MakeOrder(k, meta)
               \/ OrderFails(k) \/ OrderCommits(k) \/ OrderReveals(k)
        PROVE  ContentsInv'
    BY <2>3, OrderStep
  <2>0. Givable \subseteq Givens
    <3>1. \A i \in Items : AsText(i) \in Givens /\ AsBytes(i) \in Givens
      BY DEF Givens, AsText, AsBytes
    <3>2. Files \subseteq Items
      BY DEF Items
    <3>3. QED BY <3>1, <3>2 DEF Givable
  <2>4. ASSUME NEW c \in Givable, NEW type, NEW revealKey, NEW recovery,
               CreateInscription(c, type, revealKey, recovery)
        PROVE  ContentsInv'
    <3>1. Sound(Inscription(c, type, "other"))
      BY <2>0, <2>4, AcceptedIsSound DEF CreateInscription
    <3>2. applied'.shows = {Inscription(c, type, "other")}
          /\ UNCHANGED <<contentPage, chosen, draft, contentData, fileReads, orders, published>>
      BY <2>4 DEF CreateInscription
    <3>3. AppliedFits'
      BY <3>1, <3>2 DEF AppliedFits
    <3>4. QED BY <3>2, <3>3 DEF ContentsInv, FormTyped, OrdersFit, PublishedFits
  <2>5. ASSUME NEW cs \in SUBSET Givable, NEW type, NEW revealKey, NEW recovery,
               PrepareBatchInscription(cs, type, revealKey, recovery)
        PROVE  ContentsInv'
    <3>1. \A c \in cs : Sound(Inscription(c, type, "other"))
      BY <2>0, <2>5, AcceptedIsSound DEF PrepareBatchInscription
    <3>2. applied'.shows = {Inscription(c, type, "other") : c \in cs}
          /\ UNCHANGED <<contentPage, chosen, draft, contentData, fileReads, orders, published>>
      BY <2>5 DEF PrepareBatchInscription
    <3>3. AppliedFits'
      BY <3>1, <3>2 DEF AppliedFits
    <3>4. QED BY <3>2, <3>3 DEF ContentsInv, FormTyped, OrdersFit, PublishedFits
  <2>6. QED BY <2>1, <2>2, <2>3, <2>4, <2>5, FormStep DEF ContentsNext
<1>3. QED BY <1>1, <1>2, PTL DEF ContentsSpec

\* What is typed, dropped, read and ordered has its type.
THEOREM ContentsTypeCorrect == ContentsSpec => []ContentsTypeOK
<1>1. ContentsInv => ContentsTypeOK
  BY DEF ContentsInv, FormTyped, OfItem, Givens, FileKinds, OrdersFit, OrderFits, PublishedFits, Placed,
         ContentsTypeOK
<1>2. QED BY <1>1, ContentsInvariant, PTL

\* Whatever happens on the page after the click, what is published is what the
\* order was placed for, and nothing is made that the library should refuse.
THEOREM InscribedIsPrepared == ContentsSpec => []InscribedAsPrepared
<1>1. ContentsInv => InscribedAsPrepared
  <2> SUFFICES ASSUME ContentsInv PROVE InscribedAsPrepared
    OBVIOUS
  <2>1. ASSUME NEW p \in published
        PROVE  /\ orders[p.order].form.type \in {p.shows.type, ""}
               /\ p.shows.body.of = orders[p.order].form.content.of
               /\ Decoded(p.shows)
               /\ Sound(p.shows)
    BY DEF ContentsInv, PublishedFits, OrdersFit, OrderFits, Placed
  <2>2. \A i \in Made : Sound(i)
    BY <2>1 DEF ContentsInv, AppliedFits, Made
  <2>3. QED BY <2>1, <2>2 DEF InscribedAsPrepared, Sound, Decoded
<1>2. QED BY <1>1, ContentsInvariant, PTL

-----------------------------------------------------------------------------
(***************************************************************************)
(* The inscription wizard.                                                 *)
(***************************************************************************)
WizardPagesTyped ==
    /\ step \in Pages /\ utxo \in Utxos \cup {None} /\ content \in Contents \cup {None}
    /\ funding \subseteq Utxos /\ status \in Statuses /\ shown \in Attempts \cup {None}
    /\ polled \in Attempts \cup {None} /\ timer \in Attempts \cup {None}
    /\ rate \in Rates /\ loading \in BOOLEAN /\ own \subseteq Attempts

AwaitsTyped ==
    /\ looking \subseteq Utxos /\ reading \subseteq Contents /\ exchanging \in {"none", "here", "left"}
    /\ checks \subseteq (1..MaxAwaits) \X Attempts
    /\ IsFiniteSet(looking) /\ IsFiniteSet(reading) /\ IsFiniteSet(checks)

Phases == {"unused", "list", "sign", "commit", "reveal", "ended"}

AttemptsTyped ==
    /\ phase \in [Attempts -> Phases] /\ sat \in [Attempts -> Utxos \cup {None}]
    /\ \A a \in Attempts : phase[a] = "unused" <=> sat[a] = None
    /\ tries \in [Attempts -> 0..(RevealTries - 1)]
    /\ mined \subseteq chain /\ chain \subseteq Transactions

\* An attempt sends its reveal after the node accepted its commit.
RevealsFollow == \A a \in Attempts : phase[a] = "reveal" => <<"commit", a>> \in chain

WizardInv ==
    /\ WizardPagesTyped /\ AwaitsTyped /\ AttemptsTyped
    /\ exchanging = "here" => step = 2
    /\ RevealsFollow /\ ConfirmingIsOnChain

LEMMA WizardFacts ==
    /\ None \notin Attempts /\ None \notin Utxos /\ None \notin Contents /\ DefaultRate \in Rates
    /\ MaxAwaits \in Nat /\ Pages = {0, 1, 2, 3, 4}
BY WizardAssumption DEF Attempts, Pages

\* A page that is shown starts from what the reducer has.
LEMMA ShowTyped ==
    ASSUME WizardPagesTyped, NEW k \in Pages, NEW s \in Statuses, Show(k, s),
           UNCHANGED <<utxo, content, shown>>
    PROVE  WizardPagesTyped' /\ step' = k /\ (status' = "confirming" => s = "confirming")
<1>1. Refunded(content, DefaultRate) \subseteq Utxos
  BY DEF Refunded, WizardPagesTyped
<1>2. status' \in {s, Prepared(s)} /\ Prepared(s) \in {s, "failed"}
  BY DEF Show, Mounted, Prepared
<1>3. status' \in Statuses /\ (status' = "confirming" => s = "confirming")
  BY <1>2 DEF Statuses
<1>4. CASE UNCHANGED <<page, funding>>
  BY <1>3, <1>4 DEF Show, WizardPagesTyped, page
<1>5. CASE Mounted(k, s)
  BY <1>1, <1>3, <1>5, WizardFacts DEF Show, Mounted, WizardPagesTyped
<1>6. QED BY <1>3, <1>4, <1>5 DEF Show

LEMMA StatusTyped ==
    ASSUME WizardPagesTyped, NEW s \in Statuses, SetStatus(s), polled' \in Attempts \cup {None},
           loading' \in BOOLEAN, shown' \in Attempts \cup {None},
           UNCHANGED <<step, utxo, content, rate>>, own' \subseteq Attempts
    PROVE  WizardPagesTyped' /\ status' = s
<1>1. Refunded(content, rate) \subseteq Utxos
  BY DEF Refunded, WizardPagesTyped
<1>2. QED BY <1>1 DEF SetStatus, WizardPagesTyped

\* A number for a check is left while there may be one more await.
LEMMA CheckNumbered ==
    ASSUME AwaitsTyped, MayAwait
    PROVE  (CHOOSE n \in 1..MaxAwaits : \A c \in checks : c[1] # n) \in 1..MaxAwaits
<1> DEFINE f == [c \in checks |-> c[1]]
<1>1. Cardinality(looking) \in Nat /\ Cardinality(reading) \in Nat /\ Cardinality(checks) \in Nat
  BY FS_CardinalityType DEF AwaitsTyped
<1>2. Cardinality(checks) < MaxAwaits
  BY <1>1, WizardFacts DEF MayAwait, Awaits
<1>3. ASSUME \A n \in 1..MaxAwaits : \E c \in checks : c[1] = n
      PROVE  FALSE
  <2>1. f \in Surjection(checks, 1..MaxAwaits)
    <3>1. f \in [checks -> 1..MaxAwaits]
      BY DEF AwaitsTyped
    <3>2. QED BY <1>3, <3>1 DEF Surjection
  <2>2. Cardinality(1..MaxAwaits) <= Cardinality(checks)
    BY <2>1, FS_Surjection DEF AwaitsTyped
  <2>3. Cardinality(1..MaxAwaits) = MaxAwaits
    BY FS_Interval, WizardFacts
  <2>4. QED BY <1>1, <1>2, <2>2, <2>3, WizardFacts
<1>4. QED BY <1>3

\* What waits for its confirmation goes on being on the chain.
LEMMA ConfirmingStays ==
    ASSUME WizardInv, status' = "confirming" => status = "confirming" /\ shown' = shown,
           chain \subseteq chain'
    PROVE  ConfirmingIsOnChain'
<1> SUFFICES ASSUME status' = "confirming"
             PROVE  shown' # None /\ {"commit", "reveal"} \X {shown'} \subseteq chain'
  BY DEF ConfirmingIsOnChain
<1>1. QED BY DEF WizardInv, ConfirmingIsOnChain

LEMMA AttemptsStay ==
    ASSUME WizardInv, UNCHANGED <<phase, sat, tries, chain>>, mined' \subseteq chain
    PROVE  AttemptsTyped' /\ RevealsFollow'
BY DEF WizardInv, AttemptsTyped, RevealsFollow

\* The pages that are shown, left and mounted.
LEMMA WizardPagesStep ==
    ASSUME WizardInv,
           \/ \E k \in Pages : GoBack(k)
           \/ Continue \/ StartNew \/ ExchangeAnswered
           \/ \E c \in checks : CheckAnswered(c)
    PROVE  WizardInv'
<1>1. WizardPagesTyped /\ AwaitsTyped /\ (exchanging = "here" => step = 2) /\ status \in Statuses
  BY DEF WizardInv, WizardPagesTyped
<1>2. UNCHANGED <<phase, sat, tries, chain, mined>>
  BY DEF GoBack, Continue, StartNew, ExchangeAnswered, CheckAnswered, attempts, network, pending
<1>3. AttemptsTyped' /\ RevealsFollow'
  BY <1>2, AttemptsStay DEF WizardInv, AttemptsTyped
<1>4. ASSUME NEW k \in Pages, GoBack(k) PROVE WizardInv'
  <2>1. WizardPagesTyped' /\ (status' = "confirming" => status = "confirming") /\ shown' = shown
    BY <1>1, <1>4, ShowTyped DEF GoBack
  <2>2. AwaitsTyped' /\ exchanging' # "here"
    BY <1>1, <1>4 DEF GoBack, AwaitsTyped, Left
  <2>3. QED BY <1>2, <1>3, <2>1, <2>2, ConfirmingStays DEF WizardInv
<1>5. CASE Continue
  <2>1. step + 1 \in Pages /\ Show(step + 1, status) /\ UNCHANGED <<utxo, content, shown>>
    BY <1>5, WizardFacts DEF Continue
  <2>2. WizardPagesTyped' /\ (status' = "confirming" => status = "confirming")
    BY <1>1, <2>1, ShowTyped
  <2>3. AwaitsTyped' /\ exchanging' # "here"
    BY <1>1, <1>5 DEF Continue, AwaitsTyped, pending
  <2>4. QED BY <1>2, <1>3, <2>1, <2>2, <2>3, ConfirmingStays DEF WizardInv
<1>6. CASE StartNew
  <2>1. WizardPagesTyped' /\ status' = "not_started"
    BY <1>1, <1>6, WizardFacts DEF StartNew, Fresh, WizardPagesTyped, page, Statuses
  <2>2. AwaitsTyped' /\ exchanging' # "here"
    BY <1>1, <1>6 DEF StartNew, AwaitsTyped, pending
  <2>3. QED BY <1>2, <1>3, <2>1, <2>2, ConfirmingStays DEF WizardInv
<1>7. CASE ExchangeAnswered
  <2> DEFINE k == IF step = 4 THEN 4 ELSE step + 1
  <2>1. k \in Pages /\ Show(k, status) /\ UNCHANGED <<utxo, content, shown>>
    BY <1>1, <1>7, WizardFacts DEF ExchangeAnswered, WizardPagesTyped
  <2> HIDE DEF k
  <2>2. WizardPagesTyped' /\ (status' = "confirming" => status = "confirming")
    BY <1>1, <2>1, ShowTyped
  <2>3. AwaitsTyped' /\ exchanging' # "here"
    BY <1>1, <1>7 DEF ExchangeAnswered, AwaitsTyped
  <2>4. QED BY <1>2, <1>3, <2>1, <2>2, <2>3, ConfirmingStays DEF WizardInv
<1>8. ASSUME NEW c \in checks, CheckAnswered(c) PROVE WizardInv'
  <2>1. AwaitsTyped'
    <3>1. checks' = checks \ {c} /\ looking' = looking /\ reading' = reading
          /\ exchanging' \in {exchanging, Left}
      BY <1>8 DEF CheckAnswered
    <3>2. IsFiniteSet(checks')
      BY <1>1, <3>1, FS_RemoveElement DEF AwaitsTyped
    <3>3. QED BY <1>1, <3>1, <3>2 DEF AwaitsTyped, Left
  <2>2. CASE UNCHANGED <<step, funding, status, page, exchanging>>
    <3>1. WizardPagesTyped'
      BY <1>1, <1>8, <2>2 DEF CheckAnswered, WizardPagesTyped, page
    <3>2. shown' = shown
      BY <1>8 DEF CheckAnswered
    <3>3. QED BY <1>1, <1>2, <1>3, <2>1, <2>2, <3>1, <3>2, ConfirmingStays DEF WizardInv
  <2>3. CASE Show(IF step = 4 THEN 4 ELSE step + 1, "completed") /\ exchanging' = Left
    <3> DEFINE k == IF step = 4 THEN 4 ELSE step + 1
    <3>1. k \in Pages /\ Show(k, "completed") /\ UNCHANGED <<utxo, content, shown>>
      BY <1>1, <1>8, <2>3, WizardFacts DEF CheckAnswered, WizardPagesTyped
    <3> HIDE DEF k
    <3>2. "completed" \in Statuses
      BY DEF Statuses
    <3>3. WizardPagesTyped' /\ status' # "confirming"
      BY <1>1, <3>1, <3>2, ShowTyped
    <3>4. exchanging' # "here"
      BY <2>3 DEF Left
    <3>5. QED BY <1>2, <1>3, <2>1, <3>3, <3>4, ConfirmingStays DEF WizardInv
  <2>4. QED BY <1>8, <2>2, <2>3 DEF CheckAnswered
<1>9. QED BY <1>4, <1>5, <1>6, <1>7, <1>8

\* A reload ends every await; transactions stay.
LEMMA ReloadStep == ASSUME WizardInv, Reload PROVE WizardInv'
<1>1. WizardPagesTyped'
  BY WizardFacts DEF Reload, Fresh, WizardPagesTyped, Statuses
<1>2. AwaitsTyped'
  BY FS_EmptySet DEF Reload, AwaitsTyped
<1>3. AttemptsTyped' /\ RevealsFollow'
  <2>1. phase' \in [Attempts -> Phases] /\ \A a \in Attempts : phase'[a] # "reveal"
        /\ (phase'[a] = "unused" <=> phase[a] = "unused")
    BY DEF Reload, WizardInv, AttemptsTyped, Running, Phases
  <2>2. tries' \in [Attempts -> 0..(RevealTries - 1)]
    BY DEF Reload, RevealTries
  <2>3. UNCHANGED <<sat, chain, mined>>
    BY DEF Reload, network
  <2>4. QED BY <2>1, <2>2, <2>3 DEF WizardInv, AttemptsTyped, RevealsFollow
<1>4. status' = "not_started" /\ exchanging' = "none"
  BY DEF Reload, Fresh
<1>5. QED BY <1>1, <1>2, <1>3, <1>4 DEF WizardInv, ConfirmingIsOnChain

\* What is selected, entered, read or asked for.
LEMMA SelectionStep ==
    ASSUME WizardInv,
           \/ \E u \in Utxos : SelectUtxo(u) \/ SelectLargest(u) \/ SatNumberAnswered(u)
           \/ Deselect \/ StartExchange \/ ExchangeFails
           \/ \E c \in Contents \cup {None} : EnterText(c)
           \/ \E c \in Contents : ReadFile(c) \/ FileLoaded(c)
           \/ \E r \in Rates : SelectRate(r)
           \/ \E S \in SUBSET Utxos : SelectFunding(S)
           \/ \E a \in Attempts : Check(a)
           \/ \E t \in chain : Mine(t)
    PROVE  WizardInv'
<1>1. WizardPagesTyped /\ AwaitsTyped /\ AttemptsTyped /\ (exchanging = "here" => step = 2)
  BY DEF WizardInv
<1>2. /\ UNCHANGED <<phase, sat, tries, chain, step, status, shown, loading, own, polled, timer>>
      /\ mined' \subseteq chain
  BY <1>1 DEF SelectUtxo, SelectLargest, SatNumberAnswered, Deselect, StartExchange, ExchangeFails,
         EnterText, ReadFile, FileLoaded, SelectRate, SelectFunding, Check, Mine, attempts, network,
         reducer, page, AttemptsTyped
<1>3. /\ utxo' \in Utxos \cup {None} /\ content' \in Contents \cup {None} /\ rate' \in Rates
      /\ funding' \subseteq Utxos
  <2>1. \A c, r : Refunded(c, r) \subseteq Utxos
    BY <1>1 DEF Refunded, WizardPagesTyped
  <2>2. utxo' = utxo \/ utxo' = None \/ \E u \in Utxos : utxo' = u
    BY DEF SelectUtxo, SelectLargest, SatNumberAnswered, Deselect, StartExchange, ExchangeFails,
         EnterText, ReadFile, FileLoaded, SelectRate, SelectFunding, Check, Mine, reducer
  <2>3. content' = content \/ \E c \in Contents \cup {None} : content' = c
    BY DEF SelectUtxo, SelectLargest, SatNumberAnswered, Deselect, StartExchange, ExchangeFails,
         EnterText, ReadFile, FileLoaded, SelectRate, SelectFunding, Check, Mine, reducer
  <2>4. rate' = rate \/ \E r \in Rates : rate' = r
    BY DEF SelectUtxo, SelectLargest, SatNumberAnswered, Deselect, StartExchange, ExchangeFails,
         EnterText, ReadFile, FileLoaded, SelectRate, SelectFunding, Check, Mine, reducer, page
  <2>5. funding' = funding \/ (\E c, r : funding' = Refunded(c, r)) \/ funding' \subseteq Utxos
    BY DEF SelectUtxo, SelectLargest, SatNumberAnswered, Deselect, StartExchange, ExchangeFails,
         EnterText, ReadFile, FileLoaded, SelectRate, SelectFunding, Check, Mine, reducer
  <2>6. QED BY <1>1, <2>1, <2>2, <2>3, <2>4, <2>5 DEF WizardPagesTyped
<1>4. WizardPagesTyped'
  BY <1>1, <1>2, <1>3 DEF WizardPagesTyped
<1>5. AwaitsTyped' /\ (exchanging' = "here" => step = 2)
  <2>1. CASE \E u \in Utxos : SelectUtxo(u) \/ SelectLargest(u)
    BY <1>1, <2>1, FS_AddElement DEF SelectUtxo, SelectLargest, AwaitsTyped
  <2>2. CASE \E u \in Utxos : SatNumberAnswered(u)
    BY <1>1, <2>2, FS_RemoveElement DEF SatNumberAnswered, AwaitsTyped
  <2>3. CASE \E c \in Contents : ReadFile(c)
    BY <1>1, <2>3, FS_AddElement DEF ReadFile, AwaitsTyped
  <2>4. CASE \E c \in Contents : FileLoaded(c)
    BY <1>1, <2>4, FS_RemoveElement DEF FileLoaded, AwaitsTyped
  <2>5. CASE StartExchange \/ ExchangeFails
    BY <1>1, <2>5 DEF StartExchange, ExchangeFails, AwaitsTyped
  <2>6. ASSUME NEW a \in Attempts, Check(a) PROVE AwaitsTyped' /\ exchanging' = exchanging
    <3> DEFINE n == CHOOSE n \in 1..MaxAwaits : \A c \in checks : c[1] # n
               new == <<n, a>>
    <3>1. n \in 1..MaxAwaits
      BY <1>1, <2>6, CheckNumbered DEF Check
    <3>2. checks' = checks \cup {new}
      BY <2>6 DEF Check
    <3> HIDE DEF n
    <3>3. new \in (1..MaxAwaits) \X Attempts
      BY <3>1
    <3> HIDE DEF new
    <3>4. IsFiniteSet(checks')
      BY <1>1, <3>2, FS_AddElement DEF AwaitsTyped
    <3>5. UNCHANGED <<looking, reading, exchanging>>
      BY <2>6 DEF Check
    <3>6. QED BY <1>1, <3>2, <3>3, <3>4, <3>5 DEF AwaitsTyped
  <2>7. CASE UNCHANGED pending
    BY <1>1, <2>7 DEF AwaitsTyped, pending
  <2>8. QED BY <1>1, <2>1, <2>2, <2>3, <2>4, <2>5, <2>6, <2>7 DEF Deselect, EnterText, SelectRate,
              SelectFunding, Mine
<1>6. AttemptsTyped' /\ RevealsFollow'
  BY <1>2, AttemptsStay
<1>7. ConfirmingIsOnChain'
  BY <1>2, ConfirmingStays
<1>8. QED BY <1>2, <1>4, <1>5, <1>6, <1>7 DEF WizardInv

\* An attempt goes on, or ends.
LEMMA AttemptMoves ==
    ASSUME WizardInv, NEW a \in Attempts, NEW p \in Phases \ {"unused"}, phase[a] # "unused",
           phase' = [phase EXCEPT ![a] = p], sat' = sat,
           tries' \in [Attempts -> 0..(RevealTries - 1)], mined' = mined,
           chain \subseteq chain', chain' \subseteq Transactions,
           p = "reveal" => <<"commit", a>> \in chain'
    PROVE  AttemptsTyped' /\ RevealsFollow'
<1>1. phase' \in [Attempts -> Phases] /\ phase'[a] = p /\ \A b \in Attempts \ {a} : phase'[b] = phase[b]
  BY DEF WizardInv, AttemptsTyped
<1>2. QED BY <1>1 DEF WizardInv, AttemptsTyped, RevealsFollow

LEMMA AnsweredTyped ==
    ASSUME WizardPagesTyped, NEW a, Answered(a)
    PROVE  loading' \in BOOLEAN /\ phase' = [phase EXCEPT ![a] = "ended"]
BY DEF Answered, WizardPagesTyped

LEMMA FailTyped ==
    ASSUME WizardPagesTyped, NEW a, Fail(a), UNCHANGED <<step, utxo, content, rate, own>>
    PROVE  WizardPagesTyped' /\ status' = "failed" /\ phase' = [phase EXCEPT ![a] = "ended"]
<1>1. "failed" \in Statuses /\ SetStatus("failed") /\ polled' = polled /\ shown' = shown
      /\ Answered(a)
  BY DEF Fail, Statuses
<1>2. polled' \in Attempts \cup {None} /\ shown' \in Attempts \cup {None} /\ own' \subseteq Attempts
  BY <1>1 DEF WizardPagesTyped
<1>3. QED BY <1>1, <1>2, AnsweredTyped, StatusTyped

LEMMA SucceedTyped ==
    ASSUME WizardPagesTyped, NEW a \in Attempts, Succeed(a), UNCHANGED <<step, utxo, content, rate, own>>
    PROVE  WizardPagesTyped' /\ status' = "confirming" /\ shown' = a /\ phase' = [phase EXCEPT ![a] = "ended"]
<1>1. "confirming" \in Statuses /\ SetStatus("confirming") /\ polled' \in {a, polled} /\ shown' = a
      /\ Answered(a)
  BY DEF Succeed, Statuses
<1>2. polled' \in Attempts \cup {None} /\ shown' \in Attempts \cup {None} /\ own' \subseteq Attempts
  BY <1>1 DEF WizardPagesTyped
<1>3. QED BY <1>1, <1>2, AnsweredTyped, StatusTyped

\* Clicks on "Create Inscription" and "Try Again".
LEMMA ClickStep ==
    ASSUME WizardInv, TryAgain \/ \E a \in Attempts : Create(a)
    PROVE  WizardInv'
<1>1. WizardPagesTyped /\ AwaitsTyped /\ AttemptsTyped /\ (exchanging = "here" => step = 2)
  BY DEF WizardInv
<1>2. UNCHANGED <<step, chain, mined, pending, tries>>
  BY DEF TryAgain, Create, reducer, attempts, network
<1>3. AwaitsTyped' /\ (exchanging' = "here" => step' = 2)
  BY <1>1, <1>2 DEF AwaitsTyped, pending
<1>4. CASE TryAgain
  <2> DEFINE s == Prepared("not_started")
  <2>1. s \in {"not_started", "failed"} /\ s \in Statuses
    BY DEF Prepared, Statuses
  <2>2. SetStatus(s) /\ polled' = None /\ shown' = None /\ loading' = FALSE
        /\ UNCHANGED <<utxo, content, rate, own, attempts, network>>
    BY <1>4 DEF TryAgain
  <2> HIDE DEF s
  <2>3. WizardPagesTyped' /\ status' = s
    BY <1>1, <1>2, <2>1, <2>2, StatusTyped DEF WizardPagesTyped
  <2>4. AttemptsTyped' /\ RevealsFollow'
    BY <1>1, <1>2, <2>2, AttemptsStay DEF attempts, AttemptsTyped
  <2>5. QED BY <1>2, <1>3, <2>1, <2>3, <2>4, ConfirmingStays DEF WizardInv
<1>5. ASSUME NEW a \in Attempts, Create(a) PROVE WizardInv'
  <2>1. /\ phase' = [phase EXCEPT ![a] = "list"] /\ sat' = [sat EXCEPT ![a] = utxo]
        /\ phase[a] = "unused" /\ utxo # None /\ loading' = TRUE /\ own' = own \cup {a}
        /\ UNCHANGED <<utxo, content, funding, status, shown, rate, polled, timer>>
    BY <1>5 DEF Create, reducer
  <2>2. WizardPagesTyped'
    BY <1>1, <1>2, <2>1 DEF WizardPagesTyped
  <2>3. AttemptsTyped' /\ RevealsFollow'
    <3>1. /\ phase' \in [Attempts -> Phases] /\ phase'[a] = "list"
          /\ \A b \in Attempts \ {a} : phase'[b] = phase[b]
      BY <1>1, <2>1 DEF AttemptsTyped, Phases
    <3>2. /\ sat' \in [Attempts -> Utxos \cup {None}] /\ sat'[a] # None
          /\ \A b \in Attempts \ {a} : sat'[b] = sat[b]
      BY <1>1, <2>1 DEF AttemptsTyped, WizardPagesTyped
    <3>3. QED BY <1>2, <3>1, <3>2 DEF WizardInv, AttemptsTyped, RevealsFollow
  <2>4. QED BY <1>2, <1>3, <2>1, <2>2, <2>3, ConfirmingStays DEF WizardInv
<1>6. QED BY <1>4, <1>5

\* The answers that an attempt waits for.
LEMMA AttemptStep ==
    ASSUME WizardInv, NEW a \in Attempts, Listed(a) \/ Signed(a) \/ CommitSent(a) \/ RevealSent(a)
    PROVE  WizardInv'
<1>1. WizardPagesTyped /\ AwaitsTyped /\ AttemptsTyped /\ (exchanging = "here" => step = 2)
      /\ chain \subseteq Transactions /\ phase[a] \in Phases
  BY DEF WizardInv, AttemptsTyped
<1>2. UNCHANGED <<step, utxo, content, rate, own, mined, pending, sat>> /\ phase[a] # "unused"
  BY DEF Listed, Signed, CommitSent, RevealSent, Fail, Succeed, RevealRefused, Over, network, page
<1>3. AwaitsTyped' /\ (exchanging' = "here" => step' = 2)
  BY <1>1, <1>2 DEF AwaitsTyped, pending
<1>4. /\ chain \subseteq chain' /\ chain' \subseteq Transactions
      /\ tries' \in [Attempts -> 0..(RevealTries - 1)]
  <2>1. chain' \in {chain, chain \cup {<<"commit", a>>}, chain \cup {<<"reveal", a>>}}
    BY DEF Listed, Signed, CommitSent, RevealSent, network
  <2>2. \/ tries' = tries
        \/ tries' = [tries EXCEPT ![a] = 0]
        \/ tries[a] + 1 # RevealTries /\ tries' = [tries EXCEPT ![a] = @ + 1]
    <3>1. CASE Listed(a)
      BY <3>1 DEF Listed
    <3>2. CASE Signed(a)
      BY <3>2 DEF Signed
    <3>3. CASE CommitSent(a)
      BY <3>3 DEF CommitSent
    <3>4. CASE RevealSent(a)
      BY <3>4 DEF RevealSent, Over, RevealRefused
    <3>5. QED BY <3>1, <3>2, <3>3, <3>4
  <2>3. tries' \in [Attempts -> 0..(RevealTries - 1)]
    BY <1>1, <2>2 DEF AttemptsTyped, RevealTries
  <2>4. QED BY <1>1, <2>1, <2>3 DEF Transactions
<1>5. CASE Fail(a)
  <2>1. WizardPagesTyped' /\ status' = "failed" /\ phase' = [phase EXCEPT ![a] = "ended"]
    BY <1>1, <1>2, <1>5, FailTyped
  <2>2. AttemptsTyped' /\ RevealsFollow'
    BY <1>2, <1>4, <2>1, AttemptMoves DEF Phases
  <2>3. QED BY <1>3, <1>4, <2>1, <2>2, ConfirmingStays DEF WizardInv
<1>6. CASE RevealSent(a) /\ Succeed(a) /\ chain' = chain \cup {<<"reveal", a>>}
  <2>1. WizardPagesTyped' /\ status' = "confirming" /\ shown' = a /\ phase' = [phase EXCEPT ![a] = "ended"]
    BY <1>1, <1>2, <1>6, SucceedTyped
  <2>2. AttemptsTyped' /\ RevealsFollow'
    BY <1>2, <1>4, <2>1, AttemptMoves DEF Phases
  <2>3. <<"commit", a>> \in chain
    BY <1>6 DEF RevealSent, WizardInv, RevealsFollow
  <2>4. ConfirmingIsOnChain'
    BY <1>6, <2>1, <2>3, WizardFacts DEF ConfirmingIsOnChain
  <2>5. QED BY <1>3, <2>1, <2>2, <2>4 DEF WizardInv
<1>7. CASE Listed(a) /\ ~Fail(a)
  <2>1. /\ phase' = [phase EXCEPT ![a] = "sign"] /\ SetStatus("broadcasting")
        /\ UNCHANGED <<polled, shown, loading>>
    BY <1>7 DEF Listed
  <2>2. "broadcasting" \in Statuses
    BY DEF Statuses
  <2>3. WizardPagesTyped' /\ status' = "broadcasting"
    BY <1>1, <1>2, <2>1, <2>2, StatusTyped DEF WizardPagesTyped
  <2>4. AttemptsTyped' /\ RevealsFollow'
    BY <1>2, <1>4, <2>1, AttemptMoves DEF Phases
  <2>5. QED BY <1>3, <1>4, <2>3, <2>4, ConfirmingStays DEF WizardInv
<1>8. CASE UNCHANGED <<page, funding, status, shown>>
  <2>1. WizardPagesTyped' /\ ConfirmingIsOnChain'
    BY <1>1, <1>2, <1>4, <1>8, ConfirmingStays DEF WizardPagesTyped, page
  <2>2. AttemptsTyped' /\ RevealsFollow'
    <3>1. CASE phase' = phase
      BY <1>1, <1>2, <1>4, <3>1 DEF WizardInv, AttemptsTyped, RevealsFollow
    <3>2. CASE phase' = [phase EXCEPT ![a] = "commit"]
      BY <1>2, <1>4, <3>2, AttemptMoves DEF Phases
    <3>3. CASE phase' = [phase EXCEPT ![a] = "reveal"] /\ <<"commit", a>> \in chain'
      BY <1>2, <1>4, <3>3, AttemptMoves DEF Phases
    <3>4. CASE phase' = [phase EXCEPT ![a] = "ended"] \/ phase' = [phase EXCEPT ![a] = "sign"]
      BY <1>2, <1>4, <3>4, AttemptMoves DEF Phases
    <3>5. QED BY <3>1, <3>2, <3>3, <3>4 DEF Listed, Signed, CommitSent, RevealSent, RevealRefused,
                Fail, Succeed, Answered
  <2>3. QED BY <1>3, <2>1, <2>2 DEF WizardInv
<1>9. QED BY <1>5, <1>6, <1>7, <1>8 DEF Signed, CommitSent, RevealSent, RevealRefused

LEMMA WizardInvariant == WizardSpec => []WizardInv
<1>1. WizardInit => WizardInv
  <2> SUFFICES ASSUME WizardInit PROVE WizardInv
    OBVIOUS
  <2>1. WizardPagesTyped
    BY WizardFacts DEF WizardInit, WizardPagesTyped, Statuses
  <2>2. AwaitsTyped
    BY FS_EmptySet DEF WizardInit, AwaitsTyped
  <2>3. AttemptsTyped /\ RevealsFollow
    BY DEF WizardInit, AttemptsTyped, RevealsFollow, Phases, RevealTries
  <2>4. QED BY <2>1, <2>2, <2>3 DEF WizardInit, WizardInv, ConfirmingIsOnChain
<1>2. WizardInv /\ [WizardNext]_wizardVars => WizardInv'
  <2> SUFFICES ASSUME WizardInv, [WizardNext]_wizardVars PROVE WizardInv'
    OBVIOUS
  <2>1. CASE UNCHANGED wizardVars
    BY <2>1 DEF wizardVars, reducer, page, attempts, network, pending, WizardInv, WizardPagesTyped,
           AwaitsTyped, AttemptsTyped, RevealsFollow, ConfirmingIsOnChain
  <2>2. CASE WizardNext
    BY <2>2, WizardPagesStep, ReloadStep, SelectionStep, ClickStep, AttemptStep
       DEF WizardNext, User, Answer
  <2>3. QED BY <2>1, <2>2
<1>3. QED BY <1>1, <1>2, PTL DEF WizardSpec

\* The reducer, the mounted page, everything awaited and every attempt keep their types,
\* whatever is clicked, left, reloaded and answered late.
THEOREM WizardTypeCorrect == WizardSpec => []WizardTypeOK
<1>1. WizardInv => WizardTypeOK
  BY DEF WizardInv, WizardPagesTyped, AwaitsTyped, AttemptsTyped, Phases, WizardTypeOK
<1>2. QED BY <1>1, WizardInvariant, PTL

\* While the page says that the inscription is being confirmed, the node has accepted
\* the commit and the reveal it shows, whichever attempts were refused, clicked twice or
\* answered after the page was left (TransactionStep.tsx:634-727).
THEOREM ConfirmingOnChain == WizardSpec => []ConfirmingIsOnChain
<1>1. WizardInv => ConfirmingIsOnChain
  BY DEF WizardInv
<1>2. QED BY <1>1, WizardInvariant, PTL

-----------------------------------------------------------------------------
(***************************************************************************)
(*                                                                         *)
(***************************************************************************)

-----------------------------------------------------------------------------
(***************************************************************************)
(* The pages of collections.                                               *)
(***************************************************************************)
Distinct(s) == \A i, j \in DOMAIN s : s[i] = s[j] => i = j

\* The elements of seq that are in S, as far as the first n.
Keeps(f, seq, S) ==
    f = [n \in 0..Len(seq) |->
            IF n = 0 THEN <<>>
            ELSE IF seq[n] \in S THEN Append(f[n - 1], seq[n]) ELSE f[n - 1]]

LEMMA OnlyIsChosen == ASSUME NEW seq, NEW S PROVE Only(seq, S) = (CHOOSE f : Keeps(f, seq, S))[Len(seq)]
BY DEF Only, Keeps

LEMMA BelowHolds ==
    ASSUME NEW m \in Nat, NEW G, 0 \in G, \A n \in 0..(m - 1) : n \in G => n + 1 \in G
    PROVE  0..m \subseteq G
<1> DEFINE T == {n \in 0..m : n \notin G}
<1> SUFFICES ASSUME T # {} PROVE FALSE
  OBVIOUS
<1>1. T \in SUBSET Nat
  OBVIOUS
<1> HIDE DEF T
<1>2. PICK n \in T : \A k \in T : n <= k
  BY <1>1, LeastExists
<1>3. n \in 0..m /\ n \notin G /\ n # 0
  BY <1>2 DEF T
<1>4. n - 1 \in 0..(m - 1) /\ n - 1 \in 0..m /\ (n - 1) + 1 = n /\ n - 1 < n
  BY <1>3
<1>5. n - 1 \in G
  <2>1. SUFFICES ASSUME n - 1 \notin G PROVE FALSE
    OBVIOUS
  <2>2. n - 1 \in T
    BY <1>4, <2>1 DEF T
  <2>3. QED BY <1>2, <1>3, <1>4, <2>2
<1>6. QED BY <1>3, <1>4, <1>5

\* There is such a function: an element is decided by those before it.
LEMMA KeepsExists ==
    ASSUME NEW seq \in Seq(Pieces), NEW S
    PROVE  \E f : Keeps(f, seq, S)
<1> DEFINE upto(m, f) == f = [n \in 0..m |-> IF n = 0 THEN <<>>
                                ELSE IF seq[n] \in S THEN Append(f[n - 1], seq[n]) ELSE f[n - 1]]
           G == {m \in Nat : \E f : upto(m, f)}
<1>1. 0 \in G
  <2>1. upto(0, [n \in 0..0 |-> <<>>])
    OBVIOUS
  <2>2. QED BY <2>1
<1>2. ASSUME NEW m \in Nat, m \in G PROVE m + 1 \in G
  <2>1. PICK f : upto(m, f)
    BY <1>2
  <2> DEFINE last == IF seq[m + 1] \in S THEN Append(f[m], seq[m + 1]) ELSE f[m]
             g == [n \in 0..(m + 1) |-> IF n = m + 1 THEN last ELSE f[n]]
  <2>2. ASSUME NEW n \in 0..(m + 1)
        PROVE  g[n] = IF n = 0 THEN <<>> ELSE IF seq[n] \in S THEN Append(g[n - 1], seq[n]) ELSE g[n - 1]
    <3>1. CASE n = 0
      <4>1. g[n] = f[n] /\ f[0] = <<>>
        BY <2>1, <3>1
      <4>2. QED BY <3>1, <4>1
    <3>2. CASE n # 0 /\ n # m + 1
      <4>1. n \in 0..m /\ n - 1 \in 0..m /\ n - 1 # m + 1 /\ n - 1 \in 0..(m + 1)
        BY <3>2
      <4>2. g[n] = f[n] /\ g[n - 1] = f[n - 1]
        BY <3>2, <4>1
      <4>3. f[n] = IF seq[n] \in S THEN Append(f[n - 1], seq[n]) ELSE f[n - 1]
        BY <2>1, <3>2, <4>1
      <4>4. QED BY <3>2, <4>2, <4>3
    <3>3. CASE n = m + 1
      <4>1. g[n] = last /\ g[n - 1] = f[m] /\ n # 0 /\ n - 1 = m
        BY <3>3
      <4>2. QED BY <3>3, <4>1
    <3>4. QED BY <3>1, <3>2, <3>3
  <2>3. upto(m + 1, g) /\ m + 1 \in Nat
    BY <2>2
  <2> HIDE DEF g, upto
  <2>4. QED BY <2>3
<1> HIDE DEF G
<1>3. Len(seq) \in Nat
  OBVIOUS
<1>4. 0..Len(seq) \subseteq G
  BY <1>1, <1>2, <1>3, BelowHolds
<1>5. Len(seq) \in G
  BY <1>3, <1>4
<1>6. QED BY <1>5 DEF G, Keeps

LEMMA NoneSelected == Selected(<<>>) = {} /\ Distinct(<<>>)
BY DEF Selected, Distinct

LEMMA OneMore ==
    ASSUME NEW s \in Seq(Pieces), NEW x \in Pieces
    PROVE  /\ Append(s, x) \in Seq(Pieces) /\ Selected(Append(s, x)) = Selected(s) \cup {x}
           /\ Distinct(s) /\ x \notin Selected(s) => Distinct(Append(s, x))
<1> DEFINE t == Append(s, x)
<1>1. /\ t \in Seq(Pieces) /\ Len(s) \in Nat /\ DOMAIN s = 1..Len(s) /\ DOMAIN t = 1..(Len(s) + 1)
      /\ t[Len(s) + 1] = x /\ \A i \in 1..Len(s) : t[i] = s[i]
  OBVIOUS
<1> HIDE DEF t
<1>2. /\ \A i \in DOMAIN t : i \in DOMAIN s \/ i = Len(s) + 1
      /\ \A i \in DOMAIN s : i \in DOMAIN t /\ t[i] = s[i]
      /\ Len(s) + 1 \in DOMAIN t /\ Len(s) + 1 \notin DOMAIN s
  BY <1>1
<1>3. Selected(t) = Selected(s) \cup {x}
  BY <1>1, <1>2 DEF Selected
<1>4. ASSUME Distinct(s), x \notin Selected(s) PROVE Distinct(t)
  <2>1. \A k \in DOMAIN s : s[k] # x
    BY <1>4 DEF Selected
  <2>2. QED BY <1>1, <1>2, <1>4, <2>1 DEF Distinct
<1>5. QED BY <1>1, <1>3, <1>4 DEF t

\* What filter keeps: the elements in S, none more often than before.
LEMMA OnlyKeeps ==
    ASSUME NEW seq \in Seq(Pieces), NEW S
    PROVE  /\ Only(seq, S) \in Seq(Pieces) /\ Selected(Only(seq, S)) = Selected(seq) \cap S
           /\ Distinct(seq) => Distinct(Only(seq, S))
<1> DEFINE f == CHOOSE g : Keeps(g, seq, S)
           m == Len(seq)
           First(n) == {seq[i] : i \in 1..n}
           Good(n) == /\ f[n] \in Seq(Pieces) /\ Selected(f[n]) = First(n) \cap S
                      /\ Distinct(seq) => Distinct(f[n])
           G == {n \in 0..m : Good(n)}
<1>1. Keeps(f, seq, S)
  BY KeepsExists
<1>2. m \in Nat /\ DOMAIN seq = 1..m /\ \A i \in 1..m : seq[i] \in Pieces
  OBVIOUS
<1> HIDE DEF f, m
<1>3. \A n \in 0..m : f[n] = IF n = 0 THEN <<>> ELSE IF seq[n] \in S THEN Append(f[n - 1], seq[n]) ELSE f[n - 1]
  BY <1>1 DEF Keeps, m
<1>4. 0 \in G
  <2>1. f[0] = <<>> /\ First(0) = {} /\ 0 \in 0..m
    BY <1>2, <1>3
  <2>2. Good(0)
    BY <2>1, NoneSelected
  <2>3. QED BY <2>1, <2>2
<1>5. ASSUME NEW n \in 0..(m - 1), n \in G PROVE n + 1 \in G
  <2>1. /\ n + 1 \in 1..m /\ n + 1 \in 0..m /\ n + 1 # 0 /\ (n + 1) - 1 = n /\ n \in Nat
        /\ f[n] \in Seq(Pieces) /\ Selected(f[n]) = First(n) \cap S
        /\ Distinct(seq) => Distinct(f[n])
        /\ seq[n + 1] \in Pieces
    BY <1>2, <1>5
  <2>2. First(n + 1) = First(n) \cup {seq[n + 1]}
    <3>1. 1..(n + 1) = 1..n \cup {n + 1}
      BY <2>1
    <3>2. QED BY <3>1
  <2>3. Distinct(seq) => seq[n + 1] \notin First(n)
    <3>1. SUFFICES ASSUME Distinct(seq), NEW i \in 1..n, seq[i] = seq[n + 1] PROVE FALSE
      OBVIOUS
    <3>2. i \in DOMAIN seq /\ n + 1 \in DOMAIN seq /\ i # n + 1
      BY <1>2, <2>1
    <3>3. QED BY <3>1, <3>2 DEF Distinct
  <2> HIDE DEF First
  <2> DEFINE old == f[n]
             x == seq[n + 1]
  <2>4. old \in Seq(Pieces) /\ x \in Pieces /\ Selected(old) = First(n) \cap S
    BY <2>1
  <2>5. Distinct(seq) => Distinct(old) /\ x \notin Selected(old)
    BY <2>1, <2>3
  <2>6. f[n + 1] = IF x \in S THEN Append(old, x) ELSE old
    BY <1>3, <2>1
  <2> HIDE DEF old, x
  <2>7. /\ Append(old, x) \in Seq(Pieces) /\ Selected(Append(old, x)) = Selected(old) \cup {x}
        /\ Distinct(seq) => Distinct(Append(old, x))
    BY <2>4, <2>5, OneMore
  <2>8. Good(n + 1)
    <3>1. First(n + 1) = First(n) \cup {x}
      BY <2>2 DEF x
    <3>2. CASE x \notin S
      BY <2>4, <2>5, <2>6, <3>1, <3>2
    <3>3. CASE x \in S
      BY <2>4, <2>6, <2>7, <3>1, <3>3
    <3>4. QED BY <3>2, <3>3
  <2> HIDE DEF Good
  <2>9. QED BY <2>1, <2>8
<1> HIDE DEF G
<1>6. m \in G
  <2>1. 0..m \subseteq G
    BY <1>2, <1>4, <1>5, BelowHolds
  <2>2. QED BY <1>2, <2>1
<1>7. Only(seq, S) = f[m]
  BY OnlyIsChosen DEF f, m
<1>8. First(m) = Selected(seq)
  BY <1>2 DEF Selected
<1>9. QED BY <1>6, <1>7, <1>8 DEF G

\* All of a sequence is kept that is in S.
LEMMA OnlyKeepsAll ==
    ASSUME NEW seq \in Seq(Pieces), NEW S, Selected(seq) \subseteq S
    PROVE  Only(seq, S) = seq
<1> DEFINE f == CHOOSE g : Keeps(g, seq, S)
           m == Len(seq)
           G == {n \in 0..m : f[n] \in Seq(Pieces) /\ Len(f[n]) = n /\ \A i \in 1..n : f[n][i] = seq[i]}
<1>1. Keeps(f, seq, S)
  BY KeepsExists
<1>2. m \in Nat /\ DOMAIN seq = 1..m /\ \A i \in 1..m : seq[i] \in Pieces /\ seq[i] \in S
  BY DEF Selected
<1> HIDE DEF f, m
<1>3. f[0] = <<>> /\ \A n \in 0..m : n # 0 => f[n] = Append(f[n - 1], seq[n])
  <2>1. \A n \in 0..m : n # 0 => n \in 1..m
    BY <1>2
  <2>2. QED BY <1>1, <1>2, <2>1 DEF Keeps, m
<1>4. 0 \in G
  <2>1. 0 \in 0..m /\ <<>> \in Seq(Pieces) /\ Len(<<>>) = 0 /\ 1..0 = {}
    BY <1>2
  <2>2. QED BY <1>3, <2>1
<1>5. ASSUME NEW n \in 0..(m - 1), n \in G PROVE n + 1 \in G
  <2>1. n + 1 \in 1..m /\ n + 1 \in 0..m /\ n + 1 # 0 /\ (n + 1) - 1 = n /\ n \in Nat
    BY <1>2, <1>5
  <2>2. f[n] \in Seq(Pieces) /\ Len(f[n]) = n /\ \A i \in 1..n : f[n][i] = seq[i]
    BY <1>5
  <2>3. f[n + 1] = Append(f[n], seq[n + 1]) /\ seq[n + 1] \in Pieces
    BY <1>2, <1>3, <2>1
  <2>4. f[n + 1] \in Seq(Pieces) /\ Len(f[n + 1]) = n + 1 /\ f[n + 1][n + 1] = seq[n + 1]
        /\ \A i \in 1..n : f[n + 1][i] = f[n][i]
    BY <2>1, <2>2, <2>3
  <2>5. \A i \in 1..(n + 1) : f[n + 1][i] = seq[i]
    <3>1. 1..(n + 1) = 1..n \cup {n + 1}
      BY <2>1
    <3>2. QED BY <2>2, <2>4, <3>1
  <2>6. QED BY <2>1, <2>4, <2>5
<1> HIDE DEF G
<1>6. m \in G
  <2>1. 0..m \subseteq G
    BY <1>2, <1>4, <1>5, BelowHolds
  <2>2. QED BY <1>2, <2>1
<1>7. f[m] \in Seq(Pieces) /\ Len(f[m]) = Len(seq) /\ \A i \in 1..Len(seq) : f[m][i] = seq[i]
  BY <1>6 DEF G, m
<1>8. f[m] = seq
  BY <1>7
<1>9. QED BY <1>8, OnlyIsChosen DEF f, m

\* Only what a sequence has matters.
LEMMA OnlyAgrees ==
    ASSUME NEW seq \in Seq(Pieces), NEW R, NEW S, Selected(seq) \cap R = Selected(seq) \cap S
    PROVE  Only(seq, R) = Only(seq, S)
<1> DEFINE f == CHOOSE g : Keeps(g, seq, R)
           h == CHOOSE g : Keeps(g, seq, S)
           m == Len(seq)
           G == {n \in 0..m : f[n] = h[n]}
<1>1. Keeps(f, seq, R) /\ Keeps(h, seq, S)
  BY KeepsExists
<1>2. m \in Nat /\ \A i \in 1..m : seq[i] \in R <=> seq[i] \in S
  BY DEF Selected
<1> HIDE DEF f, h, m
<1>3. f[0] = <<>> /\ h[0] = <<>>
  <2>1. 0 \in 0..m
    BY <1>2
  <2>2. QED BY <1>1, <2>1 DEF Keeps, m
<1>4. ASSUME NEW n \in 1..m
      PROVE  /\ f[n] = IF seq[n] \in R THEN Append(f[n - 1], seq[n]) ELSE f[n - 1]
             /\ h[n] = IF seq[n] \in S THEN Append(h[n - 1], seq[n]) ELSE h[n - 1]
  <2>1. n \in 0..m /\ n # 0
    BY <1>2
  <2>2. QED BY <1>1, <2>1 DEF Keeps, m
<1>5. 0 \in G
  BY <1>2, <1>3
<1>6. ASSUME NEW n \in 0..(m - 1), n \in G PROVE n + 1 \in G
  <2>1. n + 1 \in 1..m /\ n + 1 \in 0..m /\ (n + 1) - 1 = n /\ f[n] = h[n]
    BY <1>2, <1>6
  <2>2. QED BY <1>2, <1>4, <2>1
<1> HIDE DEF G
<1>7. m \in G
  <2>1. 0..m \subseteq G
    BY <1>2, <1>5, <1>6, BelowHolds
  <2>2. QED BY <1>2, <2>1
<1>8. f[m] = h[m]
  BY <1>7 DEF G
<1>9. QED BY <1>8, OnlyIsChosen DEF f, h, m

LEMMA FewElements ==
    ASSUME NEW s \in Seq(Pieces), Distinct(s)
    PROVE  /\ Selected(s) = {} => s = <<>>
           /\ \A p \in Pieces : Selected(s) = {p} => s = <<p>>
<1>1. Len(s) \in Nat /\ DOMAIN s = 1..Len(s)
  OBVIOUS
<1>2. ASSUME Selected(s) = {} PROVE s = <<>>
  <2>1. DOMAIN s = {}
    BY <1>2 DEF Selected
  <2>2. Len(s) = 0
    BY <1>1, <2>1
  <2>3. QED BY <2>2
<1>3. ASSUME NEW p \in Pieces, Selected(s) = {p} PROVE s = <<p>>
  <2>1. \A i \in 1..Len(s) : s[i] = p
    BY <1>1, <1>3 DEF Selected
  <2>2. ~(Len(s) >= 2)
    <3>1. SUFFICES ASSUME Len(s) >= 2 PROVE FALSE
      OBVIOUS
    <3>2. 1 \in 1..Len(s) /\ 2 \in 1..Len(s)
      BY <1>1, <3>1
    <3>3. QED BY <1>1, <2>1, <3>2 DEF Distinct
  <2>3. Len(s) # 0
    <3>1. SUFFICES ASSUME Len(s) = 0 PROVE FALSE
      OBVIOUS
    <3>2. DOMAIN s = {}
      BY <1>1, <3>1
    <3>3. QED BY <1>3, <3>2 DEF Selected
  <2>4. Len(s) = 1 /\ s[1] = p
    BY <1>1, <2>1, <2>2, <2>3
  <2>5. QED BY <2>4
<1>4. QED BY <1>2, <1>3

-----------------------------------------------------------------------------
(* The form. *)

\* After a click the selector's order is the selection again.
LEMMA ToggledOrder ==
    ASSUME NEW items \in Seq(Pieces), Distinct(items), NEW p \in Pieces
    PROVE  /\ Toggled(items, p) \in Seq(Pieces) /\ Distinct(Toggled(items, p))
           /\ Reordered(items, Toggled(items, p)) = Toggled(items, p)
<1> DEFINE next == Toggled(items, p)
           old == Only(items, Selected(next))
           new == Only(next, Pieces \ Selected(items))
<1>1. Selected(items) \subseteq Pieces
  BY DEF Selected
<1>2. CASE p \in Selected(items)
  <2>1. next = Only(items, Pieces \ {p})
    BY <1>2 DEF Toggled
  <2>2. next \in Seq(Pieces) /\ Distinct(next) /\ Selected(next) = Selected(items) \cap (Pieces \ {p})
    BY <2>1, OnlyKeeps
  <2> HIDE DEF next
  <2>3. old = next
    <3>1. Selected(items) \cap Selected(next) = Selected(items) \cap (Pieces \ {p})
      BY <2>2
    <3>2. QED BY <2>1, <3>1, OnlyAgrees
  <2>4. new = <<>>
    <3>1. new \in Seq(Pieces) /\ Distinct(new) /\ Selected(new) = Selected(next) \cap (Pieces \ Selected(items))
      BY <2>2, OnlyKeeps
    <3>2. Selected(new) = {}
      BY <2>2, <3>1
    <3> HIDE DEF new
    <3>3. QED BY <3>1, <3>2, FewElements
  <2>5. Reordered(items, next) = next \o <<>>
    BY <2>3, <2>4 DEF Reordered
  <2>6. QED BY <2>2, <2>5 DEF next
<1>3. CASE p \notin Selected(items)
  <2>1. next = Append(items, p)
    BY <1>3 DEF Toggled
  <2>2. next \in Seq(Pieces) /\ Selected(next) = Selected(items) \cup {p} /\ Distinct(next)
    BY <1>3, <2>1, OneMore
  <2> HIDE DEF next
  <2>6. old = items
    BY <2>2, OnlyKeepsAll
  <2>7. new = <<p>>
    <3>1. new \in Seq(Pieces) /\ Distinct(new) /\ Selected(new) = Selected(next) \cap (Pieces \ Selected(items))
      BY <2>2, OnlyKeeps
    <3>2. Selected(new) = {p}
      BY <1>3, <2>2, <3>1
    <3> HIDE DEF new
    <3>3. QED BY <3>1, <3>2, FewElements
  <2>8. Reordered(items, next) = items \o <<p>>
    BY <2>6, <2>7 DEF Reordered
  <2>9. items \o <<p>> = next
    BY <2>1
  <2>10. QED BY <2>2, <2>8, <2>9 DEF next
<1>4. QED BY <1>2, <1>3

LEMMA SwappedOrder ==
    ASSUME NEW items \in Seq(Pieces), Distinct(items), NEW i \in DOMAIN items, NEW j \in DOMAIN items
    PROVE  Swapped(items, i, j) \in Seq(Pieces) /\ Distinct(Swapped(items, i, j))
<1> DEFINE next == Swapped(items, i, j)
<1>1. /\ Len(items) \in Nat /\ DOMAIN items = 1..Len(items) /\ DOMAIN next = DOMAIN items
      /\ \A k \in DOMAIN items : next[k] = IF k = j THEN items[i] ELSE IF k = i THEN items[j] ELSE items[k]
  BY DEF Swapped
<1>2. next \in Seq(Pieces)
  BY DEF Swapped
<1> HIDE DEF next
<1>3. Distinct(next)
  BY <1>1 DEF Distinct
<1>4. QED BY <1>2, <1>3 DEF next

-----------------------------------------------------------------------------
(* The gallery. *)
LEMMA PageSizes ==
    /\ PerPage \in Nat /\ PerPage >= 1 /\ IsFiniteSet(Listable) /\ DOMAIN Rank # {}
    /\ \A o \in DOMAIN Rank :
          /\ \A c \in Listable : Rank[o][c] \in Nat
          /\ \A c, d \in Listable : Rank[o][c] = Rank[o][d] => c = d
<1>1. \A o \in DOMAIN Rank, c \in Listable : Rank[o][c] \in 1..Cardinality(Listable)
  BY CollectionPagesAssumption
<1>2. Cardinality(Listable) \in Nat
  BY CollectionPagesAssumption, FS_CardinalityType
<1>3. \A o \in DOMAIN Rank, c \in Listable : Rank[o][c] \in Nat
  BY <1>1, <1>2
<1>4. QED BY <1>3, CollectionPagesAssumption

LEMMA ProductGrows == \A a, b, p \in Nat : a <= b => a * p <= b * p
OBVIOUS

LEMMA PageBegins ==
    ASSUME NEW n \in Nat, NEW p \in Nat \ {0}, p <= (n + PerPage - 1) \div PerPage
    PROVE  (p - 1) * PerPage + 1 <= n
<1> DEFINE q == (n + PerPage - 1) \div PerPage
<1>1. PerPage \in Nat /\ PerPage >= 1
  BY PageSizes
<1>2. q \in Nat /\ q * PerPage <= n + PerPage - 1
  BY <1>1
<1> HIDE DEF q
<1>3. p * PerPage <= q * PerPage /\ p <= q
  BY <1>1, <1>2, ProductGrows DEF q
<1>4. (p - 1) * PerPage = p * PerPage - PerPage
  BY <1>1
<1>5. (p - 1) * PerPage \in Nat /\ p * PerPage \in Nat /\ q * PerPage \in Nat
  BY <1>1, <1>2
<1>6. QED BY <1>1, <1>2, <1>3, <1>4, <1>5

GalleryTyped(g) ==
    /\ g = [busy |-> g.busy, failed |-> g.failed, all |-> g.all, filter |-> g.filter, order |-> g.order, page |-> g.page]
    /\ g.all \subseteq Listable /\ g.filter \in Filters /\ g.order \in DOMAIN Rank /\ g.page \in Nat \ {0}

\* The page that is shown begins before the last match.
GalleryFits(g) ==
    /\ GalleryTyped(g)
    /\ Matching(g) # {} => (g.page - 1) * PerPage + 1 <= Cardinality(Matching(g))

LEMMA MatchesAreFinite ==
    ASSUME NEW g, GalleryTyped(g)
    PROVE  /\ Matching(g) \subseteq Listable /\ IsFiniteSet(Matching(g)) /\ Cardinality(Matching(g)) \in Nat
           /\ Matching(g) # {} => Cardinality(Matching(g)) # 0
<1>1. Matching(g) \subseteq Listable
  BY DEF GalleryTyped, Matching
<1>2. IsFiniteSet(Matching(g))
  BY <1>1, PageSizes, FS_Subset
<1>3. QED BY <1>1, <1>2, FS_CardinalityType, FS_EmptySet

\* The first page fits everything.
LEMMA FirstPageFits ==
    ASSUME NEW g, GalleryTyped(g), g.page = 1
    PROVE  GalleryFits(g)
<1>1. (1 - 1) * PerPage = 0
  BY PageSizes
<1>2. QED BY <1>1, MatchesAreFinite DEF GalleryFits

\* Every place from the first to the last is that of a match: no two share one.
LEMMA PlacesAreTaken ==
    ASSUME NEW g, GalleryTyped(g), NEW k \in 1..Cardinality(Matching(g))
    PROVE  \E c \in Matching(g) : Place(g, c) = k
<1> DEFINE M == Matching(g)
           n == Cardinality(M)
           r == Rank[g.order]
           upTo(c) == {d \in M : r[d] <= r[c]}
           f == [c \in M |-> Place(g, c)]
<1>1. /\ \A c \in M : r[c] \in Nat
      /\ \A c, d \in M : r[c] = r[d] => c = d
  BY PageSizes, MatchesAreFinite DEF GalleryTyped
<1>2. IsFiniteSet(M) /\ n \in Nat
  BY MatchesAreFinite
<1>3. ASSUME NEW c \in M
      PROVE  /\ Place(g, c) = Cardinality(upTo(c)) /\ IsFiniteSet(upTo(c)) /\ Place(g, c) \in 1..n
             /\ upTo(c) \subseteq M /\ c \in upTo(c)
  <2>1. upTo(c) \in SUBSET M /\ c \in upTo(c)
    BY <1>1
  <2>2. IsFiniteSet(upTo(c)) /\ Cardinality(upTo(c)) <= n /\ Cardinality(upTo(c)) \in Nat
    BY <1>2, <2>1, FS_Subset, FS_CardinalityType
  <2>3. Cardinality(upTo(c)) # 0
    BY <2>1, <2>2, FS_EmptySet
  <2>4. Place(g, c) = Cardinality(upTo(c))
    BY DEF Place
  <2> HIDE DEF upTo, n
  <2>5. Place(g, c) \in 1..n
    BY <1>2, <2>2, <2>3, <2>4
  <2>6. QED BY <2>1, <2>2, <2>4, <2>5
<1>4. ASSUME NEW c \in M, NEW d \in M, Place(g, c) = Place(g, d), r[c] <= r[d] PROVE c = d
  <2>1. upTo(c) \in SUBSET upTo(d)
    BY <1>1, <1>4
  <2>2. upTo(c) = upTo(d)
    <3> HIDE DEF upTo, M
    <3>1. Cardinality(upTo(d)) = Cardinality(upTo(c)) /\ IsFiniteSet(upTo(d))
      BY <1>3, <1>4
    <3>2. QED BY <2>1, <3>1, FS_Subset
  <2>3. d \in upTo(c)
    BY <1>3, <2>2
  <2>4. r[d] <= r[c]
    BY <2>3
  <2>5. QED BY <1>1, <1>4, <2>4
<1>5. \A c, d \in M : Place(g, c) = Place(g, d) => c = d
  <2>1. \A c, d \in M : r[c] <= r[d] \/ r[d] <= r[c]
    BY <1>1
  <2> HIDE DEF M, r
  <2>2. QED BY <1>4, <2>1
<1> HIDE DEF M, n
<1>6. f \in Injection(M, 1..n)
  <2>1. f \in [M -> 1..n]
    BY <1>3
  <2>2. QED BY <1>5, <2>1 DEF Injection, IsInjective
<1>7. IsFiniteSet(1..n) /\ Cardinality(1..n) = n /\ Cardinality(M) = n
  BY <1>2, FS_Interval DEF n
<1> HIDE DEF f
<1>8. f \in Surjection(M, 1..n)
  BY <1>6, <1>7, FS_Injection
<1>9. k \in 1..n
  BY DEF n, M
<1>10. PICK c \in M : f[c] = k
  BY <1>8, <1>9 DEF Surjection
<1>11. QED BY <1>10 DEF f, M

LEMMA SomethingIsVisible ==
    ASSUME NEW g, GalleryFits(g), Matching(g) # {}
    PROVE  Visible(g) # {}
<1> DEFINE b == (g.page - 1) * PerPage
           n == Cardinality(Matching(g))
<1>1. g.page \in Nat \ {0} /\ b + 1 <= n /\ n \in Nat /\ PerPage \in Nat /\ PerPage >= 1
  BY PageSizes, MatchesAreFinite DEF GalleryFits, GalleryTyped
<1>2. b \in Nat /\ g.page * PerPage = b + PerPage
  BY <1>1
<1> HIDE DEF b
<1>3. b + 1 \in 1..n
  BY <1>1, <1>2
<1>4. PICK c \in Matching(g) : Place(g, c) = b + 1
  BY <1>3, PlacesAreTaken DEF GalleryFits
<1>5. Place(g, c) \in b + 1..g.page * PerPage
  BY <1>1, <1>2, <1>4
<1>6. QED BY <1>4, <1>5 DEF Visible, b

LEMMA BlankGalleryShape ==
    \E o \in DOMAIN Rank, quiet \in BOOLEAN :
        BlankGallery = [busy |-> quiet, failed |-> quiet, all |-> {}, filter |-> "all", order |-> o, page |-> 1]
<1> DEFINE o == CHOOSE x \in DOMAIN Rank : TRUE
<1>1. o \in DOMAIN Rank
  BY CollectionPagesAssumption
<1>2. BlankGallery = [busy |-> FALSE, failed |-> FALSE, all |-> {}, filter |-> "all", order |-> o, page |-> 1]
  BY DEF BlankGallery
<1> HIDE DEF o
<1>3. QED BY <1>1, <1>2

LEMMA BlankGalleryFits == \A busy : GalleryFits([BlankGallery EXCEPT !.busy = busy])
<1> TAKE busy
<1> DEFINE g == [BlankGallery EXCEPT !.busy = busy]
<1>1. PICK o \in DOMAIN Rank, quiet \in BOOLEAN :
        BlankGallery = [busy |-> quiet, failed |-> quiet, all |-> {}, filter |-> "all", order |-> o, page |-> 1]
  BY BlankGalleryShape
<1>2. g = [busy |-> busy, failed |-> quiet, all |-> {}, filter |-> "all", order |-> o, page |-> 1]
  BY <1>1
<1> HIDE DEF g
<1>3. GalleryTyped(g) /\ g.page = 1
  BY <1>2 DEF GalleryTyped, Filters
<1>4. QED BY <1>3, FirstPageFits DEF g

-----------------------------------------------------------------------------
DraftFits(f) ==
    /\ f = [step |-> f.step, texts |-> f.texts, items |-> f.items, ordered |-> f.ordered, loaded |-> f.loaded,
            errors |-> f.errors, busy |-> f.busy, failed |-> f.failed, done |-> f.done]
    /\ f.texts \in [Fields -> Texts] /\ f.items \in Seq(Pieces)
    /\ f.items = f.ordered /\ Distinct(f.items)

\* A collection as it may be sent.
SentWell(x) ==
    /\ x = [items |-> x.items, ordered |-> x.ordered, texts |-> x.texts, step |-> x.step, from |-> x.from, open |-> x.open]
    /\ x.items \in Seq(Pieces) /\ x.items = x.ordered /\ x.items # <<>> /\ Distinct(x.items)
    /\ \A field \in Fields : x.texts[field] = "fits"

SentFits(s) == (\E S : s \in Seq(S)) /\ \A i \in DOMAIN s : SentWell(s[i])

PagesInv == DraftFits(draftForm) /\ SentFits(sent) /\ GalleryFits(gallery)

LEMMA BlankFormFits == DraftFits(BlankForm)
BY DEF DraftFits, BlankForm, Texts, Distinct

LEMMA SentAdds ==
    ASSUME NEW s, SentFits(s), NEW x, SentWell(x)
    PROVE  SentFits(Append(s, x))
<1>1. PICK S : s \in Seq(S)
  BY DEF SentFits
<1> DEFINE t == Append(s, x)
<1>2. s \in Seq(S \cup {x})
  <2>1. s \in [1..Len(s) -> S] /\ Len(s) \in Nat
    BY <1>1
  <2>2. s \in [1..Len(s) -> S \cup {x}]
    BY <2>1
  <2>3. QED BY <2>1, <2>2
<1>3. /\ t \in Seq(S \cup {x}) /\ Len(s) \in Nat /\ DOMAIN s = 1..Len(s) /\ DOMAIN t = 1..(Len(s) + 1)
      /\ t[Len(s) + 1] = x /\ \A i \in 1..Len(s) : t[i] = s[i]
  BY <1>2
<1> HIDE DEF t
<1>4. \A i \in DOMAIN t : i \in DOMAIN s \/ i = Len(s) + 1
  BY <1>3
<1>5. \A i \in DOMAIN t : SentWell(t[i])
  BY <1>3, <1>4 DEF SentFits
<1>6. QED BY <1>3, <1>5 DEF SentFits, t

LEMMA OpenPageFits ==
    ASSUME NEW p, OpenPage(p)
    PROVE  DraftFits(draftForm') /\ GalleryFits(gallery')
BY BlankFormFits, BlankGalleryFits DEF OpenPage

\* The steps on the form.
LEMMA DraftStep ==
    ASSUME PagesInv,
           \/ \E field \in Fields, text \in Texts : Enter(field, text)
           \/ StepOn \/ StepBack \/ PiecesLoaded
           \/ \E p \in Pieces : Toggle(p)
           \/ \E i, j \in 1..Cardinality(Pieces) : Move(i, j)
    PROVE  PagesInv'
<1> DEFINE f == draftForm
<1>1. DraftFits(f) /\ SentFits(sent) /\ GalleryFits(gallery)
  BY DEF PagesInv
<1>2. UNCHANGED <<sent, gallery>>
  BY DEF Enter, StepOn, StepBack, PiecesLoaded, Toggle, Move, OnForm
<1>3. ASSUME NEW field \in Fields, NEW text \in Texts, Enter(field, text) PROVE DraftFits(draftForm')
  <2>1. draftForm' = [f EXCEPT !.texts[field] = text]
    BY <1>3 DEF Enter, OnForm
  <2>2. PICK t \in [Fields -> Texts] : t = [f.texts EXCEPT ![field] = text]
    BY <1>1 DEF DraftFits
  <2>3. draftForm' = [step |-> f.step, texts |-> t, items |-> f.items, ordered |-> f.ordered, loaded |-> f.loaded,
                      errors |-> f.errors, busy |-> f.busy, failed |-> f.failed, done |-> f.done]
    BY <1>1, <2>1, <2>2 DEF DraftFits
  <2>4. QED BY <1>1, <2>3 DEF DraftFits
<1>4. ASSUME StepOn \/ StepBack \/ PiecesLoaded PROVE DraftFits(draftForm')
  <2>1. PICK k, l, e : draftForm' = [step |-> k, texts |-> f.texts, items |-> f.items, ordered |-> f.items, loaded |-> l,
                      errors |-> e, busy |-> f.busy, failed |-> f.failed, done |-> f.done]
    <3>1. f.ordered = f.items
      BY <1>1 DEF DraftFits
    <3>2. CASE StepOn
      BY <1>1, <3>1, <3>2 DEF StepOn, OnForm, DraftFits
    <3>3. CASE StepBack
      BY <1>1, <3>1, <3>3 DEF StepBack, OnForm, DraftFits
    <3>4. CASE PiecesLoaded
      BY <1>1, <3>1, <3>4 DEF PiecesLoaded, OnForm, DraftFits
    <3>5. QED BY <1>4, <3>2, <3>3, <3>4
  <2>2. QED BY <1>1, <2>1 DEF DraftFits
<1>5. ASSUME NEW items \in Seq(Pieces), Distinct(items), draftForm' = [f EXCEPT !.items = items, !.ordered = items]
      PROVE  DraftFits(draftForm')
  <2>1. draftForm' = [step |-> f.step, texts |-> f.texts, items |-> items, ordered |-> items, loaded |-> f.loaded,
                      errors |-> f.errors, busy |-> f.busy, failed |-> f.failed, done |-> f.done]
    BY <1>1, <1>5 DEF DraftFits
  <2>2. QED BY <1>1, <1>5, <2>1 DEF DraftFits
<1>6. ASSUME NEW p \in Pieces, Toggle(p) PROVE DraftFits(draftForm')
  <2> DEFINE items == Toggled(f.items, p)
  <2>1. f.items \in Seq(Pieces) /\ Distinct(f.items) /\ f.ordered = f.items
    BY <1>1 DEF DraftFits
  <2>2. items \in Seq(Pieces) /\ Distinct(items) /\ Reordered(f.items, items) = items
    BY <2>1, ToggledOrder
  <2>3. draftForm' = [f EXCEPT !.items = items, !.ordered = Reordered(f.ordered, items)]
    BY <1>6 DEF Toggle, OnForm
  <2> HIDE DEF items
  <2>4. QED BY <1>5, <2>1, <2>2, <2>3
<1>7. ASSUME NEW i \in 1..Cardinality(Pieces), NEW j \in 1..Cardinality(Pieces), Move(i, j) PROVE DraftFits(draftForm')
  <2> DEFINE items == Swapped(f.items, i, j)
  <2>1. f.items \in Seq(Pieces) /\ Distinct(f.items) /\ f.ordered = f.items /\ i \in DOMAIN f.items /\ j \in DOMAIN f.items
    BY <1>1, <1>7 DEF DraftFits, Move
  <2>2. items \in Seq(Pieces) /\ Distinct(items)
    BY <2>1, SwappedOrder
  <2>3. draftForm' = [f EXCEPT !.items = items, !.ordered = items]
    BY <1>7, <2>1 DEF Move, OnForm
  <2> HIDE DEF items
  <2>4. QED BY <1>5, <2>2, <2>3
<1>8. DraftFits(draftForm')
  BY <1>3, <1>4, <1>6, <1>7
<1>9. QED BY <1>1, <1>2, <1>8 DEF PagesInv

LEMMA SubmitStep ==
    ASSUME PagesInv, Submit
    PROVE  PagesInv'
<1> DEFINE f == draftForm
<1>1. DraftFits(f) /\ SentFits(sent) /\ GalleryFits(gallery) /\ gallery' = gallery
  BY DEF PagesInv, Submit, OnForm
<1>2. CASE Faults(f) # {}
  <2>1. sent' = sent
    BY <1>2 DEF Submit
  <2>2. PICK e : draftForm' = [step |-> f.step, texts |-> f.texts, items |-> f.items, ordered |-> f.ordered, loaded |-> f.loaded,
                               errors |-> e, busy |-> f.busy, failed |-> f.failed, done |-> f.done]
    BY <1>1, <1>2 DEF Submit, OnForm, DraftFits
  <2>3. DraftFits(draftForm')
    BY <1>1, <2>2 DEF DraftFits
  <2>4. QED BY <1>1, <2>1, <2>3 DEF PagesInv
<1>3. CASE Faults(f) = {}
  <2>1. f.items # <<>> /\ \A field \in Fields : f.texts[field] = "fits"
    BY <1>3 DEF Faults
  <2>2. PICK x : /\ sent' = Append(sent, x)
                 /\ x = [items |-> f.items, ordered |-> f.ordered, texts |-> f.texts, step |-> f.step,
                         from |-> mounts, open |-> TRUE]
    BY <1>3 DEF Submit
  <2>3. SentWell(x)
    BY <1>1, <2>1, <2>2 DEF SentWell, DraftFits
  <2>4. SentFits(sent')
    BY <1>1, <2>2, <2>3, SentAdds
  <2>5. draftForm' = [step |-> f.step, texts |-> f.texts, items |-> f.items, ordered |-> f.ordered, loaded |-> f.loaded,
                      errors |-> {}, busy |-> TRUE, failed |-> FALSE, done |-> f.done]
    BY <1>1, <1>3 DEF Submit, OnForm, DraftFits
  <2>6. DraftFits(draftForm')
    BY <1>1, <2>5 DEF DraftFits
  <2>7. QED BY <1>1, <2>4, <2>6 DEF PagesInv
<1>4. QED BY <1>2, <1>3

\* An answer marks the collection as done and the form it was sent from.
LEMMA CreatedStep ==
    ASSUME PagesInv, NEW i, NEW well \in BOOLEAN, Created(i, well)
    PROVE  PagesInv'
<1> DEFINE f == draftForm
<1>1. DraftFits(f) /\ SentFits(sent) /\ GalleryFits(gallery) /\ gallery' = gallery
  BY DEF PagesInv, Created
<1>2. i \in DOMAIN sent /\ sent' = [sent EXCEPT ![i].open = FALSE]
  BY DEF Created
<1>3. PICK x : x = [sent[i] EXCEPT !.open = FALSE]
  OBVIOUS
<1>4. SentWell(sent[i])
  BY <1>1, <1>2 DEF SentFits
<1>5. x = [items |-> sent[i].items, ordered |-> sent[i].ordered, texts |-> sent[i].texts, step |-> sent[i].step,
           from |-> sent[i].from, open |-> FALSE]
  BY <1>3, <1>4 DEF SentWell
<1>6. SentWell(x)
  BY <1>4, <1>5 DEF SentWell
<1>7. sent' = [sent EXCEPT ![i] = x]
  BY <1>2, <1>3
<1>8. SentFits(sent')
  <2>1. PICK S : sent \in Seq(S)
    BY <1>1 DEF SentFits
  <2>2. sent \in [1..Len(sent) -> S] /\ Len(sent) \in Nat /\ DOMAIN sent = 1..Len(sent)
    BY <2>1
  <2>3. sent' \in [1..Len(sent) -> S \cup {x}]
    BY <1>2, <1>7, <2>2
  <2>4. sent' \in Seq(S \cup {x})
    BY <2>2, <2>3
  <2>5. \A k \in DOMAIN sent' : sent'[k] = x \/ (sent'[k] = sent[k] /\ k \in DOMAIN sent)
    BY <1>7, <2>2
  <2>6. QED BY <1>1, <1>6, <2>4, <2>5 DEF SentFits
<1>9. DraftFits(draftForm')
  <2>1. CASE draftForm' = f
    BY <1>1, <2>1
  <2>2. CASE draftForm' = [f EXCEPT !.busy = FALSE, !.done = f.done \/ well, !.failed = f.failed \/ ~well]
    <3>1. PICK d, e : draftForm' = [step |-> f.step, texts |-> f.texts, items |-> f.items, ordered |-> f.ordered, loaded |-> f.loaded,
                      errors |-> f.errors, busy |-> FALSE, failed |-> d, done |-> e]
      BY <1>1, <2>2 DEF DraftFits
    <3>2. QED BY <1>1, <3>1 DEF DraftFits
  <2>3. QED BY <2>1, <2>2 DEF Created
<1>10. QED BY <1>1, <1>8, <1>9 DEF PagesInv

LEMMA GalleryStep ==
    ASSUME PagesInv,
           \/ GalleryFailed
           \/ \E cs \in SUBSET Listable : GalleryAnswered(cs)
           \/ \E f \in Filters, o \in DOMAIN Rank : Refine(f, o)
           \/ \E p \in 1..Cardinality(Listable) : GoToPage(p)
    PROVE  PagesInv'
<1> DEFINE g == gallery
<1>1. DraftFits(draftForm) /\ SentFits(sent) /\ GalleryFits(g) /\ GalleryTyped(g)
  BY DEF PagesInv, GalleryFits
<1>2. UNCHANGED <<draftForm, sent>>
  BY DEF GalleryFailed, GalleryAnswered, Refine, GoToPage, OnGallery
<1>4. ASSUME NEW cs \in SUBSET Listable, GalleryAnswered(cs) PROVE GalleryFits(gallery')
  <2>1. gallery' = [busy |-> FALSE, failed |-> g.failed, all |-> cs, filter |-> g.filter, order |-> g.order, page |-> 1]
    BY <1>1, <1>4 DEF GalleryAnswered, OnGallery, GalleryTyped
  <2>2. GalleryTyped(gallery') /\ gallery'.page = 1
    BY <1>1, <2>1 DEF GalleryTyped
  <2>3. QED BY <2>2, FirstPageFits
<1>5. ASSUME NEW f \in Filters, NEW o \in DOMAIN Rank, Refine(f, o) PROVE GalleryFits(gallery')
  <2>1. gallery' = [busy |-> g.busy, failed |-> g.failed, all |-> g.all, filter |-> f, order |-> o, page |-> 1]
    BY <1>1, <1>5 DEF Refine, OnGallery, GalleryTyped
  <2>2. GalleryTyped(gallery') /\ gallery'.page = 1
    BY <1>1, <2>1 DEF GalleryTyped
  <2>3. QED BY <2>2, FirstPageFits
<1>6. ASSUME NEW p \in 1..Cardinality(Listable), GoToPage(p) PROVE GalleryFits(gallery')
  <2>1. gallery' = [busy |-> g.busy, failed |-> g.failed, all |-> g.all, filter |-> g.filter, order |-> g.order, page |-> p]
        /\ p \in 1..GalleryPages(g)
    BY <1>1, <1>6 DEF GoToPage, OnGallery, GalleryTyped
  <2>2. GalleryTyped(gallery') /\ gallery'.page = p /\ Matching(gallery') = Matching(g) /\ p \in Nat \ {0}
    BY <1>1, <2>1 DEF GalleryTyped, Matching
  <2>3. Cardinality(Matching(g)) \in Nat
    BY <1>1, MatchesAreFinite
  <2>4. p <= (Cardinality(Matching(g)) + PerPage - 1) \div PerPage
    BY <2>1 DEF GalleryPages
  <2>5. (p - 1) * PerPage + 1 <= Cardinality(Matching(g))
    BY <2>2, <2>3, <2>4, PageBegins
  <2>6. QED BY <2>2, <2>5 DEF GalleryFits
<1>7. GalleryFits(gallery')
  <2>1. CASE GalleryFailed
    <3>1. gallery' = [busy |-> FALSE, failed |-> TRUE, all |-> g.all, filter |-> g.filter, order |-> g.order, page |-> g.page]
      BY <1>1, <2>1 DEF GalleryFailed, OnGallery, GalleryTyped
    <3>2. QED BY <1>1, <3>1 DEF GalleryFits, GalleryTyped, Matching
  <2>2. QED BY <1>4, <1>5, <1>6, <2>1
<1>8. QED BY <1>1, <1>2, <1>7 DEF PagesInv

\* Another page is mounted, blank.
LEMMA MountStep ==
    ASSUME PagesInv, NEW p, OpenPage(p), UNCHANGED sent
    PROVE  PagesInv'
BY OpenPageFits DEF PagesInv

LEMMA PagesInvariant == PagesSpec => []PagesInv
<1>1. PagesInit => PagesInv
  <2> SUFFICES ASSUME PagesInit PROVE PagesInv
    OBVIOUS
  <2>1. draftForm = BlankForm /\ sent = <<>> /\ gallery = BlankGallery
    BY DEF PagesInit
  <2>2. GalleryFits(gallery)
    <3>1. BlankGallery = [BlankGallery EXCEPT !.busy = BlankGallery.busy]
      BY BlankGalleryShape
    <3>2. QED BY <2>1, <3>1, BlankGalleryFits
  <2>3. SentFits(sent)
    <3>1. <<>> \in Seq({}) /\ DOMAIN <<>> = {}
      OBVIOUS
    <3>2. QED BY <2>1, <3>1 DEF SentFits
  <2>4. QED BY <2>1, <2>2, <2>3, BlankFormFits DEF PagesInv
<1>2. PagesInv /\ [PagesNext]_pagesVars => PagesInv'
  <2> SUFFICES ASSUME PagesInv, [PagesNext]_pagesVars PROVE PagesInv'
    OBVIOUS
  <2>1. ASSUME UNCHANGED <<draftForm, sent, gallery>> PROVE PagesInv'
    BY <2>1 DEF PagesInv
  <2>2. CASE UNCHANGED pagesVars
    BY <2>1, <2>2 DEF pagesVars
  <2>3. ASSUME NEW p, VisitPage(p) \/ Depart(p) PROVE PagesInv'
    BY <2>3, MountStep DEF VisitPage, Depart
  <2>4. CASE ViewCollection
    BY <2>4, MountStep DEF ViewCollection
  <2>5. ASSUME \/ Recategorise \/ Verify \/ VerifyFailed
               \/ \E p \in 1..MaxPages : TurnList(p)
               \/ \E a \in listPage.asked : ListFailed(a) \/ \E pages \in 0..MaxPages : ListAnswered(a, pages)
               \/ \E ids \in Subjects \cup {NoSubject} : EnterIds(ids)
               \/ \E valid \in BOOLEAN : VerifyAnswered(valid)
        PROVE  PagesInv'
    BY <2>1, <2>5 DEF Recategorise, Verify, VerifyFailed, TurnList, ListFailed, ListAnswered, EnterIds, VerifyAnswered,
                      OnList, OnVerify
  <2>6. QED BY <2>2, <2>3, <2>4, <2>5, DraftStep, SubmitStep, CreatedStep, GalleryStep DEF PagesNext
<1>3. QED BY <1>1, <1>2, PTL DEF PagesSpec

\* For any pieces, texts, collections and page size: a collection is sent with the pieces
\* in the order the selector showed last, none twice, and with texts that pass; and the
\* gallery shows something as long as something matches (CollectionCreationForm.tsx:90-104,
\* InscriptionSelector.tsx:55-92, CollectionGalleryGrid.tsx:39-96).
THEOREM PicksAreKept == PagesSpec => []PickedIsKept
<1>1. PagesInv => PickedIsKept
  BY SomethingIsVisible DEF PagesInv, SentFits, SentWell, Distinct, PickedIsKept
<1>2. QED BY <1>1, PagesInvariant, PTL
=============================================================================
