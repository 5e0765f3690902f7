---------------------------- MODULE ExplorerWallet ----------------------------
(***************************************************************************)
(* The wallet and the network of the explorer                              *)
(* (packages/ordinals-plus-explorer/src: hooks/useDirectWallet.ts,         *)
(* context/NetworkContext.tsx, components/WalletConnector.tsx) and the     *)
(* page that lists the wallet's UTXOs (pages/WalletUtxosPage.tsx).         *)
(*                                                                         *)
(* A wallet's type stands for its account, its address and its key.  The   *)
(* effect that asks the wallet for its network runs after every render     *)
(* that changed the connection or the network, and is never cancelled: any *)
(* number of its calls may be under way.  UniSat's user may switch its     *)
(* network whenever they like, and the hook listens to no event of it.     *)
(*                                                                         *)
(* main.tsx and App.tsx both mount the providers.  The pages are inside    *)
(* the inner ones; the inner NetworkProvider is outside the inner          *)
(* WalletProvider, and reads the outer wallet, which nobody connects.      *)
(***************************************************************************)
EXTENDS Integers, FiniteSets

CONSTANTS
    Networks,       \* types of networks, "mainnet" among them
    XverseNetwork,  \* the network of the address that Xverse answers with
    MaxUpdates,     \* bound: getNetwork calls under way when the user clicks
    MaxListings     \* bound: listings of UTXOs under way

Wallets == {"unisat", "xverse", "magiceden"}
NoWallet == "none"
NoNetwork == "unknown"

ASSUME ExplorerWalletAssumption ==
    /\ "mainnet" \in Networks /\ NoNetwork \notin Networks
    /\ XverseNetwork \in Networks
    /\ MaxUpdates \in Nat /\ MaxListings \in Nat

VARIABLES
    \* useDirectWallet
    detected,    \* hasUnisat, hasXverse, hasMagicEden
    rechecked,   \* the second check has happened
    wallet,      \* connected, walletType, address, publicKey
    walletNet,   \* network
    isConnecting,
    connects,    \* calls of connect under way
    updates,     \* getNetwork calls of updateNetwork under way
    menu,        \* isOpen of the WalletConnector
    \* UniSat
    unisatNet,   \* the network that its user has set
    span,        \* (history) its networks since it was first asked, of the calls under
                 \* way or, with none, of the last ones
    \* NetworkContext
    available,   \* availableNetworks
    selected,    \* selectedNetwork
    stored,      \* the two keys in localStorage
    fetching,    \* getNetworks is under way
    initial,     \* the selection when it was called
    \* WalletUtxosPage
    onPage,      \* it is mounted
    listings,    \* fetchUtxos calls under way
    listed       \* what utxos shows: nothing, or a wallet and a network

hookVars == <<detected, rechecked, wallet, walletNet, updates>>
connectVars == <<isConnecting, connects, menu>>
contextVars == <<available, selected, stored, fetching, initial>>
utxoPage == <<onPage, listings, listed>>
unisatVars == <<unisatNet, span>>
walletVars == <<hookVars, connectVars, contextVars, utxoPage, unisatVars>>

Shown == [of : Wallets, on : Networks]
Nothing == {}

\* getInitialNetwork: what is stored, if it is mainnet or signet.
WalletInit ==
    /\ detected \in SUBSET Wallets /\ rechecked = FALSE
    /\ wallet = NoWallet /\ walletNet = NoNetwork /\ updates = 0
    /\ isConnecting = FALSE /\ connects = {} /\ menu = FALSE
    /\ stored \in {"mainnet", "signet"} \cap Networks
    /\ selected = stored /\ initial = stored
    /\ available = {"mainnet", "signet"} \cap Networks /\ fetching = TRUE
    /\ onPage = FALSE /\ listings = {} /\ listed = Nothing
    /\ unisatNet \in Networks /\ span = {unisatNet}

(***************************************************************************)
(* UniSat.                                                                 *)
(***************************************************************************)
\* It is asked for its network by the effect and by connect.
Asked == updates > 0 \/ "unisat" \in connects

\* What UniSat may answer when it is asked while nothing else is begins here.
SpanFrom == span' = IF ~Asked /\ Asked' THEN {unisatNet} ELSE span

\* Its user switches networks.  The page is not told: there is no listener.
SwitchNetwork(n) ==
    /\ "unisat" \in detected /\ n # unisatNet
    /\ unisatNet' = n
    /\ span' = IF Asked \/ wallet = "unisat" THEN span \cup {n} ELSE {n}
    /\ UNCHANGED <<hookVars, connectVars, contextVars, utxoPage>>

(***************************************************************************)
(* Renders.                                                                *)
(***************************************************************************)
\* activeNetwork, for a wallet w on network n.
ActiveFor(w, n) ==
    IF w # NoWallet /\ n \in available THEN n ELSE selected

\* The network of the pages: the wallet that the context sees is never connected.
ActiveNetwork == ActiveFor(NoWallet, NoNetwork)

\* currentNetworkType of the page.
PageNetwork(n, s) == IF n # NoNetwork THEN n ELSE s

\* (mutant of UpdateEffect) the effect depends on the connection only
UpdateOnConnection(w, n, pending) ==
    /\ walletNet' = CASE w = wallet -> n
                      [] w = NoWallet -> NoNetwork
                      [] w = "magiceden" -> "mainnet"
                      [] OTHER -> n
    /\ updates' = IF w = "unisat" /\ w # wallet THEN pending + 1 ELSE pending

\* updateNetwork in its effect, after a render with wallet w on network n.
UpdateEffect(w, n, pending) ==
    IF <<w, n>> = <<wallet, walletNet>> THEN walletNet' = n /\ updates' = pending
    ELSE /\ \/ w = NoWallet /\ walletNet' = NoNetwork
            \/ w = "magiceden" /\ walletNet' = "mainnet"
            \/ w \notin {NoWallet, "magiceden"} /\ walletNet' = n
         /\ updates' = IF w = "unisat" THEN pending + 1 ELSE pending

\* The page lists the UTXOs again when what it lists them of has changed.
ListEffect ==
    /\ UNCHANGED <<onPage, listed>>
    /\ listings' = IF onPage /\ wallet' # NoWallet
                      /\ \/ wallet' # wallet
                         \/ PageNetwork(walletNet', selected') # PageNetwork(walletNet, selected)
                   THEN listings \cup {[of |-> wallet', on |-> PageNetwork(walletNet', selected')]}
                   ELSE listings

Render(w, n, pending) ==
    /\ wallet' = w
    /\ UpdateEffect(w, n, pending)
    /\ SpanFrom
    /\ UNCHANGED <<detected, rechecked, contextVars, unisatNet>>
    /\ ListEffect

MayClick == updates < MaxUpdates /\ Cardinality(listings) < MaxListings

(***************************************************************************)
(* useDirectWallet                                                         *)
(***************************************************************************)
\* checkWallets, once more after a second.
Recheck(found) ==
    /\ ~rechecked /\ rechecked' = TRUE
    /\ detected \subseteq found /\ detected' = found
    /\ IF wallet = "unisat" /\ found # detected THEN updates' = updates + 1 ELSE UNCHANGED updates
    /\ UNCHANGED <<wallet, walletNet, connectVars, contextVars, utxoPage, unisatNet>>
    /\ SpanFrom

\* toggleDropdown while no wallet is connected.
ToggleMenu ==
    /\ ~isConnecting /\ wallet = NoWallet
    /\ menu' = ~menu
    /\ UNCHANGED <<hookVars, isConnecting, connects, contextVars, utxoPage, unisatVars>>

\* The menu stays open until connect has an answer, with all its items.
Connect(w) ==
    /\ menu /\ wallet = NoWallet /\ w \in detected /\ w \notin connects /\ MayClick
    /\ connects' = connects \cup {w}
    /\ isConnecting' = TRUE
    /\ UNCHANGED menu
    /\ Render(wallet, NoNetwork, updates)

ConnectEnds(w) ==
    /\ w \in connects /\ connects' = connects \ {w}
    /\ isConnecting' = FALSE /\ menu' = FALSE

\* The networks that may be named for wallet w.  UniSat is on any that it was on
\* since it was asked; it may also answer with an account and fail to name one.
NamedFor(w) ==
    CASE w = "unisat"    -> span \cup {NoNetwork}
      [] w = "xverse"    -> {XverseNetwork}
      [] w = "magiceden" -> {"mainnet"}

Connected(w, n) ==
    /\ ConnectEnds(w)
    /\ n \in NamedFor(w)
    /\ Render(w, n, updates)

\* Rejected, or no accounts: whatever is connected by now is reset.
ConnectFails(w) ==
    /\ ConnectEnds(w)
    /\ Render(NoWallet, NoNetwork, updates)

\* Magic Eden answers without an address: neither connected nor reset.
ConnectedNowhere(w) ==
    /\ w = "magiceden"
    /\ ConnectEnds(w)
    /\ Render(wallet, walletNet, updates)

\* The state is reset at once; connects and updates under way go on.
Disconnect ==
    /\ wallet # NoWallet /\ ~isConnecting /\ MayClick
    /\ UNCHANGED connectVars
    /\ Render(NoWallet, NoNetwork, updates)

\* The answer is written whatever wallet is connected by then.
NetworkAnswered(n) ==
    /\ updates > 0
    /\ n \in NamedFor("unisat")
    /\ UNCHANGED connectVars
    /\ Render(wallet, n, updates - 1)

(***************************************************************************)
(* NetworkContext                                                          *)
(***************************************************************************)
\* The list replaces the one it starts with; the selection is the one that was
\* there when the list was asked for, if it is in it.
NetworksFetched(list) ==
    /\ fetching /\ fetching' = FALSE
    /\ available' = list
    /\ selected' \in CASE initial \in list -> {initial}
                       [] list = {} -> {selected}
                       [] "mainnet" \in list -> {"mainnet"}
                       [] OTHER -> list
    /\ UNCHANGED <<hookVars, connectVars, stored, initial, unisatVars>>
    /\ ListEffect

FetchFails ==
    /\ fetching /\ fetching' = FALSE
    /\ UNCHANGED <<hookVars, connectVars, available, selected, stored, initial, utxoPage, unisatVars>>

\* handleSetNetwork, from a select that is disabled while a wallet is connected.
SelectNetwork(n) ==
    /\ wallet = NoWallet /\ n \in available
    /\ selected' = n /\ stored' = n
    /\ UNCHANGED <<hookVars, connectVars, available, fetching, initial, unisatVars>>
    /\ ListEffect

(***************************************************************************)
(* WalletUtxosPage.  Listings are answered in any order, and each answer   *)
(* is shown; those of a page that was left are not.                        *)
(***************************************************************************)
OpenUtxos ==
    /\ ~onPage /\ onPage' = TRUE
    /\ menu' = FALSE
    /\ listed' = Nothing
    /\ listings' = IF wallet = NoWallet THEN {}
                   ELSE {[of |-> wallet, on |-> PageNetwork(walletNet, ActiveNetwork)]}
    /\ UNCHANGED <<hookVars, isConnecting, connects, contextVars, unisatVars>>

LeaveUtxos ==
    /\ onPage /\ onPage' = FALSE
    /\ menu' = FALSE /\ listings' = {} /\ listed' = Nothing
    /\ UNCHANGED <<hookVars, isConnecting, connects, contextVars, unisatVars>>

\* The "Refresh" button.
RefreshUtxos ==
    /\ onPage /\ wallet # NoWallet /\ listings = {} /\ MayClick
    /\ listings' = {[of |-> wallet, on |-> PageNetwork(walletNet, ActiveNetwork)]}
    /\ UNCHANGED <<hookVars, connectVars, contextVars, onPage, listed, unisatVars>>

\* On an error the page shows what it had.
UtxosListed(l) ==
    /\ l \in listings /\ listings' = listings \ {l}
    /\ listed' \in {{l}, listed}
    /\ UNCHANGED <<hookVars, connectVars, contextVars, onPage, unisatVars>>

\* The tab is reloaded.
ReloadApp ==
    /\ ~fetching
    /\ detected' \in SUBSET detected /\ rechecked' = FALSE
    /\ wallet' = NoWallet /\ walletNet' = NoNetwork /\ updates' = 0
    /\ isConnecting' = FALSE /\ connects' = {} /\ menu' = FALSE
    /\ selected' = IF stored \in {"mainnet", "signet"} THEN stored ELSE "mainnet"
    /\ initial' = selected' /\ stored' = stored
    /\ available' = {"mainnet", "signet"} \cap Networks /\ fetching' = TRUE
    /\ onPage' = FALSE /\ listings' = {} /\ listed' = Nothing
    /\ unisatNet' = unisatNet /\ span' = {unisatNet}

WalletNext ==
    \/ \E found \in SUBSET Wallets : Recheck(found)
    \/ ToggleMenu \/ Disconnect
    \/ \E w \in Wallets :
        \/ Connect(w) \/ ConnectFails(w) \/ ConnectedNowhere(w)
        \/ \E n \in Networks \cup {NoNetwork} : Connected(w, n)
    \/ \E n \in Networks \cup {NoNetwork} : NetworkAnswered(n)
    \/ \E n \in Networks : SwitchNetwork(n)
    \/ \E list \in SUBSET Networks : NetworksFetched(list)
    \/ FetchFails \/ \E n \in Networks : SelectNetwork(n)
    \/ OpenUtxos \/ LeaveUtxos \/ RefreshUtxos
    \/ \E l \in listings : UtxosListed(l)
    \/ ReloadApp

WalletSpec == WalletInit /\ [][WalletNext]_walletVars

-----------------------------------------------------------------------------
ExplorerWalletTypeOK ==
    /\ detected \subseteq Wallets /\ rechecked \in BOOLEAN
    /\ wallet \in Wallets \cup {NoWallet} /\ walletNet \in Networks \cup {NoNetwork}
    /\ updates \in 0..(MaxUpdates + 4)
    /\ isConnecting \in BOOLEAN /\ connects \subseteq Wallets /\ menu \in BOOLEAN
    /\ available \subseteq Networks /\ {selected, stored, initial} \subseteq Networks
    /\ fetching \in BOOLEAN /\ onPage \in BOOLEAN
    /\ listings \subseteq Shown /\ listed \subseteq Shown /\ Cardinality(listed) <= 1
    /\ span \subseteq Networks /\ unisatNet \in span

\* The network settles: once no question about it is open it is unknown without a
\* wallet, mainnet with Magic Eden, and with UniSat a network that UniSat has been on
\* since it was first asked, the one it is on if its user has not switched since;
\* although answers for a wallet that was disconnected or replaced meanwhile are
\* written as they come (useDirectWallet.ts:84-123, "Added network dependency").
NetworkSettles ==
    updates = 0 =>
        /\ wallet = NoWallet => walletNet = NoNetwork
        /\ wallet = "magiceden" => walletNet = "mainnet"
        /\ wallet = "unisat" => walletNet \in span \cup {NoNetwork}

\* Expected to fail.  "Update network state when wallet connection changes"
\* (useDirectWallet.ts:83): a switch inside UniSat changes nothing that the effect
\* depends on, so the page keeps the network that UniSat has left.
NetworkFollowsSwitch ==
    updates = 0 /\ wallet = "unisat" => walletNet \in {unisatNet, NoNetwork}

\* Expected to fail.  "Keep existing network state" (useDirectWallet.ts:108):
\* for Xverse a late answer of UniSat is what is kept.
XverseKeepsItsNetwork == updates = 0 /\ wallet = "xverse" => walletNet = XverseNetwork

\* Expected to fail.  "Network selection follows the connected wallet"
\* (SettingsPage.tsx): the context sees the wallet of the outer provider.
NetworkFollowsWallet ==
    wallet # NoWallet /\ walletNet \in available => ActiveNetwork = walletNet

\* Expected to fail.  What is selected is what is stored for the next visit and
\* for the readers of localStorage: a list that arrives after a selection
\* reverts the selection and not what is stored (NetworkContext.tsx:104-114).
SelectedIsStored == selected = stored

\* Expected to fail.  With nothing under way the page lists the UTXOs of the
\* wallet that is connected (WalletUtxosPage.tsx:318): an earlier listing may
\* be answered last.
ListedIsConnected ==
    onPage /\ wallet # NoWallet /\ listings = {} => \A l \in listed : l.of = wallet
=============================================================================
