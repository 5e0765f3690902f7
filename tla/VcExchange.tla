------------------------------ MODULE VcExchange ------------------------------
(***************************************************************************)
(* Credentials of a VC API provider for a resource that is inscribed: the  *)
(* providers and routes of the API (packages/ordinals-plus-api/src/config/ *)
(* vcApiConfig.ts, routers/vcApiRoutes.ts, services/vcApiService.ts), the  *)
(* explorer's settings, which leave the list of providers in the browser's *)
(* storage (components/settings/VCApiProviderSettings.tsx), and the page   *)
(* of the wizard that has an exchange made and takes part in it            *)
(* (components/inscription/MetadataStep.tsx).                              *)
(*                                                                         *)
(* A run is one click on "Continue" with a credential asked for; it goes   *)
(* on when the page is left.  A variable is a pair: the provider whose     *)
(* configuration brought it, and its name.                                 *)
(***************************************************************************)
EXTENDS Integers, FiniteSets, FiniteSetsExt

CONSTANTS
    Slots,           \* numbers of the providers that the environment may configure
    Environments,    \* sets of slots that it configures, from one start of the API to the next
    PreferredSlot,   \* VC_API_DEFAULT_PROVIDER
    Names,           \* [services -> variables in the workflow of each]
    NoProvider,
    Placeholder,     \* the service that an empty environment is taken to have
    MaxRuns,         \* bound: exchanges
    MaxStarts,       \* bound: restarts of the API
    MaxVisits        \* bound: pages opened, settings and metadata together

Services == Slots \cup {Placeholder}

ASSUME VcExchangeAssumption ==
    /\ Slots \subseteq Nat /\ 1 \in Slots /\ Environments \subseteq SUBSET Slots
    /\ {NoProvider, Placeholder} \cap Slots = {} /\ NoProvider # Placeholder
    /\ Names \in [Services -> SUBSET STRING]
    /\ MaxRuns \in Nat /\ MaxStarts \in Nat /\ MaxVisits \in Nat

VARIABLES
    environment,     \* what the API was started with
    starts,
    kept,            \* providers in the browser's storage
    settings,        \* the settings page
    form,            \* the metadata page
    runs,            \* [Runs -> what has become of each]
    metadata,        \* state.metadata of the wizard
    visits

vcVars == <<environment, starts, kept, settings, form, runs, metadata, visits>>

Runs == 1..MaxRuns

Opening == visits < MaxVisits /\ visits' = visits + 1

-----------------------------------------------------------------------------
(* The API. *)

\* Without any provider there is one with placeholder values.
ListedProviders(env) == IF env = {} THEN {1} ELSE env

DefaultProvider(env) ==
    IF PreferredSlot \in ListedProviders(env) THEN PreferredSlot ELSE Min(ListedProviders(env))

\* getVCApiProviderById: an unknown id is taken to be the default one's.
ProviderById(env, p) == IF p \in ListedProviders(env) THEN p ELSE DefaultProvider(env)

ServiceFor(p) == IF environment = {} THEN Placeholder ELSE ProviderById(environment, p)

\* The variables that are found in a workflow: those that its JSON has; if it is
\* none, those that look like one.
VariablesIn(workflow, service) == IF workflow = "plain" THEN {} ELSE Names[service]
Workflows == {"json", "broken", "plain"}

\* The names under which an exchange may have its id.
IdNames == {"id", "exchangeId", "_id", "exchange_id", "exchange.id"}

\* The API is started again, with an environment that may have changed.
ApiRestarts(env) ==
    /\ env # environment /\ starts < MaxStarts
    /\ environment' = env /\ starts' = starts + 1
    /\ UNCHANGED <<kept, settings, form, runs, metadata, visits>>

-----------------------------------------------------------------------------
(* The settings. *)
NoSettings == [open |-> FALSE, listing |-> FALSE, list |-> {}, sel |-> NoProvider,
               shows |-> NoProvider, asked |-> {}]

OpenSettings ==
    /\ ~settings.open /\ Opening
    /\ settings' = [NoSettings EXCEPT !.open = TRUE, !.listing = TRUE]
    /\ UNCHANGED <<environment, starts, kept, form, runs, metadata>>

LeaveSettings ==
    /\ settings.open /\ settings' = NoSettings
    /\ UNCHANGED <<environment, starts, kept, form, runs, metadata, visits>>

\* The list is kept for other pages, and its first provider selected.
Keep(list) ==
    /\ settings.listing
    /\ kept' = list
    /\ settings' = IF list = {} THEN [settings EXCEPT !.listing = FALSE, !.list = {}]
                   ELSE [settings EXCEPT !.listing = FALSE, !.list = list, !.sel = Min(list),
                                         !.asked = @ \cup {Min(list)}]
    /\ UNCHANGED <<environment, starts, form, runs, metadata, visits>>

ProvidersListed == Keep(ListedProviders(environment))

\* A failure is an empty list, which is kept as well.
ProvidersNotListed == Keep({})

\* The selection stays open while configurations are loaded.
SelectInSettings(p) ==
    /\ p \in settings.list /\ p # settings.sel
    /\ settings' = [settings EXCEPT !.sel = p, !.asked = @ \cup {p}]
    /\ UNCHANGED <<environment, starts, kept, form, runs, metadata, visits>>

SettingsAnswered(p) ==
    /\ p \in settings.asked
    /\ \E shown \in {p, NoProvider} :
          settings' = [settings EXCEPT !.asked = @ \ {p}, !.shows = shown]
    /\ UNCHANGED <<environment, starts, kept, form, runs, metadata, visits>>

-----------------------------------------------------------------------------
(* The metadata page. *)
NoConfig == [of |-> NoProvider, names |-> {}]
NoVariables == [keys |-> {}, typed |-> {}]
Standard == [vc |-> FALSE, provider |-> NoProvider, given |-> NoVariables, run |-> 0, credential |-> FALSE]

NoForm == [on |-> FALSE, vc |-> FALSE, sel |-> NoProvider, options |-> {}, config |-> NoConfig,
           vars |-> NoVariables, loading |-> FALSE, asked |-> {}, run |-> 0]

Asking(f, p) == [f EXCEPT !.loading = TRUE, !.asked = @ \cup {p}]

\* A page starts from the metadata and from what the storage keeps.  A provider that
\* is selected has its configuration loaded.
PageFor(m) ==
    LET f == [NoForm EXCEPT !.on = TRUE, !.vc = m.vc, !.sel = m.provider, !.options = kept]
    IN IF m.vc /\ m.provider # NoProvider THEN Asking(f, m.provider) ELSE f

EnterPage ==
    /\ ~form.on /\ Opening /\ form' = PageFor(metadata)
    /\ UNCHANGED <<environment, starts, kept, settings, runs, metadata>>

LeavePage ==
    /\ form.on /\ form' = NoForm
    /\ UNCHANGED <<environment, starts, kept, settings, runs, metadata, visits>>

\* The storage event of another tab.
OptionsFollow ==
    /\ form.on /\ form.options # kept
    /\ form' = [form EXCEPT !.options = kept]
    /\ UNCHANGED <<environment, starts, kept, settings, runs, metadata, visits>>

\* The switch is never disabled.
ToggleCredential ==
    /\ form.on
    /\ form' = [form EXCEPT !.vc = ~@, !.sel = IF form.vc THEN NoProvider ELSE @]
    /\ UNCHANGED <<environment, starts, kept, settings, runs, metadata, visits>>

Editable == form.on /\ form.vc /\ ~form.loading /\ form.run = 0

Selecting(p) ==
    LET f == [form EXCEPT !.sel = p, !.config = NoConfig, !.vars = NoVariables]
    IN IF p = NoProvider THEN f ELSE Asking(f, p)

\* (mutant of SelectProvider) the selection stays open while a configuration is loaded
SelectAnytime(p) ==
    /\ form.on /\ form.vc /\ form.run = 0 /\ p \in form.options \cup {NoProvider} /\ p # form.sel
    /\ form' = Selecting(p)
    /\ UNCHANGED <<environment, starts, kept, settings, runs, metadata, visits>>

SelectProvider(p) ==
    /\ Editable /\ p \in form.options \cup {NoProvider} /\ p # form.sel
    /\ form' = Selecting(p)
    /\ UNCHANGED <<environment, starts, kept, settings, runs, metadata, visits>>

\* A configuration that arrives is shown, and its variables are empty: the API sends
\* strings, which have no default.
ConfigArrives(p, workflow) ==
    LET names == VariablesIn(workflow, ServiceFor(p)) IN
    /\ p \in form.asked
    /\ form' = [form EXCEPT !.asked = @ \ {p}, !.loading = FALSE,
                            !.config = [of |-> p, names |-> names],
                            !.vars = [keys |-> {p} \X names, typed |-> {}]]
    /\ UNCHANGED <<environment, starts, kept, settings, runs, metadata, visits>>

ConfigFails(p) ==
    /\ p \in form.asked
    /\ form' = [form EXCEPT !.asked = @ \ {p}, !.loading = FALSE, !.config = NoConfig]
    /\ UNCHANGED <<environment, starts, kept, settings, runs, metadata, visits>>

EnterVariable(n) ==
    /\ Editable /\ n \in form.config.names
    /\ LET key == <<form.config.of, n>>
       IN form' = [form EXCEPT !.vars = [keys |-> @.keys \cup {key}, typed |-> @.typed \cup {key}]]
    /\ UNCHANGED <<environment, starts, kept, settings, runs, metadata, visits>>

-----------------------------------------------------------------------------
(* Exchanges. *)
NoRun == [phase |-> "unused", provider |-> NoProvider, given |-> NoVariables, at |-> NoProvider]
FailedRun == [NoRun EXCEPT !.phase = "ended"]

\* Nothing that the form has is required.
ContinueWithCredential(r) ==
    /\ form.on /\ form.vc /\ ~form.loading /\ form.run = 0 /\ form.sel # NoProvider
    /\ runs[r].phase = "unused" /\ \A q \in 1..(r - 1) : runs[q].phase # "unused"
    /\ runs' = [runs EXCEPT ![r] = [phase |-> "create", provider |-> form.sel,
                                    given |-> form.vars, at |-> NoProvider]]
    /\ form' = [form EXCEPT !.run = r]
    /\ UNCHANGED <<environment, starts, kept, settings, metadata, visits>>

ContinueWithout ==
    /\ form.on /\ ~form.vc /\ ~form.loading /\ form.run = 0
    /\ metadata' = Standard /\ form' = NoForm
    /\ UNCHANGED <<environment, starts, kept, settings, runs, visits>>

Ended(r) == form' = IF form.run = r THEN [form EXCEPT !.run = 0] ELSE form

\* The service makes an exchange; the answer has its id under one name, or none.
ExchangeMade(r, fields) ==
    /\ runs[r].phase = "create"
    /\ IF fields \cap IdNames # {}
       THEN runs' = [runs EXCEPT ![r].phase = "participate", ![r].at = ServiceFor(runs[r].provider)]
            /\ UNCHANGED form
       ELSE runs' = [runs EXCEPT ![r] = FailedRun] /\ Ended(r)
    /\ UNCHANGED <<environment, starts, kept, settings, metadata, visits>>

\* Either request fails: at the provider, at the API or on the way.
RunBreaksOff(r) ==
    /\ runs[r].phase \in {"create", "participate"}
    /\ runs' = [runs EXCEPT ![r] = FailedRun] /\ Ended(r)
    /\ UNCHANGED <<environment, starts, kept, settings, metadata, visits>>

\* nextStep of a page that is shown leaves it; from the page before, it is entered.
AfterNextStep(m) ==
    \/ form' = NoForm /\ UNCHANGED visits
    \/ ~form.on /\ form' = PageFor(m) /\ Opening

\* The request that takes part carries nothing, and only the service that has the
\* exchange can answer it, with a credential or without.
ExchangeJoined(r, issued) ==
    /\ runs[r].phase = "participate" /\ runs[r].at = ServiceFor(runs[r].provider)
    /\ runs' = [runs EXCEPT ![r].phase = "ended"]
    /\ metadata' = [vc |-> TRUE, provider |-> runs[r].provider, given |-> runs[r].given,
                    run |-> r, credential |-> issued]
    /\ AfterNextStep(metadata')
    /\ UNCHANGED <<environment, starts, kept, settings>>

-----------------------------------------------------------------------------
VcInit ==
    /\ environment \in Environments /\ starts = 0
    /\ kept = {} /\ settings = NoSettings
    /\ form = NoForm /\ metadata = Standard /\ visits = 0
    /\ runs = [r \in Runs |-> NoRun]

VcNext ==
    \/ \E env \in Environments : ApiRestarts(env)
    \/ OpenSettings \/ LeaveSettings \/ ProvidersListed \/ ProvidersNotListed
    \/ \E p \in Slots : SelectInSettings(p) \/ SettingsAnswered(p)
    \/ EnterPage \/ LeavePage \/ OptionsFollow \/ ToggleCredential \/ ContinueWithout
    \/ \E p \in Slots \cup {NoProvider} : SelectProvider(p)
    \/ \E p \in Slots : ConfigFails(p) \/ \E w \in Workflows : ConfigArrives(p, w)
    \/ \E n \in UNION {Names[s] : s \in Services} : EnterVariable(n)
    \/ \E r \in Runs :
          \/ ContinueWithCredential(r) \/ RunBreaksOff(r)
          \/ \E field \in {"exchange_id", "other"} : ExchangeMade(r, {field})
          \/ \E issued \in BOOLEAN : ExchangeJoined(r, issued)

VcSpec == VcInit /\ [][VcNext]_vcVars

-----------------------------------------------------------------------------
VcTypeOK ==
    /\ environment \in Environments /\ starts \in 0..MaxStarts /\ visits \in 0..MaxVisits
    /\ {kept, settings.list, settings.asked, form.options, form.asked} \subseteq SUBSET Slots
    /\ {settings.sel, settings.shows, form.sel, form.config.of, metadata.provider} \subseteq Slots \cup {NoProvider}
    /\ {settings.open, settings.listing, form.on, form.vc, form.loading, metadata.vc} \subseteq BOOLEAN
    /\ {form.run, metadata.run} \subseteq Runs \cup {0}
    /\ \A r \in Runs :
          /\ runs[r].phase \in {"unused", "create", "participate", "ended"}
          /\ runs[r].given.typed \subseteq runs[r].given.keys

\* An exchange is made with variables of the provider it is made at's name only, and
\* what the wizard keeps of it belongs together: the credential, the provider and the
\* variables are of one run, however pages were left, providers changed and answers
\* delayed (MetadataStep.tsx:295-335, 397-455).
ExchangeIsOfItsForm ==
    /\ \A r \in Runs : \A key \in runs[r].given.keys : key[1] = runs[r].provider
    /\ metadata.run # 0 =>
          LET run == runs[metadata.run] IN
          /\ metadata.provider = run.provider /\ metadata.given = run.given
          /\ run.phase = "ended" /\ run.at # NoProvider

\* Expected to fail: the credential was issued by the provider that was selected.  A
\* provider that is not configured any more is served by the default one.
IssuedBySelected ==
    metadata.credential => runs[metadata.run].at = metadata.provider

\* Expected to fail: no run that was begun later has ended in what the wizard keeps.
\* A page can be left and entered again while its exchange is awaited.
LastRunStands ==
    \A r \in Runs : runs[r].phase # "unused" /\ metadata.run # 0 => r <= metadata.run

\* Expected to fail: the settings show the configuration of the provider selected.
SettingsShowSelected ==
    settings.asked = {} => settings.shows \in {NoProvider, settings.sel}

\* Expected to fail: what is kept for the wizard are the providers of the API.
KeptAreListed ==
    ~settings.listing /\ settings.open => kept = ListedProviders(environment)
=============================================================================
