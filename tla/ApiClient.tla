----------------------------- MODULE ApiClient -----------------------------
(***************************************************************************)
(* The API's client of the credential service: fetchUtils.ts, the retries, *)
(* the classes of errors and the circuit breaker of apiUtils.ts            *)
(* (packages/ordinals-plus-api/src/utils), and the calls VCService makes   *)
(* through them.  Two breakers exist.  "client" guards client.request as   *)
(* createResilientClient wraps it; "service" guards issueCredential of     *)
(* VCService, whose client.post goes past the wrapping.  client.get has    *)
(* neither.                                                                *)
(***************************************************************************)
EXTENDS Naturals

CONSTANTS
    Fetches,            \* calls that may be under way at once
    Retries,            \* maxRetries
    FailureThreshold,
    SuccessThreshold,
    ResetTimeout,       \* in ticks
    MaxTicks            \* bound: ticks

ASSUME ApiClientAssumption ==
    /\ Retries \in Nat
    /\ FailureThreshold \in Nat \ {0}
    /\ SuccessThreshold \in Nat \ {0}
    /\ ResetTimeout \in Nat
    /\ MaxTicks \in Nat

VARIABLES
    clock,      \* Date.now(), in ticks
    circuit,    \* the two breakers
    fetching    \* what each call waits for

clientVars == <<clock, circuit, fetching>>

Breakers == {"client", "service"}
Kinds == {"request", "issue", "get"}

\* The reset timer is the time at which it is due, later than time 0.
NoTimer == 0

Circuits == [state : {"CLOSED", "OPEN", "HALF_OPEN"}, failures : Nat,
             successes : Nat, lastFailure : Nat, timer : Nat]

NoFetch == [at |-> "idle", kind |-> "get", attempt |-> 0, ok |-> FALSE]

FetchStates == [at : {"idle", "headers", "body", "backoff", "verifying"},
            kind : Kinds, attempt : 0..Retries, ok : BOOLEAN]

ClientInit ==
    /\ clock = 1
    /\ circuit = [b \in Breakers |->
                    [state |-> "CLOSED", failures |-> 0, successes |-> 0,
                     lastFailure |-> 0, timer |-> NoTimer]]
    /\ fetching = [f \in Fetches |-> NoFetch]

-----------------------------------------------------------------------------
(* CircuitBreaker, as functions from one breaker to what becomes of it.     *)

\* (mutant of ToClosed: the reset timer runs on)
ToClosedTicking(c) ==
    IF c.state = "CLOSED" THEN c
    ELSE [c EXCEPT !.state = "CLOSED", !.failures = 0, !.successes = 0]

ToClosed(c) ==
    IF c.state = "CLOSED" THEN c
    ELSE [c EXCEPT !.state = "CLOSED", !.failures = 0, !.successes = 0,
                   !.timer = NoTimer]

\* A timer that is set is replaced.
ToOpen(c) ==
    IF c.state = "OPEN" THEN c
    ELSE [c EXCEPT !.state = "OPEN", !.successes = 0,
                   !.timer = clock + ResetTimeout]

ToHalfOpen(c) ==
    IF c.state = "HALF_OPEN" THEN c
    ELSE [c EXCEPT !.state = "HALF_OPEN", !.successes = 0, !.timer = NoTimer]

\* Successes count in the trial only: they do not lower the failures of a
\* closed breaker.
OnSuccess(c) ==
    IF c.state # "HALF_OPEN" THEN c
    ELSE IF c.successes + 1 >= SuccessThreshold THEN ToClosed(c)
    ELSE [c EXCEPT !.successes = @ + 1]

\* isFailure: of these the client's breaker sees NetworkError only, and the
\* service's breaker none.
IsFailure(error) == error \in {"NetworkError", "ServerError"}

OnFailure(c, error) ==
    LET seen == [c EXCEPT !.lastFailure = clock]
    IN  IF ~IsFailure(error) THEN c
        ELSE IF c.state = "OPEN" THEN seen
        ELSE IF c.state = "HALF_OPEN" THEN ToOpen(seen)
        ELSE IF c.failures + 1 >= FailureThreshold
        THEN ToOpen([seen EXCEPT !.failures = @ + 1])
        ELSE [seen EXCEPT !.failures = @ + 1]

\* execute asks the time of the last failure, not the timer: each failure
\* that arrives while the breaker is open moves it.
Admits(c) == c.state = "OPEN" => clock >= c.lastFailure + ResetTimeout

Admitted(c) == IF c.state = "OPEN" THEN ToHalfOpen(c) ELSE c

-----------------------------------------------------------------------------
(* classifyFetchError recognises a fetch error by isNetworkError, which an  *)
(* error with a response does not have: every status ends as UNKNOWN_ERROR. *)
Classified(error) == IF error = "network" THEN "NetworkError" ELSE "UNKNOWN_ERROR"

IsRetryable(error) == error \in {"NetworkError", "ServerError", "RateLimitError"}

BreakerOf(kind) == IF kind = "issue" THEN "service" ELSE "client"

\* A rejected call changes nothing and is left out.
Call(f, kind) ==
    LET b == BreakerOf(kind)
    IN  /\ fetching[f].at = "idle"
        /\ fetching' = [fetching EXCEPT ![f] =
              [at |-> "headers", kind |-> kind, attempt |-> 0, ok |-> FALSE]]
        /\ IF kind = "get"
           THEN UNCHANGED circuit
           ELSE /\ Admits(circuit[b])
                /\ circuit' = [circuit EXCEPT ![b] = Admitted(@)]
        /\ UNCHANGED clock

\* The promise that execute awaits is settled; a get has nobody to tell.
Settle(f, b, after) ==
    /\ circuit' = [circuit EXCEPT ![b] =
                     IF fetching[f].kind = "get" THEN @ ELSE after]
    /\ fetching' = [fetching EXCEPT ![f] = NoFetch]

\* request throws.  Only the wrapped request classifies and retries; what
\* issueCredential's breaker gets is the error as it was thrown.
Throw(f, error) ==
    LET w == fetching[f]
        b == BreakerOf(w.kind)
    IN  IF w.kind # "request"
        THEN Settle(f, b, OnFailure(circuit[b], error))
        ELSE IF w.attempt < Retries /\ IsRetryable(Classified(error))
        THEN /\ fetching' = [fetching EXCEPT ![f].at = "backoff"]
             /\ UNCHANGED circuit
        ELSE Settle(f, b, OnFailure(circuit[b], Classified(error)))

\* fetchWithTimeout: refused, or aborted when the time is up.
FetchFails(f) ==
    /\ fetching[f].at = "headers"
    /\ Throw(f, "network")
    /\ UNCHANGED clock

\* The timer of the time-out is cleared here: the body has all the time.
HeadersArrive(f, ok) ==
    /\ fetching[f].at = "headers"
    /\ fetching' = [fetching EXCEPT ![f].at = "body", ![f].ok = ok]
    /\ UNCHANGED <<clock, circuit>>

\* processResponse: a body that cannot be read is null, and an error only if
\* the status is one; issueCredential trips over the null.
BodyRead(f, readable) ==
    LET w == fetching[f]
        b == BreakerOf(w.kind)
    IN  /\ w.at = "body"
        /\ IF ~w.ok THEN Throw(f, "status")
           ELSE IF w.kind # "issue" THEN Settle(f, b, OnSuccess(circuit[b]))
           ELSE IF readable
           THEN /\ fetching' = [fetching EXCEPT ![f].at = "verifying"]
                /\ UNCHANGED circuit
           ELSE Throw(f, "TypeError")
        /\ UNCHANGED clock

BackoffOver(f) ==
    /\ fetching[f].at = "backoff"
    /\ fetching' = [fetching EXCEPT ![f].at = "headers", ![f].attempt = @ + 1]
    /\ UNCHANGED <<clock, circuit>>

\* The issued credential is verified, and kept if the repository takes it;
\* one that does not verify is an ApiError.
IssuedVerified(f, valid) ==
    /\ fetching[f].at = "verifying"
    /\ Settle(f, "service",
              IF valid THEN OnSuccess(circuit["service"])
              ELSE OnFailure(circuit["service"], "VERIFICATION_FAILED"))
    /\ UNCHANGED clock

\* The timer is due; its callback may run any time later.
TimerFires(b) ==
    /\ circuit[b].timer # NoTimer
    /\ circuit[b].timer <= clock
    /\ circuit' = [circuit EXCEPT ![b] = ToHalfOpen(@)]
    /\ UNCHANGED <<clock, fetching>>

ResetBreaker(b) ==
    /\ circuit[b].state # "CLOSED"
    /\ circuit' = [circuit EXCEPT ![b] = ToClosed(@)]
    /\ UNCHANGED <<clock, fetching>>

ClientTick ==
    /\ clock < MaxTicks
    /\ clock' = clock + 1
    /\ UNCHANGED <<circuit, fetching>>

ClientNext ==
    \/ \E f \in Fetches :
         \/ \E kind \in Kinds : Call(f, kind)
         \/ FetchFails(f)
         \/ \E ok \in BOOLEAN : HeadersArrive(f, ok)
         \/ \E readable \in BOOLEAN : BodyRead(f, readable)
         \/ BackoffOver(f)
         \/ \E valid \in BOOLEAN : IssuedVerified(f, valid)
    \/ \E b \in Breakers : TimerFires(b) \/ ResetBreaker(b)
    \/ ClientTick

ClientSpec == ClientInit /\ [][ClientNext]_clientVars

-----------------------------------------------------------------------------
ClientTypeOK ==
    /\ clock \in Nat \ {0}
    /\ circuit \in [Breakers -> Circuits]
    /\ fetching \in [Fetches -> FetchStates]

\* A breaker is open exactly while its own reset timer runs: an open circuit
\* always gets its trial, also when nobody calls (execute would be the only
\* other way out), and no timer of an earlier opening is left to half-open a
\* circuit that was closed or opened again meanwhile.
OpenHasTimer ==
    \A b \in Breakers : circuit[b].state = "OPEN" <=> circuit[b].timer # NoTimer

\* A trial begins no sooner than ResetTimeout after the breaker opened,
\* whichever of the two clocks lets it in: the timer, or the time of the last
\* failure, which late failures of calls admitted earlier keep moving.
TrialsWait ==
    [][\A b \in Breakers :
         circuit[b].state # "HALF_OPEN" /\ circuit'[b].state = "HALF_OPEN"
           => circuit[b].timer # NoTimer /\ clock >= circuit[b].timer]_clientVars
=============================================================================
