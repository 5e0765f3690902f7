--------------------------- MODULE IndexerClient ---------------------------
(***************************************************************************)
(* The resilience of the library's indexer client                          *)
(* (packages/ordinalsplus/src/indexer): calls of OrdinalsIndexer run under *)
(* ErrorHandler.handle, which wraps withRetry around CircuitBreaker.execute*)
(* and writes what it holds unrecoverable to the dead letter queue.        *)
(* Operations nest: processInscriptionMetadata calls getInscriptionMetadata*)
(* which calls getInscriptionById, each under a handle of its own, all on  *)
(* one breaker.  A call is a thread of control that other calls interleave *)
(* at every await.                                                         *)
(***************************************************************************)
EXTENDS Naturals, Sequences

CONSTANTS
    Tasks,              \* concurrent calls of the client
    Handlers,           \* ErrorHandler instances sharing the service key
    HandlerOf,          \* the handler each task calls through
    Called,             \* operations called from outside
    Ids,                \* inscription ids asked for
    WithMetadata,       \* ids whose inscription has metadata
    MaxRetries,         \* retryOptions.maxRetries
    FailureThreshold,   \* breaker options.failureThreshold
    HalfOpenMax         \* breaker options.halfOpenMaxAttempts

ASSUME ClientAssumption ==
    /\ HandlerOf \in [Tasks -> Handlers]
    /\ Called \subseteq {"getInscriptionById", "getInscriptionMetadata",
                         "processInscriptionMetadata"}
    /\ MaxRetries \in Nat
    /\ FailureThreshold \in Nat \ {0}
    /\ HalfOpenMax \in Nat \ {0}

VARIABLES
    breaker,   \* the shared state of the service key, and each instance's trials
    id,        \* the inscription each task asks for
    at,        \* where each handle of each task is
    tries,     \* withRetry's attempt counter, by task and operation
    reply,     \* what the awaited promise of a task settled with
    db,        \* the IndexerDatabase: ids with each kind of data stored
    dlq,       \* entries of the dead letter queue, by task, for its last call
    sent       \* HTTP requests of each task's call under way

vars == <<breaker, id, at, tries, reply, db, dlq, sent>>

ById == "getInscriptionById"
Metadata == "getInscriptionMetadata"
Process == "processInscriptionMetadata"
Ops == {ById, Metadata, Process}

\* processInscriptionMetadata runs with useCircuitBreaker: false.
Guarded == {ById, Metadata}

\* The operation an operation awaits in its body.
Inner == [o \in {Metadata, Process} |-> IF o = Process THEN Metadata ELSE ById]

Stages == {"idle", "attempt", "lookup", "fetching", "nested", "settled", "backoff"}

\* What fetch throws, raw: no response, a status such as 503, status 404.
Raw == {"network", "busy", "notFound"}
\* IndexerIntegrationErrors, by their isTransient.
Transient == {"NetworkError", "CircuitBreakerOpenError"}
Permanent == {"DataParsingError", "UnknownError:busy", "UnknownError:notFound"}
Errors == Raw \cup Transient \cup Permanent

\* What fetch returns: data, data that is no valid CBOR, or null for a body
\* that could not be read, which processResponse does not report.
Bodies == {"response", "garbled", "empty"}
\* What operations return.
Results == {"found", "decoded", "stored", "none"}
Pending == "pending"

\* transformError: only a fetch error without a response has isNetworkError
\* set, so an error with a status is not recognised and becomes the generic
\* IndexerIntegrationError, which is not transient.
Transformed(e) ==
    CASE e = "network" -> "NetworkError"
      [] e = "busy" -> "UnknownError:busy"
      [] e = "notFound" -> "UnknownError:notFound"
      [] OTHER -> e

-----------------------------------------------------------------------------
(* The circuit breaker.  Of the failure count only "below the threshold" is *)
(* told apart, so it stops there; cooled says that resetTimeout has passed  *)
(* since lastFailureTime.                                                   *)

UpTo(n, bound) == IF n < bound THEN n ELSE bound

\* updateState
Refreshed(h) ==
    IF breaker.status = "open" /\ breaker.cooled
    THEN [breaker EXCEPT !.status = "half-open", !.trials[h] = 0]
    ELSE breaker

\* (mutant of AfterSuccess: any success closes)
ClosedByAnySuccess(h) ==
    [breaker EXCEPT !.status = "closed", !.failures = 0, !.trials[h] = 0]

\* (mutant of AfterSuccess: only the first trial can close)
ClosedByFirstTrial(h) ==
    IF breaker.status = "half-open" /\ breaker.trials[h] = 0
    THEN [breaker EXCEPT !.status = "closed", !.failures = 0]
    ELSE breaker

\* execute, when fn returned
AfterSuccess(h) ==
    IF breaker.status = "half-open"
    THEN [breaker EXCEPT !.status = "closed", !.failures = 0, !.trials[h] = 0]
    ELSE breaker

\* handleFailure: raw errors count, whatever their status
AfterFailure(h, e) ==
    LET counted == [breaker EXCEPT !.failures = UpTo(@ + 1, FailureThreshold),
                                   !.cooled = FALSE]
        trials == UpTo(breaker.trials[h] + 1, HalfOpenMax)
    IN  CASE e \in Permanent -> breaker
          [] e \notin Permanent /\ breaker.status = "half-open" ->
                [counted EXCEPT !.trials[h] = trials,
                    !.status = IF trials = HalfOpenMax THEN "open" ELSE @]
          [] OTHER ->
                [counted EXCEPT
                    !.status = IF counted.failures = FailureThreshold
                               THEN "open" ELSE @]

\* Between a settled promise and the code that awaits it, and between a timer
\* or a call and execute's check, no other event is handled: those steps are
\* microtasks of one turn of the event loop.
Quiet == \A t \in Tasks, o \in Ops : at[t][o] \notin {"attempt", "settled"}

\* resetTimeout passes without a counted failure.
Cool ==
    /\ Quiet
    /\ ~breaker.cooled
    /\ breaker' = [breaker EXCEPT !.cooled = TRUE]
    /\ UNCHANGED <<id, at, tries, reply, db, dlq, sent>>

-----------------------------------------------------------------------------
(* ErrorHandler.handle and withRetry.                                       *)

\* The operation that awaits operation o of task t, as a set of at most one.
Callers(t, o) ==
    {c \in DOMAIN Inner : Inner[c] = o /\ at[t][c] = "nested"}

\* Operation o of task t settles with v: its caller, if any, goes on with it.
Leave(t, o, v) ==
    /\ at' = [at EXCEPT ![t] =
                [p \in Ops |-> IF p = o THEN "idle"
                               ELSE IF p \in Callers(t, o) THEN "settled"
                               ELSE at[t][p]]]
    /\ reply' = [reply EXCEPT ![t] = v]
    /\ tries' = [tries EXCEPT ![t][o] = 0]
    /\ sent' = IF Callers(t, o) = {} THEN [sent EXCEPT ![t] = 0] ELSE sent

\* The body of o returned v.
Return(t, o, v) ==
    /\ breaker' = IF o \in Guarded THEN AfterSuccess(HandlerOf[t]) ELSE breaker
    /\ Leave(t, o, v)
    /\ UNCHANGED dlq

RetriesLeft(t, o) == tries[t][o] < MaxRetries

\* (mutant of Retriable: every error is tried again)
RetriableAll(e) == TRUE

\* withRetry's default: a raw error is no IndexerIntegrationError.
Retriable(e) == e \in Transient

\* An attempt of o failed with e: another one after a delay, or the error goes
\* through handle's catch, to the queue when it is not transient, and out.
AttemptFailed(t, o, e) ==
    \/ /\ Retriable(e) /\ RetriesLeft(t, o)
       /\ at' = [at EXCEPT ![t][o] = "backoff"]
       /\ reply' = [reply EXCEPT ![t] = Pending]
       /\ UNCHANGED <<tries, dlq, sent>>
    \/ /\ ~(Retriable(e) /\ RetriesLeft(t, o))
       /\ Leave(t, o, Transformed(e))
       /\ dlq' = IF Transformed(e) \in Permanent
                 THEN [dlq EXCEPT ![t] = Append(@, [operation |-> o,
                                                    error |-> Transformed(e)])]
                 ELSE dlq

\* The body of o threw the error it awaited.
Throw(t, o, e) ==
    /\ breaker' = IF o \in Guarded
                  THEN AfterFailure(HandlerOf[t], e) ELSE breaker
    /\ AttemptFailed(t, o, e)

Over(t) == \A o \in Ops : at[t][o] = "idle"

\* The application, or a sync, calls operation o for inscription i.
Call(t, o, i) ==
    /\ Quiet /\ Over(t)
    /\ id' = [id EXCEPT ![t] = i]
    /\ at' = [at EXCEPT ![t][o] = "attempt"]
    /\ reply' = [reply EXCEPT ![t] = Pending]
    /\ dlq' = [dlq EXCEPT ![t] = << >>]
    /\ UNCHANGED <<breaker, tries, db, sent>>

\* execute enters: an open breaker refuses, outside its own try.
Attempt(t, o) ==
    /\ at[t][o] = "attempt"
    /\ breaker' = IF o \in Guarded THEN Refreshed(HandlerOf[t]) ELSE breaker
    /\ \/ /\ o \in Guarded /\ breaker'.status = "open"
          /\ AttemptFailed(t, o, "CircuitBreakerOpenError")
       \/ /\ ~(o \in Guarded /\ breaker'.status = "open")
          /\ at' = [at EXCEPT ![t][o] = "lookup"]
          /\ UNCHANGED <<tries, reply, dlq, sent>>
    /\ UNCHANGED <<id, db>>

\* (mutant of Retry: the attempt is not counted)
RetryUncounted(t, o) ==
    /\ Quiet /\ at[t][o] = "backoff"
    /\ at' = [at EXCEPT ![t][o] = "attempt"]
    /\ UNCHANGED <<breaker, id, tries, reply, db, dlq, sent>>

\* The delay between two attempts is over.
Retry(t, o) ==
    /\ Quiet /\ at[t][o] = "backoff"
    /\ at' = [at EXCEPT ![t][o] = "attempt"]
    /\ tries' = [tries EXCEPT ![t][o] = @ + 1]
    /\ UNCHANGED <<breaker, id, reply, db, dlq, sent>>

-----------------------------------------------------------------------------
(* The bodies of the operations.                                            *)

\* The ids whose cached data answers o at once.
Cached(o) ==
    CASE o = ById -> db.inscriptions
      [] o = Metadata -> db.metadata
      [] o = Process -> {}

\* The most requests a call should make; sent stops one above it.
MaxRequests == (MaxRetries + 1) * (MaxRetries + 1) + 1

Request(t, o) ==
    /\ at' = [at EXCEPT ![t][o] = "fetching"]
    /\ reply' = [reply EXCEPT ![t] = Pending]
    /\ sent' = [sent EXCEPT ![t] = UpTo(@ + 1, MaxRequests + 1)]

\* The database is read; a miss goes to the network or to the inner operation.
Lookup(t, o) ==
    /\ Quiet /\ at[t][o] = "lookup"
    /\ \/ /\ id[t] \in Cached(o)
          /\ Return(t, o, IF o = ById THEN "found" ELSE "decoded")
       \/ /\ id[t] \notin Cached(o) /\ o = ById
          /\ Request(t, o)
          /\ UNCHANGED <<breaker, tries, dlq>>
       \/ /\ id[t] \notin Cached(o) /\ o # ById
          /\ at' = [at EXCEPT ![t][o] = "nested", ![t][Inner[o]] = "attempt"]
          /\ UNCHANGED <<breaker, tries, reply, dlq, sent>>
    /\ UNCHANGED <<id, db>>

\* getInscriptionById goes on with the answer: parse, store, return.
InscriptionAnswered(t, v) ==
    /\ Quiet /\ at[t][ById] = "fetching"
    /\ \/ /\ v = "response"
          /\ db' = [db EXCEPT !.inscriptions = @ \cup {id[t]}]
          /\ Return(t, ById, "found")
       \/ /\ v = "empty"
          /\ Return(t, ById, "none")
          /\ UNCHANGED db
       \/ /\ v \in Errors
          /\ Throw(t, ById, v)
          /\ UNCHANGED db
    /\ UNCHANGED id

\* getInscriptionMetadata goes on with the inscription: null, one without
\* metadata, a request for the metadata, or the error of the inner handle.
InscriptionReturned(t) ==
    /\ at[t][Metadata] = "settled"
    /\ \/ /\ reply[t] = "none" \/ (reply[t] = "found" /\ id[t] \notin WithMetadata)
          /\ Return(t, Metadata, "none")
       \/ /\ reply[t] = "found" /\ id[t] \in WithMetadata
          /\ Request(t, Metadata)
          /\ UNCHANGED <<breaker, tries, dlq>>
       \/ /\ reply[t] \in Errors
          /\ Throw(t, Metadata, reply[t])
    /\ UNCHANGED <<id, db>>

\* getInscriptionMetadata goes on with the metadata: decode, store, return; an
\* empty body is stored as null, over whatever was stored.
MetadataAnswered(t, v) ==
    /\ Quiet /\ at[t][Metadata] = "fetching"
    /\ \/ /\ v = "response"
          /\ db' = [db EXCEPT !.metadata = @ \cup {id[t]}]
          /\ Return(t, Metadata, "decoded")
       \/ /\ v = "garbled"
          /\ Throw(t, Metadata, "DataParsingError")
          /\ UNCHANGED db
       \/ /\ v = "empty"
          /\ db' = [db EXCEPT !.metadata = @ \ {id[t]}]
          /\ Return(t, Metadata, "none")
       \/ /\ v \in Errors
          /\ Throw(t, Metadata, v)
          /\ UNCHANGED db
    /\ UNCHANGED id

\* processInscriptionMetadata stores the document or the credential it found,
\* which nothing here reads back.
MetadataReturned(t) ==
    /\ at[t][Process] = "settled"
    /\ \/ /\ reply[t] \in {"decoded", "none"}
          /\ Return(t, Process, IF reply[t] = "decoded" THEN "stored" ELSE "none")
       \/ /\ reply[t] \in Errors
          /\ Throw(t, Process, reply[t])
    /\ UNCHANGED <<id, db>>

-----------------------------------------------------------------------------
Init ==
    /\ breaker = [status |-> "closed", failures |-> 0, cooled |-> TRUE,
                  trials |-> [h \in Handlers |-> 0]]
    /\ id \in [Tasks -> Ids]
    /\ at = [t \in Tasks |-> [o \in Ops |-> "idle"]]
    /\ tries = [t \in Tasks |-> [o \in Ops |-> 0]]
    /\ reply = [t \in Tasks |-> Pending]
    /\ db = [inscriptions |-> {}, metadata |-> {}]
    /\ dlq = [t \in Tasks |-> << >>]
    /\ sent = [t \in Tasks |-> 0]

Step(t) ==
    \/ \E o \in Ops : Attempt(t, o) \/ Retry(t, o) \/ Lookup(t, o)
    \/ \E v \in Bodies \cup Raw : InscriptionAnswered(t, v) \/ MetadataAnswered(t, v)
    \/ InscriptionReturned(t)
    \/ MetadataReturned(t)

Next ==
    \/ Cool
    \/ \E t \in Tasks : Step(t) \/ \E o \in Called, i \in Ids : Call(t, o, i)

Spec == Init /\ [][Next]_vars

\* A request settles (the client aborts a fetch after its timeout), timers
\* fire, the application keeps calling, and the event loop serves each in the
\* end: strong fairness, as an event waits while another one's turn lasts.
FairSpec ==
    /\ Spec
    /\ SF_vars(Cool)
    /\ \A t \in Tasks :
        /\ SF_vars(Step(t))
        /\ SF_vars(\E o \in Called, i \in Ids : Call(t, o, i))

-----------------------------------------------------------------------------
Breakers == [status : {"closed", "open", "half-open"},
             failures : 0..FailureThreshold,
             cooled : BOOLEAN,
             trials : [Handlers -> 0..HalfOpenMax]]

Letters == [operation : Ops, error : Permanent]

Replies == Results \cup Transient \cup Permanent \cup {Pending}

TypeOK ==
    /\ breaker \in Breakers
    /\ id \in [Tasks -> Ids]
    /\ at \in [Tasks -> [Ops -> Stages]]
    /\ tries \in [Tasks -> [Ops -> 0..MaxRetries]]
    /\ reply \in [Tasks -> Replies]
    /\ db \in [inscriptions : SUBSET Ids, metadata : SUBSET Ids]
    /\ dlq \in [Tasks -> Seq(Letters)]
    /\ sent \in [Tasks -> 0..(MaxRequests + 1)]

\* A closed breaker has not reached its threshold: however it was closed, and
\* whichever late failures of earlier calls it counted meanwhile, the next
\* failure is not judged by those of a past outage.
ClosedBelowThreshold ==
    breaker.status = "closed" => breaker.failures < FailureThreshold

\* Dead letters and outcomes agree across the nested handles and their
\* retries: a call that is over left entries exactly when it ended with an
\* error no retry can cure, at most one for each operation it went through.
DeadLettersMatchOutcome ==
    \A t \in Tasks :
        /\ Over(t) => (dlq[t] # << >> <=> reply[t] \in Permanent)
        /\ \A j, k \in DOMAIN dlq[t] :
                j # k => dlq[t][j].operation # dlq[t][k].operation

\* An open breaker admits calls again only after the reset timeout: a success
\* that comes back late, from a call admitted before it opened, closes nothing.
OpenUntilTimeout ==
    [][breaker.status = "open" /\ breaker'.status # "open" => breaker.cooled]_vars

\* When faults stop, the breaker closes for good: refusals, which an admitted
\* call counts as failures of its own, cannot keep it open.
BreakerCloses ==
    <>[][\A t \in Tasks, v \in Raw \cup {"empty"} :
            ~(InscriptionAnswered(t, v) \/ MetadataAnswered(t, v))]_vars
        => <>[](breaker.status = "closed")

\* .aigne/doc-smith/docs/api-reference-indexer.md:3, "automatic retries for
\* failed requests": a call that ends with a network error has tried again.
FailuresAreRetried ==
    [][\A t \in Tasks :
        ~Over(t) /\ Over(t)' /\ reply'[t] = "NetworkError"
            => sent[t] > MaxRetries]_vars

\* retry.ts:98, "If the error is not transient, don't count it toward circuit
\* breaker": an answer of 404 leaves the failure count alone.
NotFoundIsNotCounted ==
    [][\A t \in Tasks :
        InscriptionAnswered(t, "notFound")
            => breaker'.failures = breaker.failures]_vars

=============================================================================
