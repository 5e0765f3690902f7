---------------------------- MODULE ErrorRecovery ----------------------------
(***************************************************************************)
(* What the library does with errors (packages/ordinalsplus/src/utils:     *)
(* error-handler.ts, error-recovery.ts, recovery.ts; indexer/dlq.ts), seen *)
(* from the one function that uses all of it, createRevealTransaction of   *)
(* transactions/reveal-transaction.ts: a health check, validation, an      *)
(* entry in the tracker, the transaction, and retries of all that.         *)
(*                                                                         *)
(* Names of tracker entries are made of the current millisecond, so a      *)
(* value of `moment` stands for them. Building is one step after the       *)
(* health check, because it awaits nothing. Left out: the log of errors,   *)
(* and the preserving of states in localStorage, which nothing calls.      *)
(***************************************************************************)
EXTENDS Integers, Sequences, FiniteSets

CONSTANTS
    Builds,          \* calls of createRevealTransaction
    MaxMoments,      \* bound: moments that are told apart
    Letters,         \* dead letters
    Operators,       \* those who work on them
    MaxMarks         \* bound: calls of markAsRetrying per operator

ASSUME ErrorRecoveryAssumption ==
    /\ MaxMoments \in Nat \ {0} /\ MaxMarks \in Nat
    /\ Builds # {} /\ IsFiniteSet(Builds)

VARIABLES
    moment,        \* Date.now()
    build,        \* how far each call is
    tracker,      \* the tracker's entries, by moment
    letter,       \* the dead letter queue
    marking       \* what each operator has read and has yet to write

errorVars == <<moment, build, tracker>>
letterVars == <<letter, marking>>

(***************************************************************************)
(* Codes.  ERROR_MESSAGES gives each a category and says whether an error  *)
(* is recoverable; handleError knows an error by the first code, in the    *)
(* order of the enumeration, that its message contains.                    *)
(***************************************************************************)
NetworkCodes ==
    {"network_disconnected", "request_timeout", "api_error", "transaction_rejected",
     "transaction_timeout", "transaction_broadcast_failed", "transaction_broadcast_timeout",
     "transaction_broadcast_cancelled", "invalid_response", "external_api_error",
     "rpc_error", "transaction_confirmation_error"}
WalletCodes ==
    {"insufficient_funds", "wallet_connection_failed", "wallet_rejected",
     "utxo_already_spent", "invalid_utxo", "missing_utxo", "signing_error",
     "transaction_failed", "commit_tx_failed", "reveal_tx_failed"}
ValidationCodes ==
    {"invalid_input", "content_too_large", "unsupported_content_type", "invalid_address",
     "invalid_transaction", "invalid_fee_rate", "invalid_transaction_hex"}
SystemCodes ==
    {"unexpected_error", "not_implemented", "initialization_failed", "state_error",
     "no_active_nodes", "transaction_already_watched", "configuration_error"}
Codes == NetworkCodes \cup WalletCodes \cup ValidationCodes \cup SystemCodes

Recoverable(c) ==
    c \notin {"invalid_transaction", "invalid_transaction_hex", "unexpected_error",
              "not_implemented", "no_active_nodes", "transaction_already_watched",
              "configuration_error"}

\* The code handleError gives to an error whose message says m: none of the
\* library's own messages contains a code, and two codes contain an earlier one.
Handled(m) ==
    CASE m = "external_api_error" -> "api_error"
      [] m = "invalid_transaction_hex" -> "invalid_transaction"
      [] m \in Codes \ {"external_api_error", "invalid_transaction_hex"} -> m
      [] m \notin Codes -> "unexpected_error"

\* getRecoverySuggestions of error-recovery.ts: what may be done without asking.
Automatic(c) ==
    CASE c \in {"network_disconnected", "request_timeout", "api_error",
                "transaction_rejected", "transaction_timeout", "commit_tx_failed",
                "reveal_tx_failed"} -> {"retry"}
      [] c = "wallet_connection_failed" -> {"reconnect_wallet"}
      [] c \in {"utxo_already_spent", "invalid_utxo"} -> {"refresh_utxos"}
      [] OTHER -> {}

\* getRecoverySuggestions of recovery.ts, by the category; it also asks for the
\* categories TRANSACTION and INSCRIPTION, which no error has.
Advice(c) ==
    CASE ~Recoverable(c) -> "start over"
      [] Recoverable(c) /\ c \in NetworkCodes -> "connection"
      [] Recoverable(c) /\ c \in WalletCodes -> "wallet and utxos"
      [] Recoverable(c) /\ c \in ValidationCodes -> "input"
      [] OTHER -> "generic"

\* The two tables agree: nothing is done without asking about an error that
\* recovery.ts tells the user to start over after.
ASSUME SuggestionsAgree ==
    \A c \in Codes : Automatic(c) # {} => Advice(c) # "start over"

-----------------------------------------------------------------------------
Moments == 1..MaxMoments
MaxTries == 3                       \* MAX_RETRY_ATTEMPTS
NoBuild == [at |-> "idle", tries |-> 0, ids |-> <<>>, retry |-> FALSE, code |-> "none"]
NoEntry == [status |-> "none", code |-> "none"]
NoLetter == [status |-> "none", attempts |-> 0]
NotMarking == [at |-> "idle", of |-> "none", attempts |-> 0, marks |-> 0]

ErrorInit ==
    /\ moment = 1
    /\ build = [t \in Builds |-> NoBuild]
    /\ tracker = [m \in Moments |-> NoEntry]

LettersInit ==
    /\ letter = [l \in Letters |-> NoLetter]
    /\ marking = [o \in Operators |-> NotMarking]

\* Time passes.
TickMoment ==
    /\ moment < MaxMoments
    /\ moment' = moment + 1
    /\ UNCHANGED <<build, tracker>>

(***************************************************************************)
(* createRevealTransaction                                                 *)
(***************************************************************************)
Create(t, retry) ==
    /\ build[t].at = "idle"
    /\ build' = [build EXCEPT ![t].at = "health", ![t].retry = retry, ![t].tries = 1]
    /\ UNCHANGED <<moment, tracker>>

\* An attempt throws an error with code c: withRetry waits and tries again,
\* whatever the code, until it has tried often enough.
Thrown(t, c) ==
    [build[t] EXCEPT !.code = c,
                     !.at = IF build[t].retry /\ build[t].tries < MaxTries
                            THEN "backoff" ELSE "thrown"]

\* checkSystemHealth pings a host, and the parameters are validated: these
\* errors are thrown as they are, before there is an entry.
Refused(t) ==
    /\ build[t].at = "health"
    /\ \E c \in {"initialization_failed", "invalid_utxo", "invalid_input", "invalid_fee_rate"} :
         build' = [build EXCEPT ![t] = Thrown(t, c)]
    /\ UNCHANGED <<moment, tracker>>

\* The rest of an attempt that goes well.
BuildReturns(t) ==
    /\ build[t].at = "health"
    /\ tracker' = [tracker EXCEPT ![moment] = [status |-> "CONFIRMING", code |-> "none"]]
    /\ build' = [build EXCEPT ![t].at = "returned", ![t].ids = Append(@, moment)]
    /\ UNCHANGED moment

\* (mutant of FailedEntry) An entry that has an error is left as it is.
FailedEntryUnlessSet(own, handled) ==
    IF own = "none" THEN [status |-> "FAILED", code |-> handled]
                    ELSE [status |-> "PENDING", code |-> own]
\* The catch around it: the entry fails, and keeps the error it has.
FailedEntry(own, handled) ==
    [status |-> "FAILED", code |-> IF own = "none" THEN handled ELSE own]

\* An attempt that does not.  An extraction that fails has noted its own error;
\* every error thrown here, with a code or without, is given a new one by its message.
BuildFails(t) ==
    /\ build[t].at = "health"
    /\ \E own \in {"none", "invalid_transaction"} :
         /\ tracker' = [tracker EXCEPT ![moment] = FailedEntry(own, Handled("its message"))]
         /\ build' = [build EXCEPT ![t] = [Thrown(t, Handled("its message"))
                                           EXCEPT !.ids = Append(@, moment)]]
    /\ UNCHANGED moment

\* The wait ends; it is at least half a second.
TryAgain(t) ==
    /\ build[t].at = "backoff"
    /\ \A k \in 1..Len(build[t].ids) : build[t].ids[k] < moment
    /\ build' = [build EXCEPT ![t].at = "health", ![t].tries = @ + 1]
    /\ UNCHANGED <<moment, tracker>>

(***************************************************************************)
(* Resuming                                                                *)
(***************************************************************************)
\* findInterruptedTransactions looks in the tracker it is given; recovery.ts has
\* one of its own, to which nobody adds.
Interrupted(entries) == {m \in DOMAIN entries : entries[m].status \in {"PENDING", "MEMPOOL"}}
Resumable == Interrupted([m \in Moments |-> NoEntry])

(***************************************************************************)
(* The dead letter queue.  An operator marks a letter before it runs the   *)
(* operation again: the letter is read, and written after an await.        *)
(***************************************************************************)
AddLetter(l) ==
    /\ letter[l] = NoLetter
    /\ letter' = [letter EXCEPT ![l] = [status |-> "pending", attempts |-> 0]]
    /\ UNCHANGED marking

MarkAsRetrying(o, l) ==
    /\ marking[o].at = "idle" /\ marking[o].marks < MaxMarks
    /\ letter[l] # NoLetter
    /\ marking' = [marking EXCEPT ![o] =
                     [at |-> "read", of |-> l, attempts |-> letter[l].attempts, marks |-> @.marks + 1]]
    /\ UNCHANGED letter

\* updateEntry; it throws when the letter was deleted meanwhile.
Marked(o) ==
    /\ marking[o].at = "read"
    /\ LET l == marking[o].of
       IN  IF letter[l] = NoLetter
           THEN /\ marking' = [marking EXCEPT ![o].at = "idle", ![o].of = "none"]
                /\ UNCHANGED letter
           ELSE /\ letter' = [letter EXCEPT ![l] = [status |-> "retrying",
                                                    attempts |-> marking[o].attempts + 1]]
                /\ marking' = [marking EXCEPT ![o].at = "running"]

\* markAsSucceeded and markAsFailed, whatever became of the letter meanwhile.
Finished(o) ==
    /\ marking[o].at = "running"
    /\ \E s \in {"succeeded", "failed"} :
         letter' = [letter EXCEPT ![marking[o].of] =
                      IF @ = NoLetter THEN NoLetter ELSE [@ EXCEPT !.status = s]]
    /\ marking' = [marking EXCEPT ![o].at = "idle", ![o].of = "none"]

DeleteLetter(l) ==
    /\ letter[l].status \in {"succeeded", "failed"}
    /\ letter' = [letter EXCEPT ![l] = NoLetter]
    /\ UNCHANGED marking

-----------------------------------------------------------------------------
ErrorNext ==
    \/ TickMoment
    \/ \E t \in Builds :
         \/ \E retry \in BOOLEAN : Create(t, retry)
         \/ Refused(t)
         \/ BuildReturns(t)
         \/ BuildFails(t)
         \/ TryAgain(t)

LettersNext ==
    \/ \E l \in Letters : AddLetter(l) \/ DeleteLetter(l)
    \/ \E o \in Operators :
         \/ \E l \in Letters : MarkAsRetrying(o, l)
         \/ Marked(o)
         \/ Finished(o)

ErrorSpec == ErrorInit /\ [][ErrorNext]_errorVars
LettersSpec == LettersInit /\ [][LettersNext]_letterVars

-----------------------------------------------------------------------------
ErrorTypeOK ==
    /\ moment \in Moments
    /\ build \in [Builds -> [at : {"idle", "health", "backoff", "returned", "thrown"},
                             tries : 0..MaxTries, ids : Seq(Moments), retry : BOOLEAN,
                             code : Codes \cup {"none"}]]
    /\ tracker \in [Moments -> [status : {"none", "CONFIRMING", "FAILED"},
                                code : Codes \cup {"none"}]]
    /\ letter \in [Letters -> [status : {"none", "pending", "retrying", "succeeded", "failed"},
                               attempts : 0..MaxMarks * Cardinality(Operators)]]

\* Moments at which a build made the entry of an attempt.
IdsOf(t) == {build[t].ids[k] : k \in 1..Len(build[t].ids)}
UsedOnce(m) == Cardinality({t \in Builds : m \in IdsOf(t)}) = 1

\* The tracker shows how every build ended: of the entries its attempts left the
\* one it returned is CONFIRMING and all others FAILED, except where another
\* build made an entry in the same millisecond.
EndedBuildsAreMarked ==
    \A t \in Builds : \A m \in IdsOf(t) : UsedOnce(m) =>
        tracker[m].status =
            IF build[t].at = "returned" /\ m = build[t].ids[Len(build[t].ids)]
            THEN "CONFIRMING" ELSE "FAILED"

\* Expected to fail: a build that returned is CONFIRMING under the id it returned.
\* Another build of the same millisecond has the same id.
ReturnedIsConfirming ==
    \A t \in Builds : build[t].at = "returned" =>
        tracker[build[t].ids[Len(build[t].ids)]].status = "CONFIRMING"

\* Expected to fail: what the caller gets is the error that the tracker has.  An
\* error is known by the text of its message only, and becomes an unexpected one.
ThrownIsTracked ==
    \A t \in Builds : build[t].at = "thrown" /\ build[t].ids # <<>> =>
        LET m == build[t].ids[Len(build[t].ids)]
        IN  UsedOnce(m) => tracker[m].code = build[t].code

\* Expected to fail: a letter marked as failed, "terminal state", stays so.
TerminalIsFinal ==
    [][\A l \in Letters : letter[l].status = "failed" => letter'[l].status \in {"failed", "none"}]_letterVars
=============================================================================
