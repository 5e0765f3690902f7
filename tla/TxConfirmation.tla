--------------------------- MODULE TxConfirmation ---------------------------
(***************************************************************************)
(* TransactionConfirmationService                                          *)
(* (packages/ordinalsplus/src/transactions/transaction-confirmation.ts).   *)
(* Every watch, and every forced check, starts a chain: a check, and after *)
(* it a timer for the next one.  A check reads the watch it works for      *)
(* before its request and uses it afterwards, when the transaction may be  *)
(* unwatched, or watched anew.                                             *)
(***************************************************************************)
EXTENDS TxTracker

CONSTANTS
    MaxApiRetries,   \* config.maxRetries
    MaxWatches,      \* bound: calls of watchTransaction that watch
    MaxForced        \* bound: calls of forceCheckAll

ASSUME WatchAssumption ==
    /\ MaxApiRetries \in Nat \ {0}
    /\ MaxWatches \in Nat
    /\ MaxForced \in Nat

VARIABLES
    watched,     \* the watch (0: none) in watchedTransactions, by txid
    watches,     \* watches made so far
    retries,     \* retries, by watch
    notified,    \* watches with notifiedFinalized set
    chains,      \* checks and pending timers, by chain
    forced,      \* calls of forceCheckAll so far
    sweep,       \* the last watch (0: over) each of them has checked
    finalized    \* history: FINALIZED events, by txid and watch

watchVars == <<watched, watches, retries, notified>>
confirmVars == <<watchVars, chains, forced, sweep, finalized>>

Watches == 1..MaxWatches

\* The first MaxWatches chains belong to the watches, the others to the
\* forced sweeps, which check a watch at most once each.
Chains == 1 .. MaxWatches * (1 + MaxForced)

Answers == {"notFound", "error", "unconfirmed", "confirmed", "final"}
NoChain == [txid |-> "none", watch |-> 0, at |-> "end", answer |-> "error"]
SweepChain(f, g) == MaxWatches * f + g

ConfirmInit ==
    /\ watched = [x \in Txids |-> 0]
    /\ watches = 0
    /\ retries = [g \in Watches |-> 0]
    /\ notified = {}
    /\ chains = [c \in Chains |-> NoChain]
    /\ forced = 0
    /\ sweep = [f \in 1..MaxForced |-> 0]
    /\ finalized = [x \in Txids |-> [g \in Watches |-> 0]]

At(c, place) == chains[c].at = place

\* setTimeout(() => checkTransactionStatus(txid), ...)
Timer(x) == [txid |-> x, watch |-> 0, at |-> "timer", answer |-> "error"]

\* checkTransactionStatus up to its request
Check(x) == [txid |-> x, watch |-> watched[x], at |-> "asked",
             answer |-> "error"]

\* watchTransaction; of one that is watched only an error is reported
Watch(x) ==
    /\ watched[x] = 0
    /\ watches < MaxWatches
    /\ watches' = watches + 1
    /\ watched' = [watched EXCEPT ![x] = watches']
    /\ tracker' = SetStatus(tracker, x, "PENDING_CONFIRMATION")
    /\ chains' = [chains EXCEPT ![watches'] = Timer(x)]
    /\ UNCHANGED <<retries, notified, forced, sweep, finalized,
                   mempool, depth>>

\* The status after unwatchTransaction, which does nothing when unwatched.
Unwatched(tr, x) ==
    IF watched[x] # 0 THEN SetStatus(tr, x, "UNWATCHED") ELSE tr

\* unwatchTransaction: timers and checks of x go on
Unwatch(x) ==
    /\ watched[x] # 0
    /\ watched' = [watched EXCEPT ![x] = 0]
    /\ tracker' = Unwatched(tracker, x)
    /\ UNCHANGED <<watches, retries, notified, chains, forced, sweep,
                   finalized, mempool, depth>>

\* A timer fires: the chain ends when its transaction is not watched.
TimerFires(c) ==
    /\ At(c, "timer")
    /\ LET x == chains[c].txid
       IN  chains' = [chains EXCEPT ![c] =
                        IF watched[x] = 0 THEN NoChain ELSE Check(x)]
    /\ UNCHANGED <<watchVars, forced, sweep, finalized, tracker,
                   mempool, depth>>

\* The loop of checkAllTransactions goes on from watch g: the map is live and
\* keeps the order in which the watches were made.
SweepFrom(f, g) ==
    LET later == {x \in Txids : watched[x] > g}
    IN  \/ /\ later = {}
           /\ sweep' = [sweep EXCEPT ![f] = 0]
           /\ UNCHANGED chains
        \/ \E x \in later :
             /\ \A y \in later : watched[x] <= watched[y]
             /\ sweep' = [sweep EXCEPT ![f] = watched[x]]
             /\ chains' = [chains EXCEPT ![SweepChain(f, watched[x])] = Check(x)]

\* forceCheckAll
ForceCheckAll ==
    /\ forced < MaxForced
    /\ \E x \in Txids : watched[x] # 0
    /\ forced' = forced + 1
    /\ SweepFrom(forced', 0)
    /\ UNCHANGED <<watchVars, finalized, tracker, mempool, depth>>

\* The check it awaited is over.
SweepGoesOn(f) ==
    /\ sweep[f] # 0
    /\ chains[SweepChain(f, sweep[f])].at \notin {"asked", "answered"}
    /\ SweepFrom(f, sweep[f])
    /\ UNCHANGED <<watchVars, forced, finalized, tracker, mempool,
                   depth>>

\* What the mempool API can say of x now.
ApiAnswers(x) ==
    {"error",
     IF x \notin mempool THEN "notFound"
     ELSE IF depth[x] = 0 THEN "unconfirmed"
     ELSE IF depth[x] < FinalDepth THEN "confirmed" ELSE "final"}

\* The check of a chain once its answer travels.
Answered(c, answer) ==
    [txid |-> chains[c].txid, watch |-> chains[c].watch,
     at |-> "answered", answer |-> answer]

\* The API answers; the answer travels.
ApiAnswersCheck(c) ==
    /\ At(c, "asked")
    /\ \E answer \in ApiAnswers(chains[c].txid) :
         chains' = [chains EXCEPT ![c] = Answered(c, answer)]
    /\ UNCHANGED <<watchVars, forced, sweep, finalized, tracker,
                   mempool, depth>>

\* The chain goes on with a timer, whether or not x is still watched.
PollAgain(c, x) == chains' = [chains EXCEPT ![c] = Timer(x)]

\* The check was the last of its chain, and x is unwatched, whichever watch
\* it has by now.
GiveUp(c, x) ==
    /\ chains' = [chains EXCEPT ![c] = NoChain]
    /\ watched' = [watched EXCEPT ![x] = 0]

\* handleApiError
HandleFailure(c) ==
    LET x == chains[c].txid
        g == chains[c].watch
    IN  /\ At(c, "answered")
        /\ chains[c].answer \in {"notFound", "error"}
        /\ retries' = [retries EXCEPT ![g] = @ + 1]
        /\ \/ /\ retries'[g] >= MaxApiRetries
              /\ tracker' = Unwatched(SetStatus(tracker, x, "ERROR"), x)
              /\ GiveUp(c, x)
           \/ /\ retries'[g] < MaxApiRetries
              /\ tracker' = SetStatus(tracker, x, "PENDING_CONFIRMATION")
              /\ PollAgain(c, x)
              /\ UNCHANGED watched
        /\ UNCHANGED <<watches, notified, forced, sweep, finalized, mempool,
                       depth>>

\* The transaction is in the mempool.
HandleUnconfirmed(c) ==
    /\ At(c, "answered")
    /\ chains[c].answer = "unconfirmed"
    /\ tracker' = SetStatus(tracker, chains[c].txid, "MEMPOOL")
    /\ PollAgain(c, chains[c].txid)
    /\ UNCHANGED <<watchVars, forced, sweep, finalized, mempool,
                   depth>>

\* The parts of handleConfirmedTransaction, for a check of x for watch g.
ConfirmedAnswer(c) ==
    /\ At(c, "answered")
    /\ chains[c].answer \in {"confirmed", "final"}
    /\ retries' = [retries EXCEPT ![chains[c].watch] = 0]
    /\ UNCHANGED <<watches, forced, sweep, mempool, depth>>

Finalize(c, x, g) ==
    /\ chains[c].answer = "final"
    /\ finalized' = [finalized EXCEPT ![x][g] = @ + 1]
    /\ notified' = notified \cup {g}
    /\ tracker' = Unwatched(SetStatus(tracker, x, "FINALIZED"), x)
    /\ GiveUp(c, x)

AwaitFinality(c, x) ==
    /\ chains[c].answer = "confirmed"
    /\ tracker' = SetStatus(tracker, x, "CONFIRMED")
    /\ PollAgain(c, x)
    /\ UNCHANGED <<watched, notified, finalized>>

StopPolling(c, x) ==
    /\ tracker' = SetStatus(tracker, x, "CONFIRMED")
    /\ chains' = [chains EXCEPT ![c] = NoChain]
    /\ UNCHANGED <<watched, notified, finalized>>

\* (mutant of HandleConfirmed: notifiedFinalized is not looked at)
HandleConfirmedAgain(c) ==
    LET x == chains[c].txid
        g == chains[c].watch
    IN  /\ ConfirmedAnswer(c)
        /\ Finalize(c, x, g) \/ AwaitFinality(c, x)

\* (mutant of HandleConfirmed: no timer after a first confirmation)
HandleConfirmedOnce(c) ==
    LET x == chains[c].txid
        g == chains[c].watch
    IN  /\ ConfirmedAnswer(c)
        /\ \/ g \notin notified /\ Finalize(c, x, g)
           \/ g \in notified /\ StopPolling(c, x)
           \/ chains[c].answer = "confirmed" /\ StopPolling(c, x)

\* handleConfirmedTransaction
HandleConfirmed(c) ==
    LET x == chains[c].txid
        g == chains[c].watch
    IN  /\ ConfirmedAnswer(c)
        /\ \/ g \notin notified /\ Finalize(c, x, g)
           \/ AwaitFinality(c, x)
           \/ /\ chains[c].answer = "final"
              /\ g \in notified
              /\ StopPolling(c, x)

ConfirmStep(c) ==
    \/ TimerFires(c)
    \/ ApiAnswersCheck(c)
    \/ HandleFailure(c)
    \/ HandleUnconfirmed(c)
    \/ HandleConfirmed(c)

-----------------------------------------------------------------------------
ConfirmTypeOK ==
    /\ watched \in [Txids -> 0..MaxWatches]
    /\ watches \in 0..MaxWatches
    /\ retries \in [Watches -> Nat]
    /\ notified \subseteq Watches
    /\ chains \in [Chains -> {NoChain} \cup
                     [txid : Txids, watch : 0..MaxWatches,
                      at : {"timer", "asked", "answered"}, answer : Answers]]
    /\ forced \in 0..MaxForced
    /\ sweep \in [1..MaxForced -> 0..MaxWatches]
    /\ finalized \in [Txids -> [Watches -> Nat]]

\* A watched transaction is never abandoned: whatever a check of an earlier
\* watch does to it, some chain still polls it.
WatchedIsPolled ==
    \A x \in Txids : watched[x] # 0 =>
        \E c \in Chains : chains[c].txid = x /\ chains[c].at # "end"

\* FINALIZED is only reported of a final transaction, and at most once per
\* watch, although the check that reports it may belong to an earlier one.
FinalizedOncePerWatch ==
    \A x \in Txids : \A g \in Watches :
        finalized[x][g] > 0 => finalized[x][g] = 1 /\ depth[x] = FinalDepth

=============================================================================
