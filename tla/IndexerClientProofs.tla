------------------------ MODULE IndexerClientProofs ------------------------
(***************************************************************************)
(* Proofs about the indexer client: for any number of concurrent calls, of *)
(* error handlers and of inscriptions, and any limits.                     *)
(***************************************************************************)
EXTENDS IndexerClient, TLAPS

LEMMA ConstantTypes ==
    /\ HandlerOf \in [Tasks -> Handlers]
    /\ Called \subseteq Ops
    /\ MaxRetries \in Nat
    /\ FailureThreshold \in Nat /\ FailureThreshold > 0
    /\ HalfOpenMax \in Nat /\ HalfOpenMax > 0
BY ClientAssumption DEF Ops, ById, Metadata, Process

\* The bound of the requests is a natural number.
LEMMA MaxRequestsTyped == MaxRequests \in Nat
<1>1. \A m, n \in Nat : m * n \in Nat
  OBVIOUS
<1> QED
  BY <1>1, ConstantTypes DEF MaxRequests

\* Each of the breaker's operations gives a breaker.
LEMMA BreakerTyped ==
    ASSUME TypeOK, NEW h \in Handlers, NEW e
    PROVE  /\ Refreshed(h) \in Breakers
           /\ AfterSuccess(h) \in Breakers
           /\ AfterFailure(h, e) \in Breakers
<1> USE ConstantTypes DEF TypeOK, Breakers
<1>0. /\ breaker = [status |-> breaker.status, failures |-> breaker.failures,
                    cooled |-> breaker.cooled, trials |-> breaker.trials]
      /\ [breaker.trials EXCEPT ![h] = 0] \in [Handlers -> 0..HalfOpenMax]
      /\ 0 \in 0..FailureThreshold
  OBVIOUS
<1>1. Refreshed(h) \in Breakers
  <2>1. Refreshed(h) \in
          {breaker, [status |-> "half-open", failures |-> breaker.failures,
                     cooled |-> breaker.cooled,
                     trials |-> [breaker.trials EXCEPT ![h] = 0]]}
    BY <1>0 DEF Refreshed
  <2> QED
    BY <1>0, <2>1
<1>2. AfterSuccess(h) \in Breakers
  <2>1. AfterSuccess(h) \in
          {breaker, [status |-> "closed", failures |-> 0,
                     cooled |-> breaker.cooled,
                     trials |-> [breaker.trials EXCEPT ![h] = 0]]}
    BY <1>0 DEF AfterSuccess
  <2>2. [status |-> "closed", failures |-> 0, cooled |-> breaker.cooled,
         trials |-> [breaker.trials EXCEPT ![h] = 0]] \in Breakers
    BY <1>0
  <2> QED
    BY <2>1, <2>2
<1>3. AfterFailure(h, e) \in Breakers
  <2>1. /\ UpTo(breaker.failures + 1, FailureThreshold) \in 0..FailureThreshold
        /\ UpTo(breaker.trials[h] + 1, HalfOpenMax) \in 0..HalfOpenMax
    BY DEF UpTo
  <2> QED
    BY <2>1 DEF AfterFailure
<1> QED
  BY <1>1, <1>2, <1>3

\* The part of the type invariant about what is private to a call.
CallsTyped ==
    /\ at \in [Tasks -> [Ops -> Stages]]
    /\ tries \in [Tasks -> [Ops -> 0..MaxRetries]]
    /\ reply \in [Tasks -> Replies]
    /\ dlq \in [Tasks -> Seq(Letters)]
    /\ sent \in [Tasks -> 0..(MaxRequests + 1)]

LEMMA LeaveTyped ==
    ASSUME TypeOK, NEW t \in Tasks, NEW o \in Ops, NEW v \in Replies,
           Leave(t, o, v)
    PROVE  /\ at' \in [Tasks -> [Ops -> Stages]]
           /\ tries' \in [Tasks -> [Ops -> 0..MaxRetries]]
           /\ reply' \in [Tasks -> Replies]
           /\ sent' \in [Tasks -> 0..(MaxRequests + 1)]
<1> USE ConstantTypes, MaxRequestsTyped DEF TypeOK, Leave, Stages
<1>1. at' \in [Tasks -> [Ops -> Stages]]
  OBVIOUS
<1>2. tries' \in [Tasks -> [Ops -> 0..MaxRetries]]
  OBVIOUS
<1>3. reply' \in [Tasks -> Replies]
  OBVIOUS
<1>4. sent' \in [Tasks -> 0..(MaxRequests + 1)]
  OBVIOUS
<1> QED
  BY <1>1, <1>2, <1>3, <1>4

LEMMA TransformedTyped ==
    ASSUME NEW e \in Errors
    PROVE  Transformed(e) \in Transient \cup Permanent
BY DEF Transformed, Errors, Raw, Transient, Permanent

LEMMA AttemptFailedTyped ==
    ASSUME TypeOK, NEW t \in Tasks, NEW o \in Ops, NEW e \in Errors,
           AttemptFailed(t, o, e)
    PROVE  CallsTyped'
<1>1. CASE Retriable(e) /\ RetriesLeft(t, o)
  <2>1. at' \in [Tasks -> [Ops -> Stages]]
    <3>1. at' = [at EXCEPT ![t] = [at[t] EXCEPT ![o] = "backoff"]]
      BY <1>1, Zenon DEF AttemptFailed
    <3>2. [at[t] EXCEPT ![o] = "backoff"] \in [Ops -> Stages]
      BY DEF TypeOK, Stages
    <3> QED
      BY <3>1, <3>2 DEF TypeOK
  <2>2. reply' \in [Tasks -> Replies]
    BY <1>1 DEF AttemptFailed, TypeOK, Replies
  <2> QED
    BY <1>1, <2>1, <2>2 DEF AttemptFailed, TypeOK, CallsTyped
<1>2. CASE ~(Retriable(e) /\ RetriesLeft(t, o))
  <2>1. Leave(t, o, Transformed(e)) /\ Transformed(e) \in Replies
    BY <1>2, TransformedTyped DEF AttemptFailed, Replies
  <2>2. dlq' \in [Tasks -> Seq(Letters)]
    <3>1. CASE Transformed(e) \in Permanent
      <4>1. [operation |-> o, error |-> Transformed(e)] \in Letters
        BY <3>1 DEF Letters
      <4>2. Append(dlq[t], [operation |-> o, error |-> Transformed(e)])
              \in Seq(Letters)
        BY <4>1 DEF TypeOK
      <4> QED
        BY <1>2, <3>1, <4>2 DEF AttemptFailed, TypeOK
    <3>2. CASE Transformed(e) \notin Permanent
      BY <1>2, <3>2 DEF AttemptFailed, TypeOK
    <3> QED
      BY <3>1, <3>2
  <2> QED
    BY <2>1, <2>2, LeaveTyped DEF CallsTyped
<1> QED
  BY <1>1, <1>2

LEMMA ReturnTyped ==
    ASSUME TypeOK, NEW t \in Tasks, NEW o \in Ops, NEW v \in Results,
           Return(t, o, v)
    PROVE  CallsTyped' /\ breaker' \in Breakers
<1>1. HandlerOf[t] \in Handlers /\ v \in Replies
  BY ConstantTypes DEF Replies
<1>2. breaker' \in Breakers
  BY <1>1, BreakerTyped DEF Return, TypeOK
<1> QED
  BY <1>1, <1>2, LeaveTyped DEF Return, CallsTyped, TypeOK

LEMMA ThrowTyped ==
    ASSUME TypeOK, NEW t \in Tasks, NEW o \in Ops, NEW e \in Errors,
           Throw(t, o, e)
    PROVE  CallsTyped' /\ breaker' \in Breakers
<1>1. HandlerOf[t] \in Handlers
  BY ConstantTypes
<1>2. breaker' \in Breakers
  BY <1>1, BreakerTyped DEF Throw, TypeOK
<1> QED
  BY <1>2, AttemptFailedTyped DEF Throw

LEMMA RequestTyped ==
    ASSUME TypeOK, NEW t \in Tasks, NEW o \in Ops, Request(t, o),
           UNCHANGED <<breaker, tries, dlq>>
    PROVE  CallsTyped' /\ breaker' \in Breakers
<1>1. UpTo(sent[t] + 1, MaxRequests + 1) \in 0..(MaxRequests + 1)
  BY MaxRequestsTyped DEF TypeOK, UpTo
<1> QED
  BY <1>1 DEF Request, CallsTyped, TypeOK, Stages, Replies

LEMMA OpsTyped ==
    /\ ById \in Ops /\ Metadata \in Ops /\ Process \in Ops
    /\ DOMAIN Inner = {Metadata, Process}
    /\ Inner[Metadata] = ById /\ Inner[Process] = Metadata
BY DEF Ops, Inner, ById, Metadata, Process

\* An operation that waits for another attempt has one left.
BackoffCounted ==
    \A t \in Tasks, o \in Ops : at[t][o] = "backoff" => tries[t][o] < MaxRetries

\* Every step of a call keeps the types.
LEMMA StepTyped ==
    ASSUME TypeOK, BackoffCounted, NEW t \in Tasks, Step(t)
    PROVE  TypeOK'
<1> SUFFICES /\ CallsTyped' /\ breaker' \in Breakers
             /\ id' \in [Tasks -> Ids]
             /\ db' \in [inscriptions : SUBSET Ids, metadata : SUBSET Ids]
  BY DEF TypeOK, CallsTyped
<1>0. /\ HandlerOf[t] \in Handlers
      /\ "found" \in Results /\ "none" \in Results /\ "decoded" \in Results
      /\ "stored" \in Results
      /\ "CircuitBreakerOpenError" \in Errors /\ "DataParsingError" \in Errors
  BY ConstantTypes DEF Results, Errors, Transient, Permanent
<1>1. ASSUME NEW o \in Ops, Attempt(t, o)
      PROVE  CallsTyped' /\ breaker' \in Breakers
  <2>1. breaker' \in Breakers
    BY <1>0, <1>1, BreakerTyped DEF Attempt, TypeOK
  <2>2. CASE AttemptFailed(t, o, "CircuitBreakerOpenError")
    BY <1>0, <2>1, <2>2, AttemptFailedTyped
  <2>3. CASE at' = [at EXCEPT ![t][o] = "lookup"] /\ UNCHANGED <<tries, reply, dlq, sent>>
    <3>1. at' = [at EXCEPT ![t] = [at[t] EXCEPT ![o] = "lookup"]]
      BY <2>3, Zenon
    <3>2. [at[t] EXCEPT ![o] = "lookup"] \in [Ops -> Stages]
      BY DEF TypeOK, Stages
    <3>3. at' \in [Tasks -> [Ops -> Stages]]
      BY <3>1, <3>2 DEF TypeOK
    <3> QED
      BY <2>1, <2>3, <3>3 DEF TypeOK, CallsTyped
  <2> QED
    BY <1>1, <2>2, <2>3 DEF Attempt
<1>2. ASSUME NEW o \in Ops, Retry(t, o)
      PROVE  CallsTyped' /\ breaker' \in Breakers
  <2>1. at' = [at EXCEPT ![t] = [at[t] EXCEPT ![o] = "attempt"]]
    BY <1>2, Zenon DEF Retry
  <2>2. [at[t] EXCEPT ![o] = "attempt"] \in [Ops -> Stages]
    BY DEF TypeOK, Stages
  <2>3. tries' = [tries EXCEPT ![t] = [tries[t] EXCEPT ![o] = tries[t][o] + 1]]
    BY <1>2, Zenon DEF Retry
  <2>4. tries[t][o] + 1 \in 0..MaxRetries
    BY <1>2, ConstantTypes DEF Retry, TypeOK, BackoffCounted
  <2>5. [tries[t] EXCEPT ![o] = tries[t][o] + 1] \in [Ops -> 0..MaxRetries]
    BY <2>4 DEF TypeOK
  <2>6. /\ at' \in [Tasks -> [Ops -> Stages]]
        /\ tries' \in [Tasks -> [Ops -> 0..MaxRetries]]
    BY <2>1, <2>2, <2>3, <2>5 DEF TypeOK
  <2> QED
    BY <1>2, <2>6 DEF Retry, TypeOK, CallsTyped
<1>3. ASSUME NEW o \in Ops, Lookup(t, o)
      PROVE  CallsTyped' /\ breaker' \in Breakers
  <2>1. CASE Return(t, o, IF o = ById THEN "found" ELSE "decoded")
    BY <1>0, <2>1, ReturnTyped
  <2>2. CASE Request(t, o) /\ UNCHANGED <<breaker, tries, dlq>>
    BY <2>2, RequestTyped
  <2>3. CASE /\ o # ById
             /\ at' = [at EXCEPT ![t][o] = "nested", ![t][Inner[o]] = "attempt"]
             /\ UNCHANGED <<breaker, tries, reply, dlq, sent>>
    <3>1. at' = [at EXCEPT ![t] = [at[t] EXCEPT ![o] = "nested",
                                                ![Inner[o]] = "attempt"]]
      <4> DEFINE asked == [at EXCEPT ![t] = [at[t] EXCEPT ![o] = "nested",
                                                         ![Inner[o]] = "attempt"]]
      <4>1. at' \in [Tasks -> [Ops -> Stages]] /\ at' = asked
        BY <2>3, OpsTyped DEF TypeOK, Stages
      <4> QED
        BY <4>1
    <3>2. [at[t] EXCEPT ![o] = "nested", ![Inner[o]] = "attempt"]
            \in [Ops -> Stages]
      BY DEF TypeOK, Stages
    <3>3. at' \in [Tasks -> [Ops -> Stages]]
      BY <3>1, <3>2 DEF TypeOK
    <3> QED
      BY <2>3, <3>3 DEF TypeOK, CallsTyped
  <2> QED
    BY <1>3, <2>1, <2>2, <2>3 DEF Lookup
<1>4. ASSUME NEW v \in Bodies \cup Raw, InscriptionAnswered(t, v)
      PROVE  CallsTyped' /\ breaker' \in Breakers
  BY <1>0, <1>4, OpsTyped, ReturnTyped, ThrowTyped DEF InscriptionAnswered
<1>5. ASSUME NEW v \in Bodies \cup Raw, MetadataAnswered(t, v)
      PROVE  CallsTyped' /\ breaker' \in Breakers
  BY <1>0, <1>5, OpsTyped, ReturnTyped, ThrowTyped DEF MetadataAnswered
<1>6. ASSUME InscriptionReturned(t)
      PROVE  CallsTyped' /\ breaker' \in Breakers
  <2>1. CASE Return(t, Metadata, "none")
    BY <1>0, <2>1, OpsTyped, ReturnTyped
  <2>2. CASE Request(t, Metadata) /\ UNCHANGED <<breaker, tries, dlq>>
    BY <2>2, OpsTyped, RequestTyped
  <2>3. CASE reply[t] \in Errors /\ Throw(t, Metadata, reply[t])
    BY <2>3, OpsTyped, ThrowTyped
  <2> QED
    BY <1>6, <2>1, <2>2, <2>3 DEF InscriptionReturned
<1>7. ASSUME MetadataReturned(t)
      PROVE  CallsTyped' /\ breaker' \in Breakers
  <2>1. CASE Return(t, Process, IF reply[t] = "decoded" THEN "stored" ELSE "none")
    <3> DEFINE result == IF reply[t] = "decoded" THEN "stored" ELSE "none"
    <3>1. result \in Results
      BY <1>0
    <3> QED
      BY <2>1, <3>1, OpsTyped, ReturnTyped
  <2>2. CASE reply[t] \in Errors /\ Throw(t, Process, reply[t])
    BY <2>2, OpsTyped, ThrowTyped
  <2> QED
    BY <1>7, <2>1, <2>2 DEF MetadataReturned
<1>8. /\ id' \in [Tasks -> Ids]
      /\ db' \in [inscriptions : SUBSET Ids, metadata : SUBSET Ids]
  <2> DEFINE Kept == /\ id' \in [Tasks -> Ids]
                     /\ db' \in [inscriptions : SUBSET Ids, metadata : SUBSET Ids]
  <2>0. /\ db = [inscriptions |-> db.inscriptions, metadata |-> db.metadata]
        /\ db.inscriptions \subseteq Ids /\ db.metadata \subseteq Ids
        /\ id[t] \in Ids
    BY DEF TypeOK
  <2>1. ASSUME NEW o \in Ops, Attempt(t, o) \/ Retry(t, o) \/ Lookup(t, o)
        PROVE  Kept
    <3>1. UNCHANGED <<id, db>>
      BY <2>1, Zenon DEF Attempt, Retry, Lookup
    <3> QED
      BY <3>1 DEF TypeOK
  <2>2. ASSUME NEW v \in Bodies \cup Raw, InscriptionAnswered(t, v)
        PROVE  Kept
    <3>1. /\ UNCHANGED id
          /\ UNCHANGED db \/ db' = [db EXCEPT !.inscriptions = @ \cup {id[t]}]
      BY <2>2, Zenon DEF InscriptionAnswered
    <3>2. CASE db' = [db EXCEPT !.inscriptions = @ \cup {id[t]}]
      <4>1. db' = [inscriptions |-> db.inscriptions \cup {id[t]},
                   metadata |-> db.metadata]
        BY <2>0, <3>2
      <4> QED
        BY <2>0, <3>1, <4>1 DEF TypeOK
    <3> QED
      BY <3>1, <3>2 DEF TypeOK
  <2>3. ASSUME NEW v \in Bodies \cup Raw, MetadataAnswered(t, v)
        PROVE  Kept
    <3>1. /\ UNCHANGED id
          /\ \/ UNCHANGED db
             \/ db' = [db EXCEPT !.metadata = @ \cup {id[t]}]
             \/ db' = [db EXCEPT !.metadata = @ \ {id[t]}]
      BY <2>3, Zenon DEF MetadataAnswered
    <3>2. CASE db' = [db EXCEPT !.metadata = @ \cup {id[t]}]
      <4>1. db' = [inscriptions |-> db.inscriptions,
                   metadata |-> db.metadata \cup {id[t]}]
        BY <2>0, <3>2
      <4> QED
        BY <2>0, <3>1, <4>1 DEF TypeOK
    <3>3. CASE db' = [db EXCEPT !.metadata = @ \ {id[t]}]
      <4>1. db' = [inscriptions |-> db.inscriptions,
                   metadata |-> db.metadata \ {id[t]}]
        BY <2>0, <3>3
      <4> QED
        BY <2>0, <3>1, <4>1 DEF TypeOK
    <3> QED
      BY <3>1, <3>2, <3>3 DEF TypeOK
  <2>4. ASSUME InscriptionReturned(t) \/ MetadataReturned(t)
        PROVE  Kept
    <3>1. UNCHANGED <<id, db>>
      BY <2>4, Zenon DEF InscriptionReturned, MetadataReturned
    <3> QED
      BY <3>1 DEF TypeOK
  <2> HIDE DEF Kept
  <2>5. Kept
    BY <2>1, <2>2, <2>3, <2>4 DEF Step
  <2> QED
    BY <2>5 DEF Kept
<1> QED
  BY <1>1, <1>2, <1>3, <1>4, <1>5, <1>6, <1>7, <1>8 DEF Step

\* Where a call leaves or begins an operation, its other waits keep their count.
LEMMA LeaveBackoff ==
    ASSUME TypeOK, BackoffCounted, NEW t \in Tasks, NEW o \in Ops, NEW v,
           Leave(t, o, v)
    PROVE  BackoffCounted'
<1> SUFFICES ASSUME NEW u \in Tasks, NEW p \in Ops, at'[u][p] = "backoff"
             PROVE  tries'[u][p] < MaxRetries
  BY DEF BackoffCounted
<1>1. at[u][p] = "backoff" /\ ~(u = t /\ p = o)
  BY DEF Leave, TypeOK
<1>2. tries'[u][p] = tries[u][p]
  BY <1>1 DEF Leave, TypeOK
<1> QED
  BY <1>1, <1>2 DEF BackoffCounted

LEMMA AttemptFailedBackoff ==
    ASSUME TypeOK, BackoffCounted, NEW t \in Tasks, NEW o \in Ops, NEW e,
           AttemptFailed(t, o, e)
    PROVE  BackoffCounted'
<1>1. CASE ~(Retriable(e) /\ RetriesLeft(t, o))
  BY <1>1, LeaveBackoff DEF AttemptFailed
<1>2. CASE Retriable(e) /\ RetriesLeft(t, o)
  <2>1. at' = [at EXCEPT ![t][o] = "backoff"] /\ UNCHANGED tries
    BY <1>2 DEF AttemptFailed
  <2>2. ASSUME NEW u \in Tasks, NEW p \in Ops, ~(u = t /\ p = o)
        PROVE  at'[u][p] = at[u][p]
    BY <2>1, <2>2 DEF TypeOK
  <2> QED
    BY <1>2, <2>1, <2>2 DEF BackoffCounted, RetriesLeft
<1> QED
  BY <1>1, <1>2

\* Steps that leave the counters alone and put no operation to wait.
LEMMA NoNewBackoff ==
    ASSUME TypeOK, BackoffCounted, UNCHANGED tries,
           \A u \in Tasks, p \in Ops : at'[u][p] = "backoff" => at[u][p] = "backoff"
    PROVE  BackoffCounted'
BY DEF BackoffCounted

LEMMA StepBackoff ==
    ASSUME TypeOK, BackoffCounted, NEW t \in Tasks, Step(t)
    PROVE  BackoffCounted'
<1> USE OpsTyped
<1>1. ASSUME NEW o \in Ops, Attempt(t, o)
      PROVE  BackoffCounted'
  <2>1. CASE AttemptFailed(t, o, "CircuitBreakerOpenError")
    BY <2>1, AttemptFailedBackoff
  <2>2. CASE at' = [at EXCEPT ![t][o] = "lookup"] /\ UNCHANGED tries
    BY <2>2, NoNewBackoff DEF TypeOK
  <2> QED
    BY <1>1, <2>1, <2>2 DEF Attempt
<1>2. ASSUME NEW o \in Ops, Retry(t, o)
      PROVE  BackoffCounted'
  <2>1. ASSUME NEW u \in Tasks, NEW p \in Ops
        PROVE  IF u = t /\ p = o
               THEN at'[u][p] = "attempt"
               ELSE at'[u][p] = at[u][p] /\ tries'[u][p] = tries[u][p]
    BY <1>2 DEF Retry, TypeOK
  <2> QED
    BY <2>1 DEF BackoffCounted
<1>3. ASSUME NEW o \in Ops, Lookup(t, o)
      PROVE  BackoffCounted'
  <2>1. CASE Return(t, o, IF o = ById THEN "found" ELSE "decoded")
    BY <2>1, LeaveBackoff DEF Return
  <2>2. CASE Request(t, o) /\ UNCHANGED tries
    BY <2>2, NoNewBackoff DEF Request, TypeOK
  <2>3. CASE /\ o # ById
             /\ at' = [at EXCEPT ![t][o] = "nested", ![t][Inner[o]] = "attempt"]
             /\ UNCHANGED tries
    BY <2>3, NoNewBackoff DEF TypeOK
  <2> QED
    BY <1>3, <2>1, <2>2, <2>3 DEF Lookup
<1>4. ASSUME NEW v, InscriptionAnswered(t, v)
      PROVE  BackoffCounted'
  BY <1>4, LeaveBackoff, AttemptFailedBackoff DEF InscriptionAnswered, Return, Throw
<1>5. ASSUME NEW v, MetadataAnswered(t, v)
      PROVE  BackoffCounted'
  BY <1>5, LeaveBackoff, AttemptFailedBackoff DEF MetadataAnswered, Return, Throw
<1>6. ASSUME InscriptionReturned(t)
      PROVE  BackoffCounted'
  <2>1. CASE Request(t, Metadata) /\ UNCHANGED tries
    BY <2>1, NoNewBackoff DEF Request, TypeOK
  <2> QED
    BY <1>6, <2>1, LeaveBackoff, AttemptFailedBackoff
       DEF InscriptionReturned, Return, Throw
<1>7. ASSUME MetadataReturned(t)
      PROVE  BackoffCounted'
  BY <1>7, LeaveBackoff, AttemptFailedBackoff DEF MetadataReturned, Return, Throw
<1> QED
  BY <1>1, <1>2, <1>3, <1>4, <1>5, <1>6, <1>7 DEF Step

LEMMA CallKeeps ==
    ASSUME TypeOK, BackoffCounted, NEW t \in Tasks, NEW o \in Called,
           NEW i \in Ids, Call(t, o, i)
    PROVE  TypeOK' /\ BackoffCounted'
<1>1. o \in Ops
  BY ConstantTypes
<1>2. /\ at' \in [Tasks -> [Ops -> Stages]]
      /\ \A u \in Tasks, p \in Ops : at'[u][p] = "backoff" => at[u][p] = "backoff"
  <2>1. at' = [at EXCEPT ![t] = [at[t] EXCEPT ![o] = "attempt"]]
    BY Zenon DEF Call
  <2>2. [at[t] EXCEPT ![o] = "attempt"] \in [Ops -> Stages]
    BY DEF TypeOK, Stages
  <2> QED
    BY <2>1, <2>2 DEF TypeOK
<1>3. /\ id' \in [Tasks -> Ids]
      /\ reply' \in [Tasks -> Replies]
      /\ dlq' \in [Tasks -> Seq(Letters)]
      /\ UNCHANGED <<breaker, tries, db, sent>>
  BY DEF Call, TypeOK, Replies
<1> QED
  BY <1>2, <1>3, NoNewBackoff DEF TypeOK

\* The type invariant, of any number of calls on one breaker: the attempt
\* counter of each nested withRetry stays within its limit.
THEOREM TypeCorrect == Spec => []TypeOK
<1>1. Init => TypeOK /\ BackoffCounted
  BY ConstantTypes, MaxRequestsTyped
     DEF Init, TypeOK, BackoffCounted, Breakers, Stages, Replies
<1>2. TypeOK /\ BackoffCounted /\ [Next]_vars => TypeOK' /\ BackoffCounted'
  <2> SUFFICES ASSUME TypeOK, BackoffCounted, [Next]_vars
               PROVE  TypeOK' /\ BackoffCounted'
    OBVIOUS
  <2>1. CASE Cool
    <3>1. breaker' \in Breakers
      BY <2>1 DEF Cool, TypeOK, Breakers
    <3> QED
      BY <2>1, <3>1 DEF Cool, TypeOK, BackoffCounted
  <2>2. ASSUME NEW t \in Tasks, Step(t)
        PROVE  TypeOK' /\ BackoffCounted'
    BY <2>2, StepTyped, StepBackoff
  <2>3. ASSUME NEW t \in Tasks, NEW o \in Called, NEW i \in Ids, Call(t, o, i)
        PROVE  TypeOK' /\ BackoffCounted'
    BY <2>3, CallKeeps
  <2>4. CASE UNCHANGED vars
    BY <2>4 DEF vars, TypeOK, BackoffCounted
  <2> QED
    BY <2>1, <2>2, <2>3, <2>4 DEF Next
<1> QED
  BY <1>1, <1>2, PTL DEF Spec

\* All a step can do to the breaker.
BreakerStep ==
    \/ UNCHANGED breaker
    \/ breaker' = [breaker EXCEPT !.cooled = TRUE]
    \/ \E h \in Handlers :
        \/ breaker' = Refreshed(h)
        \/ breaker' = AfterSuccess(h)
        \/ \E e \in Errors : breaker' = AfterFailure(h, e)

LEMMA EveryBreakerStep ==
    ASSUME [Next]_vars
    PROVE  BreakerStep
<1>1. CASE Cool
  BY <1>1, Zenon DEF Cool, BreakerStep
<1>2. ASSUME NEW t \in Tasks, Step(t)
      PROVE  BreakerStep
  <2>0. HandlerOf[t] \in Handlers /\ "DataParsingError" \in Errors
    BY ConstantTypes DEF Errors, Permanent
  <2>1. ASSUME NEW o, NEW v, Return(t, o, v)
        PROVE  BreakerStep
    BY <2>0, <2>1, Zenon DEF Return, BreakerStep
  <2>2. ASSUME NEW o, NEW e \in Errors, Throw(t, o, e)
        PROVE  BreakerStep
    BY <2>0, <2>2, Zenon DEF Throw, BreakerStep
  <2>3. ASSUME NEW o \in Ops, Attempt(t, o) \/ Retry(t, o) \/ Lookup(t, o)
        PROVE  BreakerStep
    <3>1. CASE Attempt(t, o)
      BY <2>0, <3>1, Zenon DEF Attempt, BreakerStep
    <3>2. CASE Retry(t, o)
      BY <3>2, Zenon DEF Retry, BreakerStep
    <3>3. CASE Lookup(t, o)
      BY <2>1, <3>3, Zenon DEF Lookup, BreakerStep
    <3> QED
      BY <2>3, <3>1, <3>2, <3>3
  <2>4. ASSUME NEW v \in Bodies \cup Raw,
               InscriptionAnswered(t, v) \/ MetadataAnswered(t, v)
        PROVE  BreakerStep
    <3>1. CASE InscriptionAnswered(t, v)
      BY <2>1, <2>2, <3>1, Zenon DEF InscriptionAnswered
    <3>2. CASE MetadataAnswered(t, v)
      BY <2>0, <2>1, <2>2, <3>2, Zenon DEF MetadataAnswered
    <3> QED
      BY <2>4, <3>1, <3>2
  <2>5. ASSUME InscriptionReturned(t) \/ MetadataReturned(t)
        PROVE  BreakerStep
    <3>1. CASE InscriptionReturned(t)
      <4>1. CASE UNCHANGED breaker
        BY <4>1 DEF BreakerStep
      <4> QED
        BY <2>1, <2>2, <3>1, <4>1, Zenon DEF InscriptionReturned
    <3>2. CASE MetadataReturned(t)
      BY <2>1, <2>2, <3>2, Zenon DEF MetadataReturned
    <3> QED
      BY <2>5, <3>1, <3>2
  <2> QED
    BY <1>2, <2>3, <2>4, <2>5, Zenon DEF Step
<1>3. ASSUME NEW t \in Tasks, NEW o \in Called, NEW i \in Ids, Call(t, o, i)
      PROVE  BreakerStep
  BY <1>3, Zenon DEF Call, BreakerStep
<1>4. CASE UNCHANGED vars
  BY <1>4 DEF vars, BreakerStep
<1> QED
  BY <1>1, <1>2, <1>3, <1>4, Zenon DEF Next

\* A failure that leaves the breaker closed leaves it below its threshold.
LEMMA FailureJudged ==
    ASSUME TypeOK, NEW h \in Handlers, NEW e, ClosedBelowThreshold
    PROVE  /\ AfterFailure(h, e).status = "closed"
                => AfterFailure(h, e).failures < FailureThreshold
           /\ breaker.status = "open" => AfterFailure(h, e).status = "open"
<1> USE ConstantTypes DEF TypeOK, Breakers
<1> DEFINE counted == [breaker EXCEPT !.failures = UpTo(@ + 1, FailureThreshold),
                                      !.cooled = FALSE]
           trials == UpTo(breaker.trials[h] + 1, HalfOpenMax)
<1>1. /\ counted.status = breaker.status
      /\ counted.failures = UpTo(breaker.failures + 1, FailureThreshold)
      /\ counted.failures \in 0..FailureThreshold
  BY DEF UpTo
<1>2. CASE e \in Permanent
  BY <1>2 DEF AfterFailure, ClosedBelowThreshold
<1>3. CASE e \notin Permanent /\ breaker.status = "half-open"
  <2>1. AfterFailure(h, e) =
          [counted EXCEPT !.trials[h] = trials,
              !.status = IF trials = HalfOpenMax THEN "open" ELSE @]
    BY <1>3 DEF AfterFailure
  <2>2. AfterFailure(h, e).status \in {"open", "half-open"}
    BY <1>1, <1>3, <2>1
  <2> QED
    BY <1>3, <2>2
<1>4. CASE e \notin Permanent /\ breaker.status # "half-open"
  <2>1. AfterFailure(h, e) =
          [counted EXCEPT !.status = IF counted.failures = FailureThreshold
                                     THEN "open" ELSE @]
    BY <1>4 DEF AfterFailure
  <2>2. /\ AfterFailure(h, e).status = IF counted.failures = FailureThreshold
                                       THEN "open" ELSE breaker.status
        /\ AfterFailure(h, e).failures = counted.failures
    BY <1>1, <2>1
  <2> HIDE DEF counted
  <2> QED
    BY <1>1, <2>2
<1> QED
  BY <1>2, <1>3, <1>4

\* Whatever the interleaving of the calls on it, a closed breaker has not
\* counted up to its threshold.
THEOREM ClosedIsBelowThreshold == Spec => []ClosedBelowThreshold
<1>1. Init => ClosedBelowThreshold
  BY ConstantTypes DEF Init, ClosedBelowThreshold
<1>2. TypeOK /\ ClosedBelowThreshold /\ [Next]_vars => ClosedBelowThreshold'
  <2> SUFFICES ASSUME TypeOK, ClosedBelowThreshold, [Next]_vars
               PROVE  ClosedBelowThreshold'
    OBVIOUS
  <2>1. BreakerStep
    BY EveryBreakerStep
  <2>2. CASE UNCHANGED breaker \/ breaker' = [breaker EXCEPT !.cooled = TRUE]
    BY <2>2 DEF ClosedBelowThreshold, TypeOK, Breakers
  <2>3. ASSUME NEW h \in Handlers, breaker' = Refreshed(h)
        PROVE  ClosedBelowThreshold'
    BY <2>3 DEF Refreshed, ClosedBelowThreshold, TypeOK, Breakers
  <2>4. ASSUME NEW h \in Handlers, breaker' = AfterSuccess(h)
        PROVE  ClosedBelowThreshold'
    BY <2>4, ConstantTypes DEF AfterSuccess, ClosedBelowThreshold, TypeOK, Breakers
  <2>5. ASSUME NEW h \in Handlers, NEW e \in Errors, breaker' = AfterFailure(h, e)
        PROVE  ClosedBelowThreshold'
    BY <2>5, FailureJudged DEF ClosedBelowThreshold
  <2> QED
    BY <2>1, <2>2, <2>3, <2>4, <2>5 DEF BreakerStep
<1> QED
  BY <1>1, <1>2, TypeCorrect, PTL DEF Spec

\* An open breaker stays open until its timeout, whichever calls come back.
THEOREM OpensOnlyAfterTimeout == Spec => OpenUntilTimeout
<1>1. /\ TypeOK /\ ClosedBelowThreshold /\ [Next]_vars
      => [breaker.status = "open" /\ breaker'.status # "open" => breaker.cooled]_vars
  <2> SUFFICES ASSUME TypeOK, ClosedBelowThreshold, [Next]_vars,
                      breaker.status = "open", breaker'.status # "open"
               PROVE  breaker.cooled
    OBVIOUS
  <2>1. BreakerStep
    BY EveryBreakerStep
  <2>2. CASE UNCHANGED breaker \/ breaker' = [breaker EXCEPT !.cooled = TRUE]
    BY <2>2 DEF TypeOK, Breakers
  <2>3. ASSUME NEW h \in Handlers, breaker' = Refreshed(h)
        PROVE  breaker.cooled
    BY <2>3 DEF Refreshed
  <2>4. ASSUME NEW h \in Handlers, breaker' = AfterSuccess(h)
        PROVE  breaker.cooled
    BY <2>4 DEF AfterSuccess
  <2>5. ASSUME NEW h \in Handlers, NEW e \in Errors, breaker' = AfterFailure(h, e)
        PROVE  breaker.cooled
    BY <2>5, FailureJudged
  <2> QED
    BY <2>1, <2>2, <2>3, <2>4, <2>5 DEF BreakerStep
<1> QED
  BY <1>1, TypeCorrect, ClosedIsBelowThreshold, PTL DEF Spec, OpenUntilTimeout

-----------------------------------------------------------------------------
(***************************************************************************)
(* Dead letters.  A call is at one of its operations, and those around it  *)
(* wait; letters are written on the way out only, since an error that gets *)
(* a letter is tried again nowhere.                                        *)
(***************************************************************************)
Distinct(d) == \A j, k \in DOMAIN d : j # k => d[j].operation # d[k].operation
OperationsOf(d) == {d[j].operation : j \in DOMAIN d}
Ended(d, r) == d # << >> <=> r \in Permanent

Working == {"attempt", "lookup", "fetching", "backoff"}
Around == {"idle", "nested"}

\* Where a call is (a), with its letters (d) and what its last await gave (r).
Places(a, d, r) ==
    \/ a[ById] = "idle" /\ a[Metadata] = "idle" /\ a[Process] = "idle" /\ Ended(d, r)
    \/ /\ a[ById] \in Working /\ d = << >>
       /\ \/ a[Metadata] = "nested" /\ a[Process] \in Around
          \/ a[Metadata] = "idle" /\ a[Process] = "idle"
    \/ a[ById] = "idle" /\ a[Metadata] \in Working /\ a[Process] \in Around /\ d = << >>
    \/ /\ a[ById] = "idle" /\ a[Metadata] = "settled" /\ a[Process] \in Around
       /\ Ended(d, r) /\ OperationsOf(d) \subseteq {ById}
    \/ a[ById] = "idle" /\ a[Metadata] = "idle" /\ a[Process] \in Working \ {"fetching"} /\ d = << >>
    \/ /\ a[ById] = "idle" /\ a[Metadata] = "idle" /\ a[Process] = "settled"
       /\ Ended(d, r) /\ OperationsOf(d) \subseteq {ById, Metadata}

CallFits(a, d, r) == Distinct(d) /\ Places(a, d, r)

LettersInv == \A t \in Tasks : CallFits(at[t], dlq[t], reply[t])

LEMMA OpsDiffer ==
    /\ Ops = {ById, Metadata, Process}
    /\ ById # Metadata /\ ById # Process /\ Metadata # Process
BY DEF Ops, ById, Metadata, Process

LEMMA NoLetters ==
    /\ Distinct(<< >>) /\ OperationsOf(<< >>) = {}
    /\ \A r : Ended(<< >>, r) <=> r \notin Permanent
BY DEF Distinct, OperationsOf, Ended

LEMMA OneMoreLetter ==
    ASSUME NEW d \in Seq(Letters), Distinct(d), NEW x \in Letters, x.operation \notin OperationsOf(d)
    PROVE  /\ Distinct(Append(d, x)) /\ Append(d, x) # << >>
           /\ OperationsOf(Append(d, x)) = OperationsOf(d) \cup {x.operation}
<1> DEFINE e == Append(d, x)
<1>1. Len(d) \in Nat /\ DOMAIN d = 1..Len(d) /\ Len(e) = Len(d) + 1 /\ DOMAIN e = 1..(Len(d) + 1)
      /\ e[Len(d) + 1] = x
  OBVIOUS
<1>2. \A j \in 1..Len(d) : e[j] = d[j]
  OBVIOUS
<1> HIDE DEF e
<1>3. ASSUME NEW j \in DOMAIN e
      PROVE  (j \in DOMAIN d /\ e[j] = d[j]) \/ (j = Len(d) + 1 /\ e[j] = x)
  <2>1. j \in 1..Len(d) \/ j = Len(d) + 1
    BY <1>1
  <2>2. QED BY <1>1, <1>2, <2>1
<1>4. Distinct(e)
  BY <1>3 DEF Distinct, OperationsOf
<1>5. e # << >>
  BY <1>1
<1>6. OperationsOf(e) = OperationsOf(d) \cup {x.operation}
  <2>1. \A j \in DOMAIN d : j \in DOMAIN e /\ e[j] = d[j]
    BY <1>1, <1>2
  <2>2. Len(d) + 1 \in DOMAIN e
    BY <1>1
  <2>3. QED BY <1>1, <1>3, <2>1, <2>2 DEF OperationsOf
<1>7. QED BY <1>4, <1>5, <1>6 DEF e

\* Where operation o leaves to.
Left(a, o) ==
    [p \in Ops |-> IF p = o THEN "idle"
                   ELSE IF p \in {c \in DOMAIN Inner : Inner[c] = o /\ a[c] = "nested"} THEN "settled"
                   ELSE a[p]]

Active == {"attempt", "lookup", "fetching", "settled"}

LEMMA LeftPlaces ==
    ASSUME NEW a, NEW d, NEW r, CallFits(a, d, r), NEW o \in Ops, a[o] \in Active
    PROVE  /\ a[o] # "settled" => d = << >>
           /\ a[o] = "settled" => Ended(d, r)
           /\ o \notin OperationsOf(d)
           /\ \A e, v : Distinct(e) /\ Ended(e, v) /\ OperationsOf(e) \subseteq OperationsOf(d) \cup {o} =>
                CallFits(Left(a, o), e, v)
<1>1. /\ Left(a, o)[ById] = IF o = ById THEN "idle" ELSE a[ById]
      /\ Left(a, o)[Metadata] = IF o = Metadata THEN "idle"
                                ELSE IF o = ById /\ a[Metadata] = "nested" THEN "settled" ELSE a[Metadata]
      /\ Left(a, o)[Process] = IF o = Process THEN "idle"
                               ELSE IF o = Metadata /\ a[Process] = "nested" THEN "settled" ELSE a[Process]
  BY OpsTyped, OpsDiffer DEF Left
<1> DEFINE b == Left(a, o)
<1> HIDE DEF b
<1>2. CASE o = ById
  BY <1>1, <1>2, OpsDiffer, NoLetters DEF CallFits, Places, Working, Around, Active, b
<1>3. CASE o = Metadata
  BY <1>1, <1>3, OpsDiffer, NoLetters DEF CallFits, Places, Working, Around, Active, b
<1>4. CASE o = Process
  BY <1>1, <1>4, OpsDiffer, NoLetters DEF CallFits, Places, Working, Around, Active, b
<1>5. QED BY <1>2, <1>3, <1>4, OpsDiffer

Others(t) == \A u \in Tasks \ {t} : at'[u] = at[u] /\ dlq'[u] = dlq[u] /\ reply'[u] = reply[u]

LEMMA LeaveLetters ==
    ASSUME TypeOK, LettersInv, NEW t \in Tasks, NEW o \in Ops, at[t][o] \in Active, NEW v, Leave(t, o, v)
    PROVE  /\ at[t][o] # "settled" => dlq[t] = << >>
           /\ at[t][o] = "settled" => Ended(dlq[t], reply[t])
           /\ o \notin OperationsOf(dlq[t]) /\ Distinct(dlq[t])
           /\ \A e : Distinct(e) /\ Ended(e, v) /\ OperationsOf(e) \subseteq OperationsOf(dlq[t]) \cup {o} =>
                CallFits(at'[t], e, reply'[t])
           /\ \A u \in Tasks \ {t} : at'[u] = at[u] /\ reply'[u] = reply[u]
<1>1. CallFits(at[t], dlq[t], reply[t])
  BY DEF LettersInv
<1>2. at'[t] = Left(at[t], o) /\ reply'[t] = v
  BY DEF Leave, TypeOK, Callers, Left
<1>3. \A u \in Tasks \ {t} : at'[u] = at[u] /\ reply'[u] = reply[u]
  BY DEF Leave, TypeOK
<1>4. QED BY <1>1, <1>2, <1>3, LeftPlaces DEF CallFits

\* An operation that returns what is no error leaves no letters behind.
LEMMA ReturnLetters ==
    ASSUME TypeOK, LettersInv, NEW t \in Tasks, NEW o \in Ops, at[t][o] \in Active, NEW v, Return(t, o, v),
           v \notin Permanent, at[t][o] = "settled" => reply[t] \notin Permanent
    PROVE  CallFits(at'[t], dlq'[t], reply'[t]) /\ Others(t)
<1>1. Leave(t, o, v) /\ dlq' = dlq
  BY DEF Return
<1>2. dlq[t] = << >>
  BY <1>1, LeaveLetters DEF Ended
<1>3. CallFits(at'[t], << >>, reply'[t])
  BY <1>1, LeaveLetters, NoLetters
<1>4. Others(t)
  BY <1>1, LeaveLetters DEF Others
<1>5. QED BY <1>1, <1>2, <1>3, <1>4

\* An error is tried again, without a letter so far, or goes out, with one if no
\* retry can cure it.
LEMMA FailedLetters ==
    ASSUME TypeOK, LettersInv, NEW t \in Tasks, NEW o \in Ops, at[t][o] \in Active, NEW e \in Errors,
           AttemptFailed(t, o, e), at[t][o] = "settled" => e = reply[t]
    PROVE  CallFits(at'[t], dlq'[t], reply'[t]) /\ Others(t)
<1>1. CallFits(at[t], dlq[t], reply[t])
  BY DEF LettersInv
<1>2. at[t] \in [Ops -> Stages] /\ dlq[t] \in Seq(Letters)
  BY DEF TypeOK
<1>3. Transient \cap Permanent = {}
  BY DEF Transient, Permanent
<1>4. CASE Retriable(e) /\ RetriesLeft(t, o)
  <2>1. at' = [at EXCEPT ![t][o] = "backoff"] /\ reply' = [reply EXCEPT ![t] = Pending] /\ dlq' = dlq
    BY <1>4 DEF AttemptFailed
  <2>2. at'[t] = [at[t] EXCEPT ![o] = "backoff"]
    BY <2>1 DEF TypeOK
  <2>3. Others(t)
    BY <2>1 DEF TypeOK, Others
  <2>4. dlq[t] = << >>
    BY <1>1, <1>3, <1>4, LeftPlaces DEF Retriable, Ended
  <2>5. at'[t][o] = "backoff" /\ \A p \in Ops \ {o} : at'[t][p] = at[t][p]
    BY <1>2, <2>2
  <2>6. Places(at'[t], << >>, reply'[t])
    <3>1. CASE o = ById
      BY <1>1, <2>4, <2>5, <3>1, OpsDiffer DEF CallFits, Places, Working, Around, Active
    <3>2. CASE o = Metadata
      BY <1>1, <2>4, <2>5, <3>2, OpsDiffer DEF CallFits, Places, Working, Around, Active
    <3>3. CASE o = Process
      BY <1>1, <2>4, <2>5, <3>3, OpsDiffer DEF CallFits, Places, Working, Around, Active
    <3>4. QED BY <3>1, <3>2, <3>3, OpsDiffer
  <2>7. QED BY <2>1, <2>3, <2>4, <2>6, NoLetters DEF CallFits
<1>5. CASE ~(Retriable(e) /\ RetriesLeft(t, o))
  <2> DEFINE f == Transformed(e)
             x == [operation |-> o, error |-> f]
  <2>1. Leave(t, o, f)
    BY <1>5 DEF AttemptFailed
  <2>2. dlq' = IF f \in Permanent THEN [dlq EXCEPT ![t] = Append(@, x)] ELSE dlq
    BY <1>5 DEF AttemptFailed
  <2>3. f \notin Permanent => e \notin Permanent
    BY DEF Transformed, Permanent
  <2> HIDE DEF f
  <2>4. \A u \in Tasks \ {t} : dlq'[u] = dlq[u]
    BY <2>2 DEF TypeOK
  <2>5. Others(t)
    BY <2>1, <2>4, LeaveLetters DEF Others
  <2>6. CASE f \in Permanent
    <3>1. x \in Letters /\ x.operation = o
      BY <2>6 DEF Letters
    <3> HIDE DEF x
    <3>2. dlq'[t] = Append(dlq[t], x)
      BY <2>2, <2>6 DEF TypeOK
    <3>3. /\ Distinct(Append(dlq[t], x)) /\ Append(dlq[t], x) # << >>
          /\ OperationsOf(Append(dlq[t], x)) = OperationsOf(dlq[t]) \cup {o}
      BY <1>2, <2>1, <3>1, LeaveLetters, OneMoreLetter
    <3>4. Ended(Append(dlq[t], x), f)
      BY <2>6, <3>3 DEF Ended
    <3>5. CallFits(at'[t], Append(dlq[t], x), reply'[t])
      BY <2>1, <3>3, <3>4, LeaveLetters
    <3>6. QED BY <2>5, <3>2, <3>5
  <2>7. CASE f \notin Permanent
    <3>1. dlq[t] = << >> /\ dlq' = dlq
      BY <2>1, <2>2, <2>3, <2>7, LeaveLetters DEF Ended
    <3>2. CallFits(at'[t], << >>, reply'[t])
      BY <2>1, <2>7, LeaveLetters, NoLetters
    <3>3. QED BY <2>5, <3>1, <3>2
  <2>8. QED BY <2>6, <2>7
<1>6. QED BY <1>4, <1>5

-----------------------------------------------------------------------------
\* A handle that goes on without leaving.
LEMMA MovesOn ==
    ASSUME TypeOK, LettersInv, NEW t \in Tasks, NEW o \in Ops, NEW s \in Working, NEW r,
           at[t][o] \in Working \cup {"settled"},
           at[t][o] = "settled" => reply[t] \notin Permanent,
           o = Process => s # "fetching",
           at' = [at EXCEPT ![t][o] = s], reply' = [reply EXCEPT ![t] = r], dlq' = dlq
    PROVE  CallFits(at'[t], dlq'[t], reply'[t]) /\ Others(t)
<1>1. CallFits(at[t], dlq[t], reply[t])
  BY DEF LettersInv
<1>2. at[t] \in [Ops -> Stages] /\ at'[t] = [at[t] EXCEPT ![o] = s] /\ Others(t)
  BY DEF TypeOK, Others
<1>3. at'[t][o] = s /\ \A p \in Ops \ {o} : at'[t][p] = at[t][p]
  BY <1>2
<1>4. dlq[t] = << >> /\ Places(at'[t], << >>, reply'[t])
  <2>1. CASE o = ById
    BY <1>1, <1>3, <2>1, OpsDiffer DEF CallFits, Places, Working, Around, Ended
  <2>2. CASE o = Metadata
    BY <1>1, <1>3, <2>2, OpsDiffer DEF CallFits, Places, Working, Around, Ended
  <2>3. CASE o = Process
    BY <1>1, <1>3, <2>3, OpsDiffer DEF CallFits, Places, Working, Around, Ended
  <2>4. QED BY <2>1, <2>2, <2>3, OpsDiffer
<1>5. QED BY <1>2, <1>4, NoLetters DEF CallFits

LEMMA SameReply ==
    ASSUME TypeOK, NEW t \in Tasks, UNCHANGED reply
    PROVE  reply' = [reply EXCEPT ![t] = reply[t]]
BY DEF TypeOK

LEMMA OperationLetters ==
    ASSUME TypeOK, LettersInv, NEW t \in Tasks, NEW o \in Ops, Attempt(t, o) \/ Retry(t, o) \/ Lookup(t, o)
    PROVE  CallFits(at'[t], dlq'[t], reply'[t]) /\ Others(t)
<1>1. CASE Attempt(t, o)
  <2>1. at[t][o] = "attempt"
    BY <1>1 DEF Attempt
  <2>2. CASE AttemptFailed(t, o, "CircuitBreakerOpenError")
    BY <2>1, <2>2, FailedLetters DEF Errors, Transient, Active
  <2>3. CASE at' = [at EXCEPT ![t][o] = "lookup"] /\ UNCHANGED <<reply, dlq>>
    <3>1. reply' = [reply EXCEPT ![t] = reply[t]]
      BY <2>3, SameReply
    <3>2. QED BY <2>1, <2>3, <3>1, MovesOn DEF Working
  <2>4. QED BY <1>1, <2>2, <2>3 DEF Attempt
<1>2. CASE Retry(t, o)
  <2>1. at[t][o] = "backoff" /\ at' = [at EXCEPT ![t][o] = "attempt"] /\ UNCHANGED <<reply, dlq>>
    BY <1>2 DEF Retry
  <2>2. reply' = [reply EXCEPT ![t] = reply[t]]
    BY <2>1, SameReply
  <2>3. QED BY <2>1, <2>2, MovesOn DEF Working
<1>3. CASE Lookup(t, o)
  <2>1. at[t][o] = "lookup"
    BY <1>3 DEF Lookup
  <2>2. ASSUME NEW v \in {"found", "decoded"}, Return(t, o, v)
        PROVE  CallFits(at'[t], dlq'[t], reply'[t]) /\ Others(t)
    BY <2>1, <2>2, ReturnLetters DEF Permanent, Active
  <2>3. CASE o = ById /\ Request(t, o) /\ UNCHANGED dlq
    <3>1. at' = [at EXCEPT ![t][o] = "fetching"] /\ reply' = [reply EXCEPT ![t] = Pending]
      BY <2>3 DEF Request
    <3>2. QED BY <2>1, <2>3, <3>1, MovesOn, OpsDiffer DEF Working
  <2>4. CASE /\ o # ById /\ UNCHANGED <<reply, dlq>>
             /\ at' = [at EXCEPT ![t][o] = "nested", ![t][Inner[o]] = "attempt"]
    <3>1. o \in {Metadata, Process} /\ Inner[o] = (IF o = Process THEN Metadata ELSE ById)
      BY <2>4, OpsTyped, OpsDiffer
    <3>2. at[t] \in [Ops -> Stages] /\ Inner[o] \in Ops
      BY <3>1, OpsTyped DEF TypeOK
    <3>3. at'[t] = [at[t] EXCEPT ![o] = "nested", ![Inner[o]] = "attempt"] /\ Others(t)
      BY <2>4, <3>2 DEF TypeOK, Others
    <3>4. CallFits(at[t], dlq[t], reply[t]) /\ dlq'[t] = dlq[t]
      BY <2>4 DEF LettersInv
    <3>5. at'[t][Inner[o]] = "attempt" /\ Inner[o] # o /\ at'[t][o] = "nested"
          /\ \A p \in Ops \ {o, Inner[o]} : at'[t][p] = at[t][p]
      BY <3>1, <3>2, <3>3, OpsDiffer
    <3>6. dlq[t] = << >> /\ Places(at'[t], << >>, reply'[t])
      <4>1. CASE o = Metadata
        BY <2>1, <3>1, <3>4, <3>5, <4>1, OpsDiffer DEF CallFits, Places, Working, Around
      <4>2. CASE o = Process
        BY <2>1, <3>1, <3>4, <3>5, <4>2, OpsDiffer DEF CallFits, Places, Working, Around
      <4>3. QED BY <3>1, <4>1, <4>2
    <3>7. QED BY <3>3, <3>4, <3>6, NoLetters DEF CallFits
  <2>5. QED BY <1>3, <2>2, <2>3, <2>4 DEF Lookup
<1>4. QED BY <1>1, <1>2, <1>3

LEMMA AnswerLetters ==
    ASSUME TypeOK, LettersInv, NEW t \in Tasks, NEW v, InscriptionAnswered(t, v) \/ MetadataAnswered(t, v)
    PROVE  CallFits(at'[t], dlq'[t], reply'[t]) /\ Others(t)
<1>1. ASSUME NEW o \in Ops, NEW w \in Results, at[t][o] = "fetching", Return(t, o, w)
      PROVE  CallFits(at'[t], dlq'[t], reply'[t]) /\ Others(t)
  <2>1. w \notin Permanent
    BY <1>1 DEF Results, Permanent
  <2>2. QED BY <1>1, <2>1, ReturnLetters DEF Active
<1>2. ASSUME NEW o \in Ops, NEW e \in Errors, at[t][o] = "fetching", Throw(t, o, e)
      PROVE  CallFits(at'[t], dlq'[t], reply'[t]) /\ Others(t)
  BY <1>2, FailedLetters DEF Active, Throw
<1>3. CASE InscriptionAnswered(t, v)
  BY <1>1, <1>2, <1>3, OpsTyped DEF InscriptionAnswered, Results
<1>4. CASE MetadataAnswered(t, v)
  <2>1. "DataParsingError" \in Errors
    BY DEF Errors, Permanent
  <2>2. QED BY <1>1, <1>2, <1>4, <2>1, OpsTyped DEF MetadataAnswered, Results
<1>5. QED BY <1>3, <1>4

LEMMA SettledLetters ==
    ASSUME TypeOK, LettersInv, NEW t \in Tasks, InscriptionReturned(t) \/ MetadataReturned(t)
    PROVE  CallFits(at'[t], dlq'[t], reply'[t]) /\ Others(t)
<1>0. \A w \in Results : w \notin Permanent
  BY DEF Results, Permanent
<1>1. ASSUME NEW o \in Ops, NEW w \in Results, at[t][o] = "settled", reply[t] \in Results, Return(t, o, w)
      PROVE  CallFits(at'[t], dlq'[t], reply'[t]) /\ Others(t)
  BY <1>0, <1>1, ReturnLetters DEF Active
<1>2. ASSUME NEW o \in Ops, reply[t] \in Errors, at[t][o] = "settled", Throw(t, o, reply[t])
      PROVE  CallFits(at'[t], dlq'[t], reply'[t]) /\ Others(t)
  BY <1>2, FailedLetters DEF Active, Throw
<1>3. CASE InscriptionReturned(t)
  <2>1. at[t][Metadata] = "settled"
    BY <1>3 DEF InscriptionReturned
  <2>2. CASE reply[t] = "found" /\ Request(t, Metadata) /\ UNCHANGED dlq
    <3>1. at' = [at EXCEPT ![t][Metadata] = "fetching"] /\ reply' = [reply EXCEPT ![t] = Pending]
      BY <2>2 DEF Request
    <3>2. reply[t] \notin Permanent
      BY <2>2 DEF Permanent
    <3>3. QED BY <2>1, <2>2, <3>1, <3>2, MovesOn, OpsTyped, OpsDiffer DEF Working
  <2>3. QED BY <1>1, <1>2, <1>3, <2>1, <2>2, OpsTyped DEF InscriptionReturned, Results
<1>4. CASE MetadataReturned(t)
  BY <1>1, <1>2, <1>4, OpsTyped DEF MetadataReturned, Results
<1>5. QED BY <1>3, <1>4

LEMMA CallLetters ==
    ASSUME TypeOK, LettersInv, NEW t \in Tasks, NEW o \in Called, NEW i, Call(t, o, i)
    PROVE  CallFits(at'[t], dlq'[t], reply'[t]) /\ Others(t)
<1>1. o \in Ops /\ at[t] \in [Ops -> Stages]
  BY ConstantTypes DEF TypeOK
<1>2. /\ at' = [at EXCEPT ![t][o] = "attempt"] /\ dlq' = [dlq EXCEPT ![t] = << >>]
      /\ reply' = [reply EXCEPT ![t] = Pending] /\ \A p \in Ops : at[t][p] = "idle"
  BY DEF Call, Over
<1>3. at'[t] = [at[t] EXCEPT ![o] = "attempt"] /\ dlq'[t] = << >> /\ Others(t)
  BY <1>2 DEF TypeOK, Others
<1>4. at'[t][o] = "attempt" /\ \A p \in Ops \ {o} : at'[t][p] = "idle"
  BY <1>1, <1>2, <1>3
<1>5. Places(at'[t], << >>, reply'[t])
  BY <1>1, <1>4, OpsDiffer DEF Places, Working, Around
<1>6. QED BY <1>3, <1>5, NoLetters DEF CallFits

LEMMA LettersStep ==
    ASSUME TypeOK, LettersInv, [Next]_vars
    PROVE  LettersInv'
<1>1. ASSUME NEW t \in Tasks, CallFits(at'[t], dlq'[t], reply'[t]) /\ Others(t)
      PROVE  LettersInv'
  BY <1>1 DEF LettersInv, Others
<1>2. ASSUME NEW t \in Tasks, Step(t)
      PROVE  LettersInv'
  <2>1. CallFits(at'[t], dlq'[t], reply'[t]) /\ Others(t)
    BY <1>2, OperationLetters, AnswerLetters, SettledLetters DEF Step
  <2>2. QED BY <1>1, <2>1
<1>3. ASSUME NEW t \in Tasks, NEW o \in Called, NEW i \in Ids, Call(t, o, i)
      PROVE  LettersInv'
  BY <1>1, <1>3, CallLetters
<1>4. CASE Cool
  BY <1>4 DEF Cool, LettersInv
<1>5. CASE UNCHANGED vars
  BY <1>5 DEF vars, LettersInv
<1>6. QED BY <1>2, <1>3, <1>4, <1>5 DEF Next

\* Letters and outcomes agree for any number of calls, retries and nestings: a call
\* that is over left letters exactly when no retry could have cured its error, and at
\* most one for each operation (error-handler.ts handle, retry.ts, dlq.ts).
THEOREM LettersMatchOutcomes == Spec => []DeadLettersMatchOutcome
<1>1. Init => LettersInv
  <2> SUFFICES ASSUME Init, NEW t \in Tasks PROVE CallFits(at[t], dlq[t], reply[t])
    BY DEF LettersInv
  <2>1. at[t][ById] = "idle" /\ at[t][Metadata] = "idle" /\ at[t][Process] = "idle"
        /\ dlq[t] = << >> /\ reply[t] = Pending
    BY OpsTyped DEF Init
  <2>2. Pending \notin Permanent
    BY DEF Pending, Permanent
  <2>3. QED BY <2>1, <2>2, NoLetters DEF CallFits, Places
<1>2. LettersInv => DeadLettersMatchOutcome
  <2> SUFFICES ASSUME LettersInv, NEW t \in Tasks
               PROVE  /\ Over(t) => (dlq[t] # << >> <=> reply[t] \in Permanent)
                      /\ \A j, k \in DOMAIN dlq[t] :
                           j # k => dlq[t][j].operation # dlq[t][k].operation
    BY DEF DeadLettersMatchOutcome
  <2>1. CallFits(at[t], dlq[t], reply[t])
    BY DEF LettersInv
  <2>2. Over(t) => Ended(dlq[t], reply[t])
    BY <2>1, OpsTyped DEF Over, CallFits, Places, Working
  <2>3. QED BY <2>1, <2>2 DEF CallFits, Distinct, Ended
<1>3. QED BY <1>1, <1>2, LettersStep, TypeCorrect, PTL DEF Spec
=============================================================================
