------------------------ MODULE IndexerWorkersProofs ------------------------
(***************************************************************************)
(* Proofs about the replicas of the indexer, for any number of replicas,   *)
(* any batch size, any chain and any combination of faults.                *)
(***************************************************************************)
EXTENDS IndexerWorkers, FiniteSetTheorems, TLAPS

\* The phases a step of worker w may be in, and what it does to its memory.
LEMMA ConstantTypes ==
    /\ BatchSize \in Nat
    /\ BatchSize >= 1
    /\ StartInscription \in Nat
    /\ InitTip \in 0..MaxTip
    /\ MaxTip \in Nat
    /\ Epoch \in Nat
BY SizesAssumption, EpochAssumption

\* Returning to the head of the loop leaves a well-typed memory.
LEMMA ForgetTyped ==
    ASSUME TypeOK, NEW w \in Workers, Forget(w)
    PROVE  /\ batch' \in [Workers -> Batch]
           /\ checked' \in [Workers -> SUBSET (0..MaxTip)]
           /\ found' \in [Workers -> SUBSET (0..MaxTip)]
           /\ failed' \in [Workers -> SUBSET (0..MaxTip)]
           /\ missing' \in [Workers -> SUBSET Nat]
           /\ target' \in [Workers -> Nat]
           /\ scan' \in [Workers -> SUBSET Workers]
           /\ doomed' \in [Workers -> SUBSET Workers]
BY DEF TypeOK, Forget, Batch, NoBatch

\* The numbers of a batch are natural numbers.
LEMMA NumbersTyped ==
    ASSUME TypeOK, NEW w \in Workers
    PROVE  Numbers(w) \subseteq Nat /\ batch[w].start \in Nat /\ batch[w].end \in Nat
BY DEF TypeOK, Numbers, Batch

LEMMA ClaimsStayTyped ==
    ASSUME TypeOK, NEW owners
    PROVE  ClaimsWithout(owners) \subseteq Claim /\ ClaimOwners \subseteq Workers
BY DEF TypeOK, ClaimsWithout, ClaimOwners, Claim

LEMMA CursorTyped ==
    ASSUME TypeOK
    PROVE  CursorValue \in Nat
BY ConstantTypes DEF TypeOK, CursorValue, NoCursor

\* An attempt of the script is an interval of natural numbers.
LEMMA AttemptTyped ==
    ASSUME TypeOK, NEW k \in 0 .. MaxAttempts - 1
    PROVE  /\ AttemptStart(k) \in Nat /\ AttemptEnd(k) \in Nat
           /\ CursorValue \in Nat
<1> DEFINE m == k * BatchSize
<1>1. m \in Nat
  BY ConstantTypes DEF MaxAttempts
<1>2. CursorValue \in Nat
  BY CursorTyped
<1>3. /\ AttemptStart(k) = CursorValue + 1 + m
      /\ AttemptEnd(k) = CursorValue + 1 + m + BatchSize - 1
  BY DEF AttemptStart, AttemptEnd
<1> HIDE DEF m
<1>4. QED
  BY <1>1, <1>2, <1>3, ConstantTypes

LEMMA MakeClaimTyped ==
    ASSUME TypeOK, NEW w \in Workers, NEW k \in 0 .. MaxAttempts - 1,
           MakeClaim(w, k)
    PROVE  claims' \subseteq Claim /\ SteppedOver(k) \subseteq Nat
<1>1. claims' \subseteq Claim
  <2> DEFINE new == [owner |-> w, start |-> AttemptStart(k),
                     end |-> AttemptEnd(k), claimedAt |-> now]
  <2>1. new \in Claim
    BY AttemptTyped DEF Claim, TypeOK
  <2>2. ClaimsWithout({w}) \subseteq Claim
    BY ClaimsStayTyped
  <2>3. claims' = ClaimsWithout({w}) \cup {new}
    BY DEF MakeClaim
  <2> HIDE DEF new
  <2>4. QED
    BY <2>1, <2>2, <2>3
<1>2. SteppedOver(k) \subseteq Nat
  BY AttemptTyped DEF SteppedOver
<1>3. QED
  BY <1>1, <1>2

\* The memory of a worker is well typed after any step of its loop.
LEMMA StartTyped ==
    ASSUME TypeOK, NEW w \in Workers,
           Connect(w) \/ InitCursor(w) \/ ClaimBatch(w)
    PROVE  TypeOK'
<1> USE DEF TypeOK, Goto, Phase
<1>1. CASE Connect(w)
  BY <1>1 DEF Connect, redisVars, envVars, memoryVars, itemVars, scanVars, lifeVars
<1>2. CASE InitCursor(w)
  BY <1>2, ConstantTypes DEF InitCursor, envVars, memoryVars, itemVars, scanVars, lifeVars
<1>3. CASE ClaimBatch(w)
  <2>1. PICK k \in 0 .. MaxAttempts - 1 :
          /\ MakeClaim(w, k)
          /\ batch' = [batch EXCEPT ![w] = [start |-> AttemptStart(k),
                                            end   |-> AttemptEnd(k)]]
          /\ givenUp' = givenUp \cup SteppedOver(k)
    BY <1>3 DEF ClaimBatch
  <2>2. batch' \in [Workers -> Batch]
    BY <2>1, AttemptTyped DEF Batch
  <2>3. claims' \subseteq Claim /\ givenUp' \subseteq Nat
    BY <2>1, MakeClaimTyped
  <2>4. QED
    BY <1>3, <2>2, <2>3 DEF ClaimBatch, envVars, itemVars, scanVars, lifeVars
<1>4. QED
  BY <1>1, <1>2, <1>3

LEMMA ProcessTyped ==
    ASSUME TypeOK, NEW w \in Workers, Process(w)
    PROVE  TypeOK'
<1> PICK n \in Numbers(w) :
      \/ NotThere(w, n)
      \/ CheckIndexed(w, n)
      \/ StoreResource(w, n)
      \/ AnalysisFails(w, n)
      \/ StoreUnheard(w, n)
      \/ CallThrows(w, n)
  BY DEF Process
<1>n. n \in Nat /\ tip \in Nat /\ (n <= tip => n \in 0..MaxTip)
  BY NumbersTyped, ConstantTypes DEF TypeOK
<1> USE DEF TypeOK, Goto, Phase
<1>1. CASE NotThere(w, n)
  BY <1>1, <1>n DEF NotThere, redisVars, envVars, scanVars, lifeVars
<1>2. CASE CheckIndexed(w, n)
  <2>1. n \in 0..MaxTip
    BY <1>2, <1>n DEF CheckIndexed
  <2>2. CASE n \in indexed
    <3>1. found' = [found EXCEPT ![w] = @ \cup {n}] /\ checked' = checked
      BY <1>2, <2>2 DEF CheckIndexed
    <3>2. QED
      BY <1>2, <2>1, <3>1 DEF CheckIndexed, redisVars, envVars, scanVars, lifeVars
  <2>3. CASE n \notin indexed
    <3>1. checked' = [checked EXCEPT ![w] = @ \cup {n}] /\ found' = found
      BY <1>2, <2>3 DEF CheckIndexed
    <3>2. QED
      BY <1>2, <2>1, <3>1 DEF CheckIndexed, redisVars, envVars, scanVars, lifeVars
  <2>4. QED
    BY <2>2, <2>3
<1>3. CASE StoreResource(w, n)
  <2>1. n \in 0..MaxTip
    BY <1>3 DEF StoreResource
  <2>2. QED
    BY <1>3, <2>1 DEF StoreResource, envVars, scanVars, lifeVars
<1>4. CASE AnalysisFails(w, n)
  <2>1. n \in 0..MaxTip
    BY <1>4, <1>n DEF AnalysisFails
  <2>2. QED
    BY <1>4, <2>1 DEF AnalysisFails, envVars, scanVars, lifeVars
<1>5. CASE CallThrows(w, n)
  BY <1>5, <1>n DEF CallThrows, redisVars, envVars, scanVars, lifeVars
<1>6. CASE StoreUnheard(w, n)
  <2>1. n \in 0..MaxTip
    BY <1>6, <1>n DEF StoreUnheard
  <2>2. /\ indexed' \subseteq 0..MaxTip
        /\ copies' \in [0..MaxTip -> Nat]
        /\ errored' \subseteq 0..MaxTip
    <3>1. \/ /\ indexed' = indexed \cup {n}
             /\ copies' = [copies EXCEPT ![n] = @ + 1]
             /\ errored' = errored
          \/ errored' = errored \cup {n} /\ indexed' = indexed /\ copies' = copies
      BY <1>6 DEF StoreUnheard
    <3>2. [copies EXCEPT ![n] = @ + 1] \in [0..MaxTip -> Nat]
      BY <2>1
    <3>3. indexed \cup {n} \subseteq 0..MaxTip /\ errored \cup {n} \subseteq 0..MaxTip
      BY <2>1
    <3>4. indexed' \subseteq 0..MaxTip /\ errored' \subseteq 0..MaxTip
      BY <3>1, <3>3
    <3>5. copies' \in [0..MaxTip -> Nat]
      BY <3>1, <3>2
    <3>6. QED
      BY <3>4, <3>5
  <2>3. QED
    BY <1>6, <2>1, <2>2 DEF StoreUnheard, envVars, scanVars, lifeVars
<1>7. QED
  BY <1>1, <1>2, <1>3, <1>4, <1>5, <1>6

LEMMA ConcludeTyped ==
    ASSUME TypeOK, NEW w \in Workers, Conclude(w)
    PROVE  TypeOK'
<1>1. CASE FinishOvershoot(w)
  BY <1>1 DEF TypeOK, Goto, Phase, FinishOvershoot, redisVars, envVars,
              memoryVars, itemVars, scanVars, lifeVars
<1>2. CASE FinishBatch(w)
  <2>1. target' \in [Workers -> Nat]
    BY <1>2, NumbersTyped DEF FinishBatch, TypeOK
  <2>2. QED
    BY <1>2, <2>1 DEF TypeOK, Goto, Phase, FinishBatch, redisVars, envVars,
                      itemVars, scanVars, lifeVars
<1>3. CASE FinishUnprocessed(w)
  <2>1. Forget(w)
    BY <1>3 DEF FinishUnprocessed
  <2>2. QED
    BY <1>3, <2>1, ForgetTyped DEF TypeOK, Goto, Phase, FinishUnprocessed,
                      redisVars, envVars, lifeVars
<1>4. QED
  BY <1>1, <1>2, <1>3 DEF Conclude

LEMMA CleanupTyped ==
    ASSUME TypeOK, NEW w \in Workers, Cleanup(w)
    PROVE  TypeOK'
<1> USE DEF TypeOK, Goto, Phase
<1>1. CASE CompleteBatch(w)
  BY <1>1 DEF CompleteBatch, envVars, memoryVars, itemVars, scanVars, lifeVars
<1>2. CASE CleanupKeys(w)
  BY <1>2, ClaimsStayTyped DEF CleanupKeys, redisVars, envVars, itemVars, lifeVars
<1>3. ASSUME NEW k \in scan[w], CleanupGet(w, k)
      PROVE  TypeOK'
  <2>1. {c.owner : c \in {d \in claims : d.owner = k /\ LooksExpired(d)}}
          \subseteq Workers
    BY DEF Claim
  <2>2. QED
    BY <1>3, <2>1 DEF CleanupGet, redisVars, envVars, itemVars, lifeVars
<1>4. CASE CleanupDel(w)
  BY <1>4, ClaimsStayTyped DEF CleanupDel, envVars, itemVars, lifeVars
<1>5. CASE CleanupDone(w)
  <2>1. Forget(w)
    BY <1>5 DEF CleanupDone
  <2>2. QED
    BY <1>5, <2>1, ForgetTyped DEF CleanupDone, redisVars, envVars, lifeVars
<1>6. QED
  BY <1>1, <1>2, <1>3, <1>4, <1>5 DEF Cleanup

LEMMA RecoverTyped ==
    ASSUME TypeOK, NEW w \in Workers, Recover(w)
    PROVE  TypeOK'
<1> USE DEF TypeOK, Goto, Phase
<1>1. CASE ReleaseClaim(w)
  BY <1>1, ClaimsStayTyped DEF ReleaseClaim, envVars, memoryVars, itemVars,
                               scanVars, lifeVars
<1>2. CASE ClearKeys(w)
  BY <1>2, ClaimsStayTyped DEF ClearKeys, redisVars, envVars, itemVars, lifeVars
<1>3. CASE ClearDel(w)
  BY <1>3, ClaimsStayTyped DEF ClearDel, envVars, memoryVars, itemVars,
                               scanVars, lifeVars
<1>4. CASE FindLatest(w)
  <2>1. LatestNumbers \subseteq Nat
    BY ConstantTypes DEF LatestNumbers
  <2>2. \A i \in Int : Max2(0, i) \in Nat
    BY DEF Max2
  <2>3. batch[w].start - BatchSize \in Int
    BY ConstantTypes DEF Batch
  <2>4. target' \in [Workers -> Nat]
    <3>1. PICK latest \in LatestNumbers :
            target' = [target EXCEPT ![w] =
                         IF latest > 0 THEN Max2(0, latest - 1)
                         ELSE Max2(0, batch[w].start - BatchSize)]
      BY <1>4 DEF FindLatest
    <3>2. latest - 1 \in Int
      BY <2>1
    <3>3. Max2(0, latest - 1) \in Nat /\ Max2(0, batch[w].start - BatchSize) \in Nat
      BY <2>2, <2>3, <3>2
    <3>4. QED
      BY <3>1, <3>3
  <2>5. QED
    BY <1>4, <2>4 DEF FindLatest, redisVars, envVars, itemVars, scanVars, lifeVars
<1>5. CASE ResetCursor(w)
  <2>1. Forget(w)
    BY <1>5 DEF ResetCursor
  <2>2. CursorValue + 1 .. target[w] \subseteq Nat
    BY CursorTyped
  <2>3. QED
    BY <1>5, <2>1, <2>2, ForgetTyped DEF ResetCursor, envVars, lifeVars
<1>6. QED
  BY <1>1, <1>2, <1>3, <1>4, <1>5 DEF Recover

LEMMA DisturbTyped ==
    ASSUME TypeOK, NEW w \in Workers, Disturb(w)
    PROVE  TypeOK'
<1>x. ASSUME Exit(w)
      PROVE  /\ Forget(w) /\ givenUp' \subseteq Nat /\ stopping' \subseteq Workers
             /\ pc' \in [Workers -> Phase]
  BY <1>x, NumbersTyped DEF Exit, TypeOK, Goto, Phase, Unfinished
<1> USE DEF TypeOK, Goto, Phase
<1>1. CASE LoopError(w)
  <2>1. Forget(w) /\ pc' \in [Workers -> Phase]
    BY <1>1 DEF LoopError
  <2>2. cursor' \in Nat \cup {NoCursor} /\ givenUp' \subseteq Nat
    <3>1. CursorValue + 1 .. target[w] \subseteq Nat /\ target[w] \in Nat
      BY CursorTyped
    <3>2. QED
      BY <1>1, <3>1 DEF LoopError
  <2>3. QED
    BY <1>1, <2>1, <2>2, ForgetTyped DEF LoopError, envVars, lifeVars
<1>6. CASE ClaimUnheard(w)
  <2>1. PICK k \in 0 .. MaxAttempts - 1 :
          /\ MakeClaim(w, k)
          /\ givenUp' = givenUp \cup SteppedOver(k)
                          \cup (AttemptStart(k) .. AttemptEnd(k))
    BY <1>6 DEF ClaimUnheard
  <2>2. claims' \subseteq Claim /\ SteppedOver(k) \subseteq Nat
    BY <2>1, MakeClaimTyped
  <2>4. AttemptStart(k) .. AttemptEnd(k) \subseteq Nat
    BY SMTT(30), AttemptTyped
  <2>5. givenUp' \subseteq Nat
    BY <2>1, <2>2, <2>4
  <2>3. QED
    BY <1>6, <2>2, <2>5 DEF ClaimUnheard, envVars, memoryVars, itemVars,
                       scanVars, lifeVars
<1>7. CASE CleanupError(w)
  <2>1. pc' \in [Workers -> Phase] /\ (Forget(w) \/ UNCHANGED memoryVars)
    BY <1>7 DEF CleanupError
  <2>2. CASE Forget(w)
    BY <1>7, <2>1, <2>2, ForgetTyped DEF CleanupError, redisVars, envVars, lifeVars
  <2>3. CASE UNCHANGED memoryVars
    BY <1>7, <2>1, <2>3 DEF CleanupError, redisVars, envVars, lifeVars,
                            memoryVars, itemVars, scanVars
  <2>4. QED
    BY <2>1, <2>2, <2>3
<1>2. CASE Crash(w)
  BY <1>2, <1>x, ForgetTyped DEF Crash, redisVars, envVars
<1>3. CASE StopSignal(w)
  BY SMTT(30), <1>3, ClaimsStayTyped DEF StopSignal, envVars, memoryVars, itemVars, scanVars
<1>4. CASE StopExit(w)
  BY <1>4, <1>x, ForgetTyped DEF StopExit, redisVars, envVars
<1>5. QED
  BY <1>1, <1>2, <1>3, <1>4, <1>6, <1>7 DEF Disturb

LEMMA EnvironmentTyped ==
    ASSUME TypeOK, Environment
    PROVE  TypeOK'
<1> USE DEF TypeOK
<1>1. CASE Inscribe
  BY <1>1, ConstantTypes DEF Inscribe, redisVars, memoryVars, itemVars, scanVars, lifeVars
<1>2. CASE Tick
  BY <1>2 DEF Tick, ClaimTtlSeconds, redisVars, memoryVars, itemVars, scanVars, lifeVars
<1>3. CASE \E c \in claims : ClaimExpires(c)
  BY <1>3 DEF ClaimExpires, envVars, memoryVars, itemVars, scanVars, lifeVars
<1>4. QED
  BY <1>1, <1>2, <1>3 DEF Environment

\* Type correctness: whatever the replicas and the faults do, every Redis
\* value and every local variable keeps its type; in particular only numbers
\* of existing inscriptions are ever indexed or errored.
THEOREM TypeCorrect == Spec => []TypeOK
<1>1. Init => TypeOK
  BY ConstantTypes DEF Init, TypeOK, Phase, Batch, NoBatch, NoCursor
<1>2. TypeOK /\ [Next]_vars => TypeOK'
  <2> SUFFICES ASSUME TypeOK, [Next]_vars
               PROVE  TypeOK'
    OBVIOUS
  <2>1. ASSUME NEW w \in Workers, Step(w)
        PROVE  TypeOK'
    BY <2>1, StartTyped, ProcessTyped, ConcludeTyped, CleanupTyped, RecoverTyped
       DEF Step
  <2>2. ASSUME NEW w \in Workers, Disturb(w)
        PROVE  TypeOK'
    BY <2>2, DisturbTyped
  <2>3. CASE Environment
    BY <2>3, EnvironmentTyped
  <2>4. CASE UNCHANGED vars
    BY <2>4 DEF TypeOK, vars, redisVars, envVars, itemVars, scanVars, lifeVars
  <2>5. QED
    BY <2>1, <2>2, <2>3, <2>4 DEF Next
<1>3. QED
  BY <1>1, <1>2, PTL DEF Spec

-----------------------------------------------------------------------------
\* Apart from the script of claimNextBatch, no step adds or changes a claim.
LEMMA OnlyTheScriptAddsClaims ==
    ASSUME [Next]_vars, \A w \in Workers : ~(ClaimBatch(w) \/ ClaimUnheard(w))
    PROVE  claims' \subseteq claims
<1>1. ASSUME NEW w \in Workers, Process(w)
      PROVE  claims' = claims
  BY <1>1 DEF Process, NotThere, CheckIndexed, StoreResource, AnalysisFails,
              StoreUnheard, CallThrows, redisVars
<1>2. ASSUME NEW w \in Workers, Conclude(w)
      PROVE  claims' = claims
  BY <1>2 DEF Conclude, FinishOvershoot, FinishBatch, FinishUnprocessed, redisVars
<1>3. ASSUME NEW w \in Workers, Cleanup(w)
      PROVE  claims' \subseteq claims
  BY <1>3 DEF Cleanup, CompleteBatch, CleanupKeys, CleanupGet, CleanupDel,
              CleanupDone, ClaimsWithout, redisVars
<1>4. ASSUME NEW w \in Workers, Recover(w)
      PROVE  claims' \subseteq claims
  BY <1>4 DEF Recover, ReleaseClaim, ClearKeys, ClearDel, FindLatest,
              ResetCursor, ClaimsWithout, redisVars
<1>5. ASSUME NEW w \in Workers, Connect(w) \/ InitCursor(w)
      PROVE  claims' = claims
  BY <1>5 DEF Connect, InitCursor, redisVars
<1>6. ASSUME NEW w \in Workers, Disturb(w)
      PROVE  claims' \subseteq claims
  BY <1>6 DEF Disturb, LoopError, CleanupError, Crash, StopSignal, StopExit,
              ClaimsWithout, redisVars
<1>7. ASSUME Environment
      PROVE  claims' \subseteq claims
  BY <1>7 DEF Environment, Inscribe, Tick, ClaimExpires, redisVars
<1>8. ASSUME UNCHANGED vars
      PROVE  claims' = claims
  BY <1>8 DEF vars, redisVars
<1>9. QED
  BY <1>1, <1>2, <1>3, <1>4, <1>5, <1>6, <1>7, <1>8 DEF Next, Step

\* A new claim overlaps none of the claims stored at that moment.
LEMMA MakeClaimKeepsDisjoint ==
    ASSUME TypeOK, ClaimsDisjoint, NEW w \in Workers,
           NEW k \in 0 .. MaxAttempts - 1, MakeClaim(w, k)
    PROVE  ClaimsDisjoint'
<1>1. /\ Available(k)
      /\ claims' = ClaimsWithout({w})
                     \cup {[owner |-> w, start |-> AttemptStart(k),
                            end |-> AttemptEnd(k), claimedAt |-> now]}
  BY DEF MakeClaim
<1> DEFINE new == [owner |-> w, start |-> AttemptStart(k),
                   end |-> AttemptEnd(k), claimedAt |-> now]
<1>2. \A c \in claims : c.end < AttemptStart(k) \/ AttemptEnd(k) < c.start
  <2>1. AttemptStart(k) \in Int /\ AttemptEnd(k) \in Int
    BY AttemptTyped
  <2>2. \A c \in claims : c.start \in Int /\ c.end \in Int
    BY DEF TypeOK, Claim
  <2>3. QED
    BY <1>1, <2>1, <2>2 DEF Available, Overlaps
<1>3. new.owner = w /\ new.start = AttemptStart(k) /\ new.end = AttemptEnd(k)
  OBVIOUS
<1> HIDE DEF new
<1>4. SUFFICES ASSUME NEW c \in claims', NEW d \in claims', c # d
               PROVE  c.owner # d.owner /\ (c.end < d.start \/ d.end < c.start)
  BY DEF ClaimsDisjoint
<1>5. claims' = {x \in claims : x.owner # w} \cup {new}
  BY <1>1 DEF ClaimsWithout, new
<1>6. CASE c \in claims /\ d \in claims
  BY <1>4, <1>6 DEF ClaimsDisjoint
<1>7. CASE c = new /\ d \in claims /\ d.owner # w
  BY <1>2, <1>3, <1>7
<1>8. CASE d = new /\ c \in claims /\ c.owner # w
  BY <1>2, <1>3, <1>8
<1>9. QED
  BY <1>4, <1>5, <1>6, <1>7, <1>8

\* The claims in Redis are pairwise disjoint, one per replica, in every
\* reachable state: what the Lua script of claimNextBatch is for.
THEOREM ClaimsNeverOverlap == Spec => []ClaimsDisjoint
<1>1. Init => ClaimsDisjoint
  BY DEF Init, ClaimsDisjoint
<1>2. TypeOK /\ ClaimsDisjoint /\ [Next]_vars => ClaimsDisjoint'
  <2> SUFFICES ASSUME TypeOK, ClaimsDisjoint, [Next]_vars
               PROVE  ClaimsDisjoint'
    OBVIOUS
  <2>1. ASSUME NEW w \in Workers, ClaimBatch(w) \/ ClaimUnheard(w)
        PROVE  ClaimsDisjoint'
    BY <2>1, MakeClaimKeepsDisjoint DEF ClaimBatch, ClaimUnheard
  <2>2. CASE \A w \in Workers : ~(ClaimBatch(w) \/ ClaimUnheard(w))
    <3>1. claims' \subseteq claims
      BY <2>2, OnlyTheScriptAddsClaims
    <3>2. QED
      BY <3>1 DEF ClaimsDisjoint
  <2>3. QED
    BY <2>1, <2>2
<1>3. QED
  BY <1>1, <1>2, TypeCorrect, PTL DEF Spec

-----------------------------------------------------------------------------
\* The recorded entries change only when a store runs, when an error is kept
\* and, for the chain itself, when an inscription is made.
LEMMA RecordingSteps ==
    ASSUME [Next]_vars
    PROVE  \/ \E w \in Workers : \E n \in Numbers(w) : StoreResource(w, n)
           \/ \E w \in Workers : \E n \in Numbers(w) : AnalysisFails(w, n)
           \/ \E w \in Workers : \E n \in Numbers(w) : StoreUnheard(w, n)
           \/ Inscribe
           \/ UNCHANGED <<tip, indexed, errored, copies>>
<1> DEFINE Quiet == UNCHANGED <<tip, indexed, errored, copies>>
<1>1. ASSUME NEW w \in Workers, Process(w)
      PROVE  \/ \E n \in Numbers(w) : \/ StoreResource(w, n)
                                      \/ AnalysisFails(w, n)
                                      \/ StoreUnheard(w, n)
             \/ Quiet
  BY <1>1 DEF Process, NotThere, CheckIndexed, CallThrows, redisVars, envVars
<1>2. ASSUME NEW w \in Workers, Conclude(w)
      PROVE  Quiet
  BY <1>2 DEF Conclude, FinishOvershoot, FinishBatch, FinishUnprocessed,
              redisVars, envVars
<1>3. ASSUME NEW w \in Workers, Cleanup(w)
      PROVE  Quiet
  BY <1>3 DEF Cleanup, CompleteBatch, CleanupKeys, CleanupGet, CleanupDel,
              CleanupDone, redisVars, envVars
<1>4. ASSUME NEW w \in Workers, Recover(w)
      PROVE  Quiet
  BY <1>4 DEF Recover, ReleaseClaim, ClearKeys, ClearDel, FindLatest,
              ResetCursor, redisVars, envVars
<1>5. ASSUME NEW w \in Workers, Connect(w) \/ InitCursor(w) \/ ClaimBatch(w)
      PROVE  Quiet
  BY <1>5 DEF Connect, InitCursor, ClaimBatch, redisVars, envVars
<1>6. ASSUME NEW w \in Workers, Disturb(w)
      PROVE  Quiet
  BY <1>6 DEF Disturb, ClaimUnheard, LoopError, CleanupError, Crash, StopSignal, StopExit, redisVars, envVars
<1>7. ASSUME Environment
      PROVE  Inscribe \/ Quiet
  BY <1>7 DEF Environment, Tick, ClaimExpires, redisVars, envVars
<1>8. ASSUME UNCHANGED vars
      PROVE  Quiet
  BY <1>8 DEF vars, redisVars, envVars
<1>9. QED
  BY <1>1, <1>2, <1>3, <1>4, <1>5, <1>6, <1>7, <1>8 DEF Next, Step

\* Only SISMEMBER adds to the numbers a replica is about to store, and only
\* to those of the replica that called it.
LEMMA CheckedSteps ==
    ASSUME TypeOK, [Next]_vars
    PROVE  \/ \E w \in Workers : \E n \in Numbers(w) :
                 CheckIndexed(w, n) /\ n \notin indexed
           \/ \A v \in Workers : checked'[v] \subseteq checked[v]
<1> DEFINE Shrink == \A v \in Workers : checked'[v] \subseteq checked[v]
<1>f. ASSUME NEW w \in Workers, Forget(w)
      PROVE  Shrink
  BY <1>f DEF Forget, TypeOK
<1>1. ASSUME NEW w \in Workers, Process(w)
      PROVE  \/ \E n \in Numbers(w) : CheckIndexed(w, n) /\ n \notin indexed
             \/ Shrink
  <2> PICK n \in Numbers(w) :
        \/ NotThere(w, n)
        \/ CheckIndexed(w, n)
        \/ StoreResource(w, n)
        \/ AnalysisFails(w, n)
        \/ StoreUnheard(w, n)
        \/ CallThrows(w, n)
    BY <1>1 DEF Process
  <2>1. CASE NotThere(w, n) \/ AnalysisFails(w, n)
    BY <2>1 DEF NotThere, AnalysisFails
  <2>2. CASE CheckIndexed(w, n)
    BY <2>2 DEF CheckIndexed
  <2>3. CASE StoreResource(w, n) \/ StoreUnheard(w, n) \/ CallThrows(w, n)
    <3>1. checked' = [checked EXCEPT ![w] = @ \ {n}]
      BY <2>3 DEF StoreResource, StoreUnheard, CallThrows
    <3>2. QED
      BY <3>1 DEF TypeOK
  <2>4. QED
    BY <2>1, <2>2, <2>3
<1>2. ASSUME NEW w \in Workers, Conclude(w)
      PROVE  Shrink
  BY <1>2, <1>f DEF Conclude, FinishOvershoot, FinishBatch, FinishUnprocessed,
              memoryVars, itemVars
<1>3. ASSUME NEW w \in Workers, Cleanup(w)
      PROVE  Shrink
  BY <1>3, <1>f DEF Cleanup, CompleteBatch, CleanupKeys, CleanupGet, CleanupDel,
              CleanupDone, memoryVars, itemVars
<1>4. ASSUME NEW w \in Workers, Recover(w)
      PROVE  Shrink
  BY <1>4, <1>f DEF Recover, ReleaseClaim, ClearKeys, ClearDel, FindLatest,
              ResetCursor, memoryVars, itemVars
<1>5. ASSUME NEW w \in Workers, Connect(w) \/ InitCursor(w) \/ ClaimBatch(w)
      PROVE  Shrink
  BY <1>5 DEF Connect, InitCursor, ClaimBatch, memoryVars, itemVars
<1>6. ASSUME NEW w \in Workers, Disturb(w)
      PROVE  Shrink
  BY <1>6, <1>f DEF Disturb, ClaimUnheard, LoopError, CleanupError, Crash, StopSignal, StopExit, Exit,
              memoryVars, itemVars
<1>7. ASSUME Environment
      PROVE  Shrink
  BY <1>7 DEF Environment, Inscribe, Tick, ClaimExpires, memoryVars, itemVars
<1>8. ASSUME UNCHANGED vars
      PROVE  Shrink
  BY <1>8 DEF vars, itemVars
<1>9. QED
  BY <1>1, <1>2, <1>3, <1>4, <1>5, <1>6, <1>7, <1>8 DEF Next, Step

\* A number about to be stored is the number of an existing inscription.
CheckedExist == \A w \in Workers : \A n \in checked[w] : n <= tip

LEMMA CheckedNumbersExist == Spec => []CheckedExist
<1>1. Init => CheckedExist
  BY DEF Init, CheckedExist
<1>2. TypeOK /\ CheckedExist /\ [Next]_vars => CheckedExist'
  <2> SUFFICES ASSUME TypeOK, CheckedExist, [Next]_vars
               PROVE  CheckedExist'
    OBVIOUS
  <2>1. tip' \in Int /\ tip <= tip' /\ tip \in Int
    <3>1. tip \in Int
      BY ConstantTypes DEF TypeOK
    <3>2. tip' = tip \/ tip' = tip + 1
      BY RecordingSteps DEF StoreResource, AnalysisFails, StoreUnheard, Inscribe, envVars
    <3>3. QED
      BY <3>1, <3>2
  <2>2. ASSUME NEW w \in Workers, NEW n \in Numbers(w), CheckIndexed(w, n),
               n \notin indexed
        PROVE  CheckedExist'
    <3>1. checked' = [checked EXCEPT ![w] = @ \cup {n}] /\ tip' = tip /\ n <= tip
      BY <2>2 DEF CheckIndexed, envVars
    <3>2. QED
      BY <3>1 DEF CheckedExist, TypeOK
  <2>3. CASE \A v \in Workers : checked'[v] \subseteq checked[v]
    <3> SUFFICES ASSUME NEW v \in Workers, NEW n \in checked'[v]
                 PROVE  n <= tip'
      BY DEF CheckedExist
    <3>1. n \in checked[v] /\ n \in Int
      BY <2>3, ConstantTypes DEF TypeOK
    <3>2. QED
      BY <2>1, <3>1 DEF CheckedExist
  <2>4. QED
    BY <2>2, <2>3, CheckedSteps
<1>3. QED
  BY <1>1, <1>2, TypeCorrect, PTL DEF Spec

\* Seen through Redis the replicas implement the ledger: every step records
\* one more existing inscription, one more error, or nothing.
THEOREM ImplementsLedger == Spec => LedgerSpec
<1>1. Init => Ledger!Init
  BY DEF Init, Ledger!Init
<1>2. TypeOK /\ CheckedExist /\ [Next]_vars => [Ledger!Next]_(Ledger!ledger)
  <2> SUFFICES ASSUME TypeOK, CheckedExist, [Next]_vars
               PROVE  [Ledger!Next]_(Ledger!ledger)
    OBVIOUS
  <2>1. ASSUME NEW w \in Workers, NEW n \in Numbers(w), StoreResource(w, n)
        PROVE  [Ledger!Next]_(Ledger!ledger)
    <3>1. n \in 0..MaxTip
      BY <2>1 DEF StoreResource, TypeOK
    <3>2. UNCHANGED <<tip, errored>> /\ indexed' = indexed \cup {n}
      BY <2>1 DEF StoreResource, envVars
    <3>3. n <= tip
      BY <2>1 DEF StoreResource, CheckedExist
    <3>4. QED
      BY <3>1, <3>2, <3>3 DEF Ledger!Next, Ledger!Index, Ledger!ledger
  <2>2. ASSUME NEW w \in Workers, NEW n \in Numbers(w), AnalysisFails(w, n)
        PROVE  [Ledger!Next]_(Ledger!ledger)
    <3>1. n \in 0..MaxTip /\ n <= tip
      BY <2>2, NumbersTyped, ConstantTypes DEF AnalysisFails, TypeOK
    <3>2. UNCHANGED <<tip, indexed>> /\ errored' = errored \cup {n}
      BY <2>2 DEF AnalysisFails, envVars
    <3>3. QED
      BY <3>1, <3>2 DEF Ledger!Next, Ledger!Report, Ledger!ledger
  <2>6. ASSUME NEW w \in Workers, NEW n \in Numbers(w), StoreUnheard(w, n)
        PROVE  [Ledger!Next]_(Ledger!ledger)
    <3>1. CASE n \in checked[w] /\ indexed' = indexed \cup {n} /\ UNCHANGED errored
      <4>1. n \in 0..MaxTip /\ n <= tip /\ tip' = tip
        BY <2>6, <3>1 DEF StoreUnheard, CheckedExist, TypeOK, envVars
      <4>2. QED
        BY <3>1, <4>1 DEF Ledger!Next, Ledger!Index, Ledger!ledger
    <3>2. CASE n <= tip /\ errored' = errored \cup {n} /\ UNCHANGED indexed
      <4>1. n \in 0..MaxTip /\ tip' = tip
        BY <2>6, <3>2, NumbersTyped, ConstantTypes DEF StoreUnheard, TypeOK, envVars
      <4>2. QED
        BY <3>2, <4>1 DEF Ledger!Next, Ledger!Report, Ledger!ledger
    <3>3. QED
      BY <2>6, <3>1, <3>2 DEF StoreUnheard
  <2>3. CASE Inscribe
    <3>1. tip < MaxTip /\ tip' = tip + 1 /\ UNCHANGED <<indexed, errored>>
      BY <2>3 DEF Inscribe, redisVars
    <3>2. tip' \in (tip + 1)..MaxTip
      BY <3>1, ConstantTypes DEF TypeOK
    <3>3. QED
      BY <3>1, <3>2 DEF Ledger!Next, Ledger!Inscribe
  <2>4. CASE UNCHANGED <<tip, indexed, errored, copies>>
    BY <2>4 DEF Ledger!ledger
  <2>5. QED
    BY <2>1, <2>2, <2>3, <2>4, <2>6, RecordingSteps
<1>3. QED
  BY <1>1, <1>2, TypeCorrect, CheckedNumbersExist, PTL
     DEF Spec, LedgerSpec, Ledger!Spec

-----------------------------------------------------------------------------
\* The replicas that found n absent and have not stored it yet.
Storing(n) == {w \in Workers : n \in checked[w]}

\* A copy of n was made by a replica that is not about to make another one,
\* and only numbers outside the dedup set have no copy.
CopiesInv ==
    \A n \in 0..MaxTip :
        /\ copies[n] + Cardinality(Storing(n)) <= Cardinality(Workers)
        /\ n \notin indexed => copies[n] = 0

LEMMA StoringFinite ==
    ASSUME NEW n
    PROVE  /\ IsFiniteSet(Storing(n)) /\ Cardinality(Storing(n)) \in Nat
           /\ Cardinality(Workers) \in Nat
           /\ Cardinality(Storing(n)) <= Cardinality(Workers)
<1>1. Storing(n) \subseteq Workers
  BY DEF Storing
<1>2. QED
  BY <1>1, WorkersAssumption, FS_Subset, FS_CardinalityType

LEMMA StoringFinitePrime ==
    ASSUME NEW n
    PROVE  /\ IsFiniteSet(Storing(n)') /\ Cardinality(Storing(n)') \in Nat
           /\ Cardinality(Storing(n)') <= Cardinality(Workers)
<1>1. Storing(n)' \subseteq Workers
  BY DEF Storing
<1>2. QED
  BY <1>1, WorkersAssumption, FS_Subset, FS_CardinalityType

\* What the MULTI of a store does, whether or not its answer arrives.
Stored(w, n) ==
    /\ indexed' = indexed \cup {n}
    /\ copies' = [copies EXCEPT ![n] = @ + 1]
    /\ checked' = [checked EXCEPT ![w] = @ \ {n}]

LEMMA CopiesInductive ==
    ASSUME TypeOK, CopiesInv, [Next]_vars
    PROVE  CopiesInv'
<1> SUFFICES ASSUME NEW n \in 0..MaxTip
             PROVE  /\ copies'[n] + Cardinality(Storing(n)') <= Cardinality(Workers)
                    /\ n \notin indexed' => copies'[n] = 0
  BY DEF CopiesInv
<1>0. /\ copies[n] \in Nat
      /\ copies[n] + Cardinality(Storing(n)) <= Cardinality(Workers)
      /\ n \notin indexed => copies[n] = 0
  BY DEF CopiesInv, TypeOK
<1>1. ASSUME NEW w \in Workers, NEW m \in checked[w], Stored(w, m)
      PROVE  /\ copies'[n] + Cardinality(Storing(n)') <= Cardinality(Workers)
             /\ n \notin indexed' => copies'[n] = 0
  <2>1. /\ m \in checked[w] /\ m \in 0..MaxTip
        /\ indexed' = indexed \cup {m}
        /\ copies' = [copies EXCEPT ![m] = @ + 1]
        /\ checked' = [checked EXCEPT ![w] = @ \ {m}]
    BY <1>1 DEF Stored, TypeOK
  <2>2. CASE n = m
    <3>1. Storing(n)' = Storing(n) \ {w} /\ w \in Storing(n)
      BY <2>1, <2>2 DEF Storing, TypeOK
    <3>2. Cardinality(Storing(n)') = Cardinality(Storing(n)) - 1
      BY <3>1, StoringFinite, FS_RemoveElement
    <3>3. copies'[n] = copies[n] + 1 /\ n \in indexed'
      BY <2>1, <2>2 DEF TypeOK
    <3>4. QED
      BY <3>2, <3>3, <1>0, StoringFinite
  <2>3. CASE n # m
    <3>1. Storing(n)' = Storing(n)
      BY <2>1, <2>3 DEF Storing, TypeOK
    <3>2. copies'[n] = copies[n] /\ (n \notin indexed' => n \notin indexed)
      BY <2>1, <2>3 DEF TypeOK
    <3>3. QED
      BY <3>1, <3>2, <1>0
  <2>4. QED
    BY <2>2, <2>3
<1>2. ASSUME UNCHANGED <<indexed, copies>>
      PROVE  /\ copies'[n] + Cardinality(Storing(n)') <= Cardinality(Workers)
             /\ n \notin indexed' => copies'[n] = 0
  <2>1. ASSUME NEW w \in Workers, NEW m \in Numbers(w), CheckIndexed(w, m),
               m \notin indexed
        PROVE  copies'[n] + Cardinality(Storing(n)') <= Cardinality(Workers)
    <3>1. checked' = [checked EXCEPT ![w] = @ \cup {m}]
      BY <2>1 DEF CheckIndexed
    <3>2. CASE n = m
      BY <1>0, <1>2, <2>1, <3>2, StoringFinitePrime
    <3>3. CASE n # m
      <4>1. Storing(n)' = Storing(n)
        BY <3>1, <3>3 DEF Storing, TypeOK
      <4>2. QED
        BY <4>1, <1>0, <1>2
    <3>4. QED
      BY <3>2, <3>3
  <2>2. ASSUME \A v \in Workers : checked'[v] \subseteq checked[v]
        PROVE  copies'[n] + Cardinality(Storing(n)') <= Cardinality(Workers)
    <3>1. Storing(n)' \subseteq Storing(n)
      BY <2>2 DEF Storing
    <3>2. Cardinality(Storing(n)') <= Cardinality(Storing(n))
      BY <3>1, StoringFinite, FS_Subset
    <3>3. QED
      BY <3>2, <1>0, <1>2, StoringFinite, StoringFinitePrime
  <2>3. QED
    BY <2>1, <2>2, <1>0, <1>2, CheckedSteps
<1>3. ASSUME NEW w \in Workers, NEW m \in Numbers(w), AnalysisFails(w, m)
      PROVE  UNCHANGED <<indexed, copies>>
  BY <1>3 DEF AnalysisFails
<1>4. ASSUME Inscribe
      PROVE  UNCHANGED <<indexed, copies>>
  BY <1>4 DEF Inscribe, redisVars
<1>5. ASSUME NEW w \in Workers, NEW m \in Numbers(w), StoreResource(w, m)
      PROVE  m \in checked[w] /\ Stored(w, m)
  BY <1>5 DEF StoreResource, Stored
<1>6. ASSUME NEW w \in Workers, NEW m \in Numbers(w), StoreUnheard(w, m)
      PROVE  \/ m \in checked[w] /\ Stored(w, m)
             \/ UNCHANGED <<indexed, copies>>
  BY <1>6 DEF StoreUnheard, Stored
<1>7. QED
  BY <1>1, <1>2, <1>3, <1>4, <1>5, <1>6, RecordingSteps

\* However the check and the store of different replicas interleave, crash
\* and repeat, no number gets more copies than there are replicas; a single
\* replica therefore never lists or counts an inscription twice.
THEOREM CopiesNeverExceedReplicas == Spec => []CopiesBounded
<1>1. Init => CopiesInv
  <2> SUFFICES ASSUME Init, NEW n \in 0..MaxTip
               PROVE  /\ copies[n] + Cardinality(Storing(n)) <= Cardinality(Workers)
                      /\ n \notin indexed => copies[n] = 0
    BY DEF CopiesInv
  <2>1. copies[n] = 0
    BY DEF Init
  <2>2. QED
    BY <2>1, StoringFinite
<1>2. TypeOK /\ CopiesInv /\ [Next]_vars => CopiesInv'
  BY CopiesInductive
<1>3. TypeOK /\ CopiesInv => CopiesBounded
  <2> SUFFICES ASSUME TypeOK, CopiesInv, NEW n \in 0..MaxTip
               PROVE  copies[n] <= Cardinality(Workers)
    BY DEF CopiesBounded
  <2>1. copies[n] \in Nat /\ copies[n] + Cardinality(Storing(n)) <= Cardinality(Workers)
    BY DEF CopiesInv, TypeOK
  <2>2. QED
    BY <2>1, StoringFinite
<1>4. QED
  BY <1>1, <1>2, <1>3, TypeCorrect, PTL DEF Spec

-----------------------------------------------------------------------------
\* A replica's results agree with what it wrote to Redis.
ResultsRecorded ==
    \A w \in Workers : found[w] \subseteq indexed /\ failed[w] \subseteq errored

\* What a step of the replica v leaves alone in the memory of another one.
LEMMA OtherReplicasUntouched ==
    ASSUME TypeOK, NEW v \in Workers, Step(v) \/ Disturb(v),
           NEW w \in Workers, w # v
    PROVE  /\ pc'[w] = pc[w] /\ batch'[w] = batch[w] /\ found'[w] = found[w]
           /\ failed'[w] = failed[w] /\ target'[w] = target[w]
<1> DEFINE Same == /\ pc'[w] = pc[w] /\ batch'[w] = batch[w] /\ found'[w] = found[w]
                   /\ failed'[w] = failed[w] /\ target'[w] = target[w]
<1> USE DEF Goto
<1>f. ASSUME Forget(v)
      PROVE  /\ batch'[w] = batch[w] /\ found'[w] = found[w]
             /\ failed'[w] = failed[w] /\ target'[w] = target[w]
  BY <1>f DEF Forget, TypeOK
<1>1. CASE Process(v)
  BY <1>1 DEF Process, NotThere, CheckIndexed, StoreResource, AnalysisFails,
              StoreUnheard, CallThrows, TypeOK
<1>2. CASE Conclude(v)
  BY <1>2, <1>f DEF Conclude, FinishOvershoot, FinishBatch, FinishUnprocessed,
              memoryVars, itemVars, TypeOK
<1>3. CASE Cleanup(v)
  BY <1>3, <1>f DEF Cleanup, CompleteBatch, CleanupKeys, CleanupGet, CleanupDel,
              CleanupDone, memoryVars, itemVars, TypeOK
<1>4. CASE Recover(v)
  BY <1>4, <1>f DEF Recover, ReleaseClaim, ClearKeys, ClearDel, FindLatest,
              ResetCursor, memoryVars, itemVars, TypeOK
<1>5. CASE Connect(v) \/ InitCursor(v) \/ ClaimBatch(v)
  BY <1>5 DEF Connect, InitCursor, ClaimBatch, memoryVars, itemVars, TypeOK
<1>6. CASE Disturb(v)
  BY <1>6, <1>f DEF Disturb, ClaimUnheard, LoopError, CleanupError, Crash, StopSignal, StopExit, Exit,
              memoryVars, itemVars, TypeOK
<1>7. QED
  BY <1>1, <1>2, <1>3, <1>4, <1>5, <1>6 DEF Step

\* The environment and stuttering leave every replica alone.
LEMMA EnvironmentLeavesReplicas ==
    ASSUME Environment \/ UNCHANGED vars
    PROVE  UNCHANGED <<pc, batch, found, failed, missing, target, cursor,
                       indexed, errored, givenUp>>
BY DEF Environment, Inscribe, Tick, ClaimExpires, redisVars, vars, memoryVars,
       itemVars

\* Entries are never taken back.
LEMMA NothingForgotten ==
    ASSUME [Next]_vars
    PROVE  indexed \subseteq indexed' /\ errored \subseteq errored'
BY RecordingSteps DEF StoreResource, AnalysisFails, StoreUnheard, Inscribe, redisVars

LEMMA GivenUpGrows ==
    ASSUME [Next]_vars
    PROVE  givenUp \subseteq givenUp'
<1>1. ASSUME NEW w \in Workers, Step(w)
      PROVE  givenUp \subseteq givenUp'
  BY <1>1 DEF Step, Connect, InitCursor, ClaimBatch, Process, NotThere,
       CheckIndexed, StoreResource, AnalysisFails, StoreUnheard, CallThrows, Conclude,
       FinishOvershoot, FinishBatch, FinishUnprocessed, Cleanup, CompleteBatch,
       CleanupKeys, CleanupGet, CleanupDel, CleanupDone, Recover, ReleaseClaim,
       ClearKeys, ClearDel, FindLatest, ResetCursor
<1>2. ASSUME NEW w \in Workers, Disturb(w)
      PROVE  givenUp \subseteq givenUp'
  BY <1>2 DEF Disturb, ClaimUnheard, LoopError, CleanupError, Crash, StopSignal, StopExit, Exit
<1>3. QED
  BY <1>1, <1>2, EnvironmentLeavesReplicas DEF Next

LEMMA ResultsInductive ==
    ASSUME TypeOK, ResultsRecorded, [Next]_vars
    PROVE  ResultsRecorded'
<1> SUFFICES ASSUME NEW w \in Workers
             PROVE  found'[w] \subseteq indexed' /\ failed'[w] \subseteq errored'
  BY DEF ResultsRecorded
<1>0. /\ found[w] \subseteq indexed /\ failed[w] \subseteq errored
      /\ indexed \subseteq indexed' /\ errored \subseteq errored'
  BY NothingForgotten DEF ResultsRecorded
<1>1. ASSUME NEW v \in Workers, Step(v) \/ Disturb(v), v # w
      PROVE  found'[w] \subseteq indexed' /\ failed'[w] \subseteq errored'
  BY <1>0, <1>1, OtherReplicasUntouched
<1>2. CASE Process(w)
  <2> PICK n \in Numbers(w) :
        \/ NotThere(w, n)
        \/ CheckIndexed(w, n)
        \/ StoreResource(w, n)
        \/ AnalysisFails(w, n)
        \/ StoreUnheard(w, n)
        \/ CallThrows(w, n)
    BY <1>2 DEF Process
  <2>1. CASE NotThere(w, n) \/ StoreUnheard(w, n) \/ CallThrows(w, n)
    BY <2>1, <1>0 DEF NotThere, StoreUnheard, CallThrows
  <2>2. CASE CheckIndexed(w, n)
    <3>1. failed' = failed
      BY <2>2 DEF CheckIndexed
    <3>2. CASE n \in indexed
      <4>1. found' = [found EXCEPT ![w] = @ \cup {n}]
        BY <2>2, <3>2 DEF CheckIndexed
      <4>2. QED
        BY <4>1, <3>1, <3>2, <1>0 DEF TypeOK
    <3>3. CASE n \notin indexed
      <4>1. found' = found
        BY <2>2, <3>3 DEF CheckIndexed
      <4>2. QED
        BY <4>1, <3>1, <1>0
    <3>4. QED
      BY <3>2, <3>3
  <2>3. CASE StoreResource(w, n)
    BY <2>3, <1>0 DEF StoreResource, TypeOK
  <2>4. CASE AnalysisFails(w, n)
    BY <2>4, <1>0 DEF AnalysisFails, TypeOK
  <2>5. QED
    BY <2>1, <2>2, <2>3, <2>4
<1>f. ASSUME Forget(w)
      PROVE  found'[w] = {} /\ failed'[w] = {}
  BY <1>f DEF Forget, TypeOK
<1>3. CASE Conclude(w) \/ Cleanup(w) \/ Recover(w) \/ Connect(w)
            \/ InitCursor(w) \/ ClaimBatch(w) \/ Disturb(w)
  <2>1. Forget(w) \/ (found' = found /\ failed' = failed)
    BY <1>3 DEF Conclude, FinishOvershoot, FinishBatch, FinishUnprocessed,
         Cleanup, CompleteBatch, CleanupKeys, CleanupGet, CleanupDel,
         CleanupDone, Recover, ReleaseClaim, ClearKeys, ClearDel, FindLatest,
         ResetCursor, Connect, InitCursor, ClaimBatch, Disturb, ClaimUnheard,
         LoopError, CleanupError, Crash, StopSignal, StopExit, Exit, memoryVars, itemVars
  <2>2. QED
    BY <2>1, <1>f, <1>0
<1>4. CASE Environment \/ UNCHANGED vars
  BY <1>4, <1>0, EnvironmentLeavesReplicas
<1>5. QED
  BY <1>1, <1>2, <1>3, <1>4 DEF Next, Step

-----------------------------------------------------------------------------
Accounted(n) == Recorded(n) \/ InFlight(n) \/ n \in givenUp

\* A number in flight stays in flight until it is recorded or given up.
LEMMA InFlightStep ==
    ASSUME TypeOK, [Next]_vars, NEW w \in Workers, pc[w] = "work",
           NEW n \in Unfinished(w)
    PROVE  \/ pc'[w] = "work" /\ n \in Unfinished(w)'
           \/ n \in indexed' \/ n \in errored' \/ n \in givenUp'
<1> DEFINE Goal == \/ pc'[w] = "work" /\ n \in Unfinished(w)'
                   \/ n \in indexed' \/ n \in errored' \/ n \in givenUp'
<1>0. n \in Numbers(w) /\ n \notin found[w] /\ n \notin failed[w]
  BY DEF Unfinished
<1>s. ASSUME pc'[w] = pc[w], batch'[w] = batch[w], found'[w] = found[w],
             failed'[w] = failed[w]
      PROVE  Goal
  BY <1>0, <1>s DEF Unfinished, Numbers
<1>1. ASSUME NEW v \in Workers, Step(v) \/ Disturb(v), v # w
      PROVE  Goal
  BY <1>1, <1>s, OtherReplicasUntouched
<1>2. CASE Process(w)
  <2> PICK m \in Numbers(w) :
        \/ NotThere(w, m)
        \/ CheckIndexed(w, m)
        \/ StoreResource(w, m)
        \/ AnalysisFails(w, m)
        \/ StoreUnheard(w, m)
        \/ CallThrows(w, m)
    BY <1>2 DEF Process
  <2>1. pc' = pc /\ batch' = batch
    BY DEF NotThere, CheckIndexed, StoreResource, AnalysisFails, StoreUnheard,
           CallThrows
  <2>2. CASE NotThere(w, m) \/ StoreUnheard(w, m) \/ CallThrows(w, m)
    BY <2>1, <2>2, <1>s DEF NotThere, StoreUnheard, CallThrows
  <2>3. CASE CheckIndexed(w, m)
    <3>1. failed' = failed /\ indexed' = indexed
      BY <2>3 DEF CheckIndexed, redisVars
    <3>2. CASE m = n /\ n \in indexed
      BY <3>1, <3>2
    <3>3. CASE m # n \/ n \notin indexed
      <4>1. n \notin found'[w]
        BY <1>0, <2>3, <3>3 DEF CheckIndexed, TypeOK
      <4>2. QED
        BY <4>1, <3>1, <2>1, <1>0 DEF Unfinished, Numbers
    <3>4. QED
      BY <3>2, <3>3
  <2>4. CASE StoreResource(w, m)
    <3>1. CASE m = n
      BY <2>4, <3>1 DEF StoreResource
    <3>2. CASE m # n
      <4>1. n \notin found'[w] /\ failed' = failed
        BY <1>0, <2>4, <3>2 DEF StoreResource, TypeOK
      <4>2. QED
        BY <4>1, <2>1, <1>0 DEF Unfinished, Numbers
    <3>3. QED
      BY <3>1, <3>2
  <2>5. CASE AnalysisFails(w, m)
    <3>1. CASE m = n
      BY <2>5, <3>1 DEF AnalysisFails
    <3>2. CASE m # n
      <4>1. n \notin failed'[w] /\ found' = found
        BY <1>0, <2>5, <3>2 DEF AnalysisFails, TypeOK
      <4>2. QED
        BY <4>1, <2>1, <1>0 DEF Unfinished, Numbers
    <3>3. QED
      BY <3>1, <3>2
  <2>6. QED
    BY <2>2, <2>3, <2>4, <2>5
<1>3. CASE Conclude(w)
  <2>1. Answered(w) = Numbers(w) /\ givenUp' = givenUp \cup missing[w]
    BY <1>3 DEF Conclude, FinishOvershoot, FinishBatch, FinishUnprocessed,
                BatchAnswered
  <2>2. QED
    BY <2>1, <1>0 DEF Answered
<1>4. CASE Disturb(w)
  <2>1. CASE LoopError(w) \/ CleanupError(w)
    BY <2>1 DEF LoopError, CleanupError
  <2>5. CASE ClaimUnheard(w)
    BY <2>5, <1>s DEF ClaimUnheard, memoryVars, itemVars
  <2>2. CASE Crash(w) \/ StopExit(w)
    BY <2>2 DEF Crash, StopExit, Exit
  <2>3. CASE StopSignal(w)
    BY <2>3, <1>s DEF StopSignal, memoryVars, itemVars
  <2>4. QED
    BY <1>4, <2>1, <2>2, <2>3, <2>5 DEF Disturb
<1>5. CASE Environment \/ UNCHANGED vars
  BY <1>5, <1>s, EnvironmentLeavesReplicas
<1>6. ASSUME Step(w)
      PROVE  Process(w) \/ Conclude(w)
  BY <1>6 DEF Step, Connect, InitCursor, ClaimBatch, Cleanup, CompleteBatch,
       CleanupKeys, CleanupGet, CleanupDel, CleanupDone, Recover, ReleaseClaim,
       ClearKeys, ClearDel, FindLatest, ResetCursor
<1>7. QED
  BY <1>1, <1>2, <1>3, <1>4, <1>5, <1>6 DEF Next

\* Once accounted for, a number stays accounted for.
LEMMA AccountedStays ==
    ASSUME TypeOK, [Next]_vars, NEW n, Accounted(n)
    PROVE  Accounted(n)'
<1>1. CASE Recorded(n)
  BY <1>1, NothingForgotten DEF Accounted, Recorded
<1>2. CASE n \in givenUp
  BY <1>2, GivenUpGrows DEF Accounted
<1>3. CASE InFlight(n)
  BY <1>3, InFlightStep DEF Accounted, InFlight, Recorded
<1>4. QED
  BY <1>1, <1>2, <1>3 DEF Accounted

\* The numbers that have to be accounted for: those behind the cursor, behind
\* the end of a batch being processed, behind the value a replica is about to
\* write to the cursor, and those some claim covers.
BehindCursor == \A n \in Nat :
    StartInscription < n /\ n <= CursorValue => Accounted(n)
BehindBatch == \A w \in Workers : \A n \in Nat :
    pc[w] = "work" /\ StartInscription < n /\ n <= batch[w].end => Accounted(n)
BehindTarget == \A w \in Workers : \A n \in Nat :
    pc[w] = "complete" /\ StartInscription < n /\ n <= target[w] => Accounted(n)
Claimed == \A c \in claims : \A n \in c.start .. c.end :
    StartInscription < n => Accounted(n)

AccountInv ==
    /\ ResultsRecorded
    /\ BehindCursor
    /\ BehindBatch
    /\ BehindTarget
    /\ Claimed

\* After the script, every number up to the end of the new claim is accounted
\* for: behind the cursor, covered by an older claim, stepped over, or taken.
LEMMA ScriptAccounts ==
    ASSUME TypeOK, AccountInv, [Next]_vars, NEW k \in 0 .. MaxAttempts - 1,
           SteppedOver(k) \subseteq givenUp',
           \A n \in AttemptStart(k) .. AttemptEnd(k) : Accounted(n)'
    PROVE  \A n \in Nat : StartInscription < n /\ n <= AttemptEnd(k)
                             => Accounted(n)'
<1> SUFFICES ASSUME NEW n \in Nat, StartInscription < n, n <= AttemptEnd(k)
             PROVE  Accounted(n)'
  OBVIOUS
<1>0. AttemptStart(k) \in Nat /\ AttemptEnd(k) \in Nat /\ CursorValue \in Nat
  BY AttemptTyped
<1>1. CASE n <= CursorValue
  BY <1>1, AccountedStays DEF AccountInv, BehindCursor
<1>2. CASE CursorValue < n /\ n < AttemptStart(k)
  <2>1. CASE \E c \in claims : n \in c.start .. c.end
    BY <2>1, AccountedStays DEF AccountInv, Claimed
  <2>2. CASE \A c \in claims : n \notin c.start .. c.end
    <3>1. n \in CursorValue + 1 .. AttemptStart(k) - 1
      BY <1>2, <1>0
    <3>2. n \in givenUp'
      BY <3>1, <2>2 DEF SteppedOver
    <3>3. QED
      BY <3>2 DEF Accounted
  <2>3. QED
    BY <2>1, <2>2
<1>3. CASE AttemptStart(k) <= n
  BY <1>3, <1>0
<1>4. QED
  BY <1>0, <1>1, <1>2, <1>3

LEMMA ClaimAccounts ==
    ASSUME TypeOK, AccountInv, [Next]_vars, NEW w \in Workers,
           ClaimBatch(w) \/ ClaimUnheard(w)
    PROVE  \E k \in 0 .. MaxAttempts - 1 :
             /\ MakeClaim(w, k)
             /\ \A n \in Nat : StartInscription < n /\ n <= AttemptEnd(k)
                               => Accounted(n)'
             /\ ClaimBatch(w) => batch'[w].end = AttemptEnd(k)
<1>1. CASE ClaimBatch(w)
  <2>1. PICK k \in 0 .. MaxAttempts - 1 :
          /\ MakeClaim(w, k)
          /\ batch' = [batch EXCEPT ![w] = [start |-> AttemptStart(k),
                                            end   |-> AttemptEnd(k)]]
          /\ givenUp' = givenUp \cup SteppedOver(k)
    BY <1>1 DEF ClaimBatch
  <2>2. batch'[w] = [start |-> AttemptStart(k), end |-> AttemptEnd(k)]
    BY <2>1 DEF TypeOK
  <2>3. /\ pc' = [pc EXCEPT ![w] = "work"] /\ pc'[w] = "work"
        /\ found' = found /\ failed' = failed
        /\ indexed' = indexed /\ errored' = errored
    BY <1>1 DEF ClaimBatch, Goto, TypeOK, itemVars
  <2>4. ASSUME NEW n \in AttemptStart(k) .. AttemptEnd(k)
        PROVE  Accounted(n)'
    <3>1. n \in Numbers(w)'
      BY <2>2 DEF Numbers
    <3>2. n \in Unfinished(w)' \/ n \in found[w] \/ n \in failed[w]
      BY <3>1, <2>3 DEF Unfinished
    <3>3. QED
      BY <3>2, <2>3 DEF AccountInv, ResultsRecorded, Accounted, InFlight, Recorded
  <2>5. SteppedOver(k) \subseteq givenUp'
    BY <2>1
  <2>6. batch'[w].end = AttemptEnd(k)
    BY <2>2
  <2>7. QED
    BY <2>1, <2>4, <2>5, <2>6, ScriptAccounts
<1>2. CASE ClaimUnheard(w)
  <2>1. PICK k \in 0 .. MaxAttempts - 1 :
          /\ MakeClaim(w, k)
          /\ givenUp' = givenUp \cup SteppedOver(k)
                          \cup (AttemptStart(k) .. AttemptEnd(k))
    BY <1>2 DEF ClaimUnheard
  <2>2. \A n \in AttemptStart(k) .. AttemptEnd(k) : Accounted(n)'
    BY <2>1 DEF Accounted
  <2>3. SteppedOver(k) \subseteq givenUp'
    BY <2>1
  <2>4. ~ClaimBatch(w)
    BY <1>2 DEF ClaimUnheard, ClaimBatch, Goto, TypeOK
  <2>5. QED
    BY <2>1, <2>2, <2>3, <2>4, ScriptAccounts
<1>3. QED
  BY <1>1, <1>2

\* The writers of the cursor, when their answer arrives and when it does not.
LEMMA CursorSteps ==
    ASSUME [Next]_vars
    PROVE  \/ cursor' = cursor
           \/ \E w \in Workers : \/ InitCursor(w) \/ CompleteBatch(w)
                                \/ ResetCursor(w) \/ LoopError(w)
<1>1. ASSUME NEW w \in Workers, Step(w)
      PROVE  cursor' = cursor \/ InitCursor(w) \/ CompleteBatch(w) \/ ResetCursor(w)
  BY <1>1 DEF Step, Connect, ClaimBatch, Process, NotThere, CheckIndexed,
       StoreResource, AnalysisFails, StoreUnheard, CallThrows, Conclude, FinishOvershoot,
       FinishBatch, FinishUnprocessed, Cleanup, CleanupKeys, CleanupGet,
       CleanupDel, CleanupDone, Recover, ReleaseClaim, ClearKeys, ClearDel,
       FindLatest, redisVars
<1>2. ASSUME NEW w \in Workers, Disturb(w)
      PROVE  cursor' = cursor \/ LoopError(w)
  BY <1>2 DEF Disturb, ClaimUnheard, CleanupError, Crash, StopSignal, StopExit,
              redisVars
<1>3. QED
  BY <1>1, <1>2, EnvironmentLeavesReplicas DEF Next

\* A replica starts to process a batch only with a claim, and is about to
\* write the cursor only with a number of the batch it has processed.
LEMMA PhaseSteps ==
    ASSUME TypeOK, [Next]_vars, NEW w \in Workers
    PROVE  /\ pc'[w] = "work" =>
                \/ pc[w] = "work" /\ batch'[w] = batch[w]
                \/ ClaimBatch(w)
           /\ pc'[w] = "complete" =>
                \/ pc[w] = "complete" /\ target'[w] = target[w]
                \/ pc[w] = "work" /\ target'[w] \in Numbers(w)
<1> DEFINE Goal == /\ pc'[w] = "work" =>
                        \/ pc[w] = "work" /\ batch'[w] = batch[w]
                        \/ ClaimBatch(w)
                   /\ pc'[w] = "complete" =>
                        \/ pc[w] = "complete" /\ target'[w] = target[w]
                        \/ pc[w] = "work" /\ target'[w] \in Numbers(w)
<1> USE DEF Goto
<1>1. ASSUME NEW v \in Workers, Step(v) \/ Disturb(v), v # w
      PROVE  Goal
  BY <1>1, OtherReplicasUntouched
<1>2. CASE Process(w)
  BY <1>2 DEF Process, NotThere, CheckIndexed, StoreResource, AnalysisFails,
              StoreUnheard, CallThrows
<1>3. CASE Conclude(w)
  <2>1. CASE FinishOvershoot(w) \/ FinishUnprocessed(w)
    BY <2>1 DEF FinishOvershoot, FinishUnprocessed, TypeOK
  <2>2. CASE FinishBatch(w)
    <3>1. PICK last \in Numbers(w) : target' = [target EXCEPT ![w] = last]
      BY <2>2 DEF FinishBatch
    <3>2. pc[w] = "work" /\ pc'[w] = "complete"
      BY <2>2 DEF FinishBatch, BatchAnswered, TypeOK
    <3>3. target'[w] = last
      BY <3>1 DEF TypeOK
    <3>4. QED
      BY <3>2, <3>3
  <2>3. QED
    BY <1>3, <2>1, <2>2 DEF Conclude
<1>4. CASE Cleanup(w)
  BY <1>4 DEF Cleanup, CompleteBatch, CleanupKeys, CleanupGet, CleanupDel,
              CleanupDone, TypeOK
<1>5. CASE Recover(w)
  BY <1>5 DEF Recover, ReleaseClaim, ClearKeys, ClearDel, FindLatest,
              ResetCursor, TypeOK
<1>6. CASE Connect(w) \/ InitCursor(w) \/ ClaimBatch(w)
  BY <1>6 DEF Connect, InitCursor, ClaimBatch, TypeOK
<1>7. CASE Disturb(w)
  BY <1>7 DEF Disturb, ClaimUnheard, LoopError, CleanupError, Crash, StopSignal, StopExit, Exit, memoryVars, TypeOK
<1>8. CASE Environment \/ UNCHANGED vars
  BY <1>8, EnvironmentLeavesReplicas
<1>9. QED
  BY <1>1, <1>2, <1>3, <1>4, <1>5, <1>6, <1>7, <1>8 DEF Next, Step

LEMMA AccountInductive ==
    ASSUME TypeOK, AccountInv, [Next]_vars
    PROVE  AccountInv'
<1>1. ResultsRecorded'
  BY ResultsInductive DEF AccountInv
<1>2. BehindCursor'
  <2> SUFFICES ASSUME NEW n \in Nat, StartInscription < n, n <= CursorValue'
               PROVE  Accounted(n)'
    BY DEF BehindCursor
  <2>1. CASE cursor' = cursor
    BY <2>1, AccountedStays DEF CursorValue, AccountInv, BehindCursor
  <2>2. ASSUME NEW w \in Workers, InitCursor(w)
        PROVE  Accounted(n)'
    <3>1. CursorValue' = StartInscription
      BY <2>2 DEF InitCursor, CursorValue
    <3>2. QED
      BY <3>1, ConstantTypes
  <2>3. ASSUME NEW w \in Workers, CompleteBatch(w)
        PROVE  Accounted(n)'
    <3>1. CursorValue' = target[w] /\ pc[w] = "complete"
      BY <2>3 DEF CompleteBatch, CursorValue, TypeOK, NoCursor
    <3>2. QED
      BY <3>1, AccountedStays DEF AccountInv, BehindTarget
  <2>4. ASSUME NEW w \in Workers, ResetCursor(w)
        PROVE  Accounted(n)'
    <3>1. CursorValue' = target[w] /\ target[w] \in Nat /\ CursorValue \in Nat
      BY <2>4, CursorTyped DEF ResetCursor, CursorValue, TypeOK, NoCursor
    <3>2. CASE n <= CursorValue
      BY <3>2, AccountedStays DEF AccountInv, BehindCursor
    <3>3. CASE CursorValue < n
      <4>1. n \in CursorValue + 1 .. target[w]
        BY <3>1, <3>3
      <4>2. QED
        BY <4>1, <2>4 DEF ResetCursor, Accounted
    <3>4. QED
      BY <3>1, <3>2, <3>3
  <2>6. ASSUME NEW w \in Workers, LoopError(w)
        PROVE  Accounted(n)'
    <3>1. CASE cursor' = target[w] /\ pc[w] = "complete"
      <4>1. CursorValue' = target[w]
        BY <3>1 DEF CursorValue, TypeOK, NoCursor
      <4>2. QED
        BY <3>1, <4>1, AccountedStays DEF AccountInv, BehindTarget
    <3>2. CASE /\ cursor' = target[w]
               /\ givenUp' = givenUp \cup (CursorValue + 1 .. target[w])
      <4>1. CursorValue' = target[w] /\ target[w] \in Nat /\ CursorValue \in Nat
        BY <3>2, CursorTyped DEF CursorValue, TypeOK, NoCursor
      <4>2. CASE n <= CursorValue
        BY <4>2, AccountedStays DEF AccountInv, BehindCursor
      <4>3. CASE CursorValue < n
        BY <3>2, <4>1, <4>3 DEF Accounted
      <4>4. QED
        BY <4>1, <4>2, <4>3
    <3>3. QED
      BY <2>1, <2>6, <3>1, <3>2 DEF LoopError
  <2>5. QED
    BY <2>1, <2>2, <2>3, <2>4, <2>6, CursorSteps
<1>3. BehindBatch'
  <2> SUFFICES ASSUME NEW w \in Workers, NEW n \in Nat, pc'[w] = "work",
                      StartInscription < n, n <= batch'[w].end
               PROVE  Accounted(n)'
    BY DEF BehindBatch
  <2>1. CASE pc[w] = "work" /\ batch'[w] = batch[w]
    BY <2>1, AccountedStays DEF AccountInv, BehindBatch
  <2>2. CASE ClaimBatch(w)
    BY <2>2, ClaimAccounts
  <2>3. QED
    BY <2>1, <2>2, PhaseSteps
<1>4. BehindTarget'
  <2> SUFFICES ASSUME NEW w \in Workers, NEW n \in Nat, pc'[w] = "complete",
                      StartInscription < n, n <= target'[w]
               PROVE  Accounted(n)'
    BY DEF BehindTarget
  <2>1. CASE pc[w] = "complete" /\ target'[w] = target[w]
    BY <2>1, AccountedStays DEF AccountInv, BehindTarget
  <2>2. CASE pc[w] = "work" /\ target'[w] \in Numbers(w)
    <3>1. n <= batch[w].end
      BY <2>2, NumbersTyped DEF Numbers
    <3>2. QED
      BY <2>2, <3>1, AccountedStays DEF AccountInv, BehindBatch
  <2>3. QED
    BY <2>1, <2>2, PhaseSteps
<1>5. Claimed'
  <2> SUFFICES ASSUME NEW c \in claims', NEW n \in c.start .. c.end,
                      StartInscription < n
               PROVE  Accounted(n)'
    BY DEF Claimed
  <2>1. CASE c \in claims
    BY <2>1, AccountedStays DEF AccountInv, Claimed
  <2>2. CASE c \notin claims
    <3>1. PICK w \in Workers : ClaimBatch(w) \/ ClaimUnheard(w)
      BY <2>2, OnlyTheScriptAddsClaims
    <3>2. PICK k \in 0 .. MaxAttempts - 1 :
            /\ MakeClaim(w, k)
            /\ \A m \in Nat : StartInscription < m /\ m <= AttemptEnd(k)
                              => Accounted(m)'
      BY <3>1, ClaimAccounts
    <3>3. c.start = AttemptStart(k) /\ c.end = AttemptEnd(k)
      BY <2>2, <3>2 DEF MakeClaim, ClaimsWithout
    <3>4. n \in Nat /\ n <= AttemptEnd(k)
      BY <3>3, AttemptTyped
    <3>5. QED
      BY <3>2, <3>4
  <2>3. QED
    BY <2>1, <2>2
<1>6. QED
  BY <1>1, <1>2, <1>3, <1>4, <1>5 DEF AccountInv

\* Nothing is lost in silence: whatever the replicas, the provider, Redis and
\* the process manager do, each number the cursor has passed is recorded, in
\* the hands of a replica, or was given up in one of the five known ways.
THEOREM NothingLostSilently == Spec => []PassedIsAccounted
<1>1. Init => AccountInv
  <2> SUFFICES ASSUME Init
               PROVE  AccountInv
    OBVIOUS
  <2>1. ResultsRecorded /\ Claimed
    BY DEF Init, ResultsRecorded, Claimed
  <2>2. CursorValue = StartInscription
    BY DEF Init, CursorValue
  <2>3. BehindCursor
    BY <2>2, ConstantTypes DEF BehindCursor
  <2>4. BehindBatch /\ BehindTarget
    BY DEF Init, BehindBatch, BehindTarget
  <2>5. QED
    BY <2>1, <2>3, <2>4 DEF AccountInv
<1>2. TypeOK /\ AccountInv /\ [Next]_vars => AccountInv'
  BY AccountInductive
<1>3. TypeOK /\ AccountInv => PassedIsAccounted
  <2> SUFFICES ASSUME TypeOK, AccountInv,
                      NEW n \in StartInscription + 1 .. CursorValue
               PROVE  Accounted(n)
    BY DEF PassedIsAccounted, Accounted
  <2>1. n \in Nat /\ StartInscription < n /\ n <= CursorValue
    BY ConstantTypes, CursorTyped
  <2>2. QED
    BY <2>1 DEF AccountInv, BehindCursor
<1>4. QED
  BY <1>1, <1>2, <1>3, TypeCorrect, PTL DEF Spec
=============================================================================
