------------------------- MODULE TxLifecycleProofs -------------------------
(***************************************************************************)
(* Proofs about the broadcaster, the confirmation service and the tracker  *)
(* they share, for any numbers of broadcasts, nodes, transactions, retries,*)
(* watches, forced checks, reorganisations and toggled nodes.              *)
(***************************************************************************)
EXTENDS TxLifecycle, FiniteSetTheorems, TLAPS

(***************************************************************************)
(* The tracker.                                                            *)
(***************************************************************************)
\* Every operation of the tracker leaves a tracker of entries.
LEMMA TrackerOperations ==
    ASSUME NEW tr \in [Keys -> Entry \cup {Untracked}], NEW k \in Keys,
           NEW x \in Txids \cup {NoTxid}
    PROVE  /\ Add(tr, k, NewEntry(x)) \in [Keys -> Entry \cup {Untracked}]
           /\ \A s \in Status :
                SetStatus(tr, k, s) \in [Keys -> Entry \cup {Untracked}]
           /\ \A e \in {"none", "failed", "cancelled"} :
                SetError(tr, k, e) \in [Keys -> Entry \cup {Untracked}]
           /\ SetTxid(tr, k, x) \in [Keys -> Entry \cup {Untracked}]
           /\ \A n \in Nat :
                UpdateConfirmations(tr, k, n) \in [Keys -> Entry \cup {Untracked}]
<1>1. ASSUME Tracked(tr, k) PROVE tr[k] \in Entry
  BY <1>1 DEF Tracked
<1>2. Add(tr, k, NewEntry(x)) \in [Keys -> Entry \cup {Untracked}]
  BY DEF Add, NewEntry, Entry, Status
<1>3. ASSUME NEW s \in Status
      PROVE  SetStatus(tr, k, s) \in [Keys -> Entry \cup {Untracked}]
  BY <1>1 DEF SetStatus, Entry
<1>4. ASSUME NEW e \in {"none", "failed", "cancelled"}
      PROVE  SetError(tr, k, e) \in [Keys -> Entry \cup {Untracked}]
  BY <1>1 DEF SetError, Entry
<1>5. SetTxid(tr, k, x) \in [Keys -> Entry \cup {Untracked}]
  BY <1>1 DEF SetTxid, Entry
<1>6. ASSUME NEW n \in Nat
      PROVE  UpdateConfirmations(tr, k, n) \in [Keys -> Entry \cup {Untracked}]
  <2>1. ASSUME NEW s \in Status PROVE ConfirmedStatus(s, n) \in Status
    BY DEF ConfirmedStatus, Status
  <2>2. QED BY <1>1, <2>1 DEF UpdateConfirmations, Entry
<1>7. QED BY <1>2, <1>3, <1>4, <1>5, <1>6

\* What the operations leave of the entries under other keys, and which of them make
\* an entry.
LEMMA TrackerElsewhere ==
    ASSUME NEW tr \in [Keys -> Entry \cup {Untracked}], NEW k \in Keys,
           NEW j \in Keys, j # k, NEW v
    PROVE  /\ Add(tr, k, v)[j] = tr[j]
           /\ SetStatus(tr, k, v)[j] = tr[j]
           /\ SetError(tr, k, v)[j] = tr[j]
           /\ SetTxid(tr, k, v)[j] = tr[j]
           /\ UpdateConfirmations(tr, k, v)[j] = tr[j]
BY DEF Add, SetStatus, SetError, SetTxid, UpdateConfirmations

(***************************************************************************)
(* The confirmation service.                                               *)
(***************************************************************************)
LEMMA ConfirmConstants ==
    /\ MaxApiRetries \in Nat
    /\ MaxApiRetries >= 1
    /\ MaxWatches \in Nat
    /\ MaxForced \in Nat
BY WatchAssumption

\* A sweep never takes the place of a chain that belongs to a watch.
LEMMA SweepChains ==
    ASSUME NEW f \in 1..MaxForced, NEW g \in Watches
    PROVE  SweepChain(f, g) \in Chains /\ SweepChain(f, g) \notin Watches
<1>1. MaxWatches * f >= MaxWatches /\ MaxWatches * f \in Nat
  <2>1. MaxWatches * (f - 1) \in Nat
    BY ConfirmConstants
  <2>2. MaxWatches * f = MaxWatches * (f - 1) + MaxWatches
    BY ConfirmConstants
  <2>3. QED BY <2>1, <2>2, ConfirmConstants
<1>2. MaxWatches * f <= MaxWatches * MaxForced /\ MaxWatches * MaxForced \in Nat
  <2>1. MaxWatches * (MaxForced - f) \in Nat
    BY ConfirmConstants
  <2>2. MaxWatches * MaxForced = MaxWatches * f + MaxWatches * (MaxForced - f)
    BY ConfirmConstants
  <2>3. QED BY <1>1, <2>1, <2>2, ConfirmConstants
<1>3. MaxWatches * (1 + MaxForced) = MaxWatches + MaxWatches * MaxForced
  BY ConfirmConstants
<1>4. g \in 1..MaxWatches
  BY DEF Watches
<1>5. SweepChain(f, g) = MaxWatches * f + g
  BY DEF SweepChain
<1>6. QED
  BY <1>1, <1>2, <1>3, <1>4, <1>5, ConfirmConstants DEF Chains, Watches

LEMMA WatchesAreChains == Watches \subseteq Chains
<1>1. MaxWatches * MaxForced \in Nat
  BY ConfirmConstants
<1>2. MaxWatches * (1 + MaxForced) = MaxWatches + MaxWatches * MaxForced
  BY ConfirmConstants
<1>3. QED BY <1>1, <1>2, ConfirmConstants DEF Watches, Chains

\* A step of the confirmation service, on the variables it shares with the tracker.
ConfirmNext ==
    \/ \E x \in Txids : Known(x) /\ Watch(x)
    \/ \E x \in Txids : Unwatch(x)
    \/ \E c \in Chains : ConfirmStep(c)
    \/ ForceCheckAll
    \/ \E f \in 1..MaxForced : SweepGoesOn(f)

(* What the proofs need beyond the types, part by part. *)

\* Watches are numbered as they are made, and no two transactions share one.
WatchesNumbered ==
    /\ \A x \in Txids : watched[x] <= watches
    /\ \A x, y \in Txids : watched[x] # 0 /\ watched[x] = watched[y] => x = y

\* A check works for a watch that was made, and for no other transaction's.
ChecksOfWatches ==
    \A c \in Chains : chains[c].at \in {"asked", "answered"} =>
        /\ chains[c].watch \in Watches
        /\ chains[c].watch <= watches
        /\ \A x \in Txids : watched[x] = chains[c].watch => x = chains[c].txid

\* A watch that was notified is over.
NotifiedIsOver ==
    /\ \A g \in notified : g <= watches
    /\ \A x \in Txids : watched[x] \notin notified

\* The chain a watch began with polls for it as long as it lasts.
OwnChainPolls ==
    \A x \in Txids : watched[x] # 0 =>
        LET own == chains[watched[x]]
        IN  /\ own.at # "end"
            /\ own.txid = x
            /\ own.at # "timer" => own.watch = watched[x]

\* An answer that says final stays true.
FinalAnswersStand ==
    \A c \in Chains : At(c, "answered") /\ chains[c].answer = "final"
        => depth[chains[c].txid] = FinalDepth

\* Only a watch that was notified has been reported as final.
FinalizedIsNotified ==
    \A x \in Txids : \A g \in Watches :
        \/ finalized[x][g] = 0
        \/ finalized[x][g] = 1 /\ g \in notified /\ depth[x] = FinalDepth

ConfirmInv ==
    /\ ConfirmTypeOK
    /\ WatchesNumbered
    /\ ChecksOfWatches
    /\ NotifiedIsOver
    /\ OwnChainPolls
    /\ FinalAnswersStand
    /\ FinalizedIsNotified

Live == [txid : Txids, watch : 0..MaxWatches,
         at : {"timer", "asked", "answered"}, answer : Answers]

\* A chain that has not ended polls a transaction.
LEMMA LiveChains ==
    ASSUME ConfirmTypeOK, NEW c \in Chains
    PROVE  /\ chains[c] = NoChain \/ chains[c] \in Live
           /\ chains[c].at # "end" => chains[c] \in Live
BY DEF ConfirmTypeOK, Live, NoChain

\* What a sweep does: it ends, or checks one watched transaction.
LEMMA SweepTyped ==
    ASSUME ConfirmTypeOK, NEW f \in 1..MaxForced, NEW g \in 0..MaxWatches,
           SweepFrom(f, g)
    PROVE  /\ sweep' \in [1..MaxForced -> 0..MaxWatches]
           /\ \/ chains' = chains
              \/ \E x \in Txids :
                   /\ watched[x] \in Watches
                   /\ chains' = [chains EXCEPT ![SweepChain(f, watched[x])] = Check(x)]
<1>1. CASE sweep' = [sweep EXCEPT ![f] = 0] /\ UNCHANGED chains
  BY <1>1, ConfirmConstants DEF ConfirmTypeOK
<1>2. ASSUME NEW x \in Txids, watched[x] > g,
             sweep' = [sweep EXCEPT ![f] = watched[x]],
             chains' = [chains EXCEPT ![SweepChain(f, watched[x])] = Check(x)]
      PROVE  /\ sweep' \in [1..MaxForced -> 0..MaxWatches]
             /\ watched[x] \in Watches
  BY <1>2, ConfirmConstants DEF ConfirmTypeOK, Watches
<1>3. QED BY <1>1, <1>2 DEF SweepFrom

LEMMA ConfirmTyped ==
    ASSUME ConfirmTypeOK, ChecksOfWatches, ConfirmNext
    PROVE  ConfirmTypeOK'
<1> USE ConfirmConstants
<1>1. ASSUME NEW x \in Txids, Watch(x) PROVE ConfirmTypeOK'
  <2>1. watches' \in Watches /\ watches' \in Chains /\ Timer(x) \in Live
    BY <1>1, WatchesAreChains DEF Watch, ConfirmTypeOK, Watches, Timer, Live, Answers
  <2>2. watched' \in [Txids -> 0..MaxWatches] /\ watches' \in 0..MaxWatches
    BY <1>1, <2>1 DEF Watch, ConfirmTypeOK, Watches
  <2>3. chains' \in [Chains -> {NoChain} \cup Live]
    BY <1>1, <2>1 DEF Watch, ConfirmTypeOK, Live
  <2>4. UNCHANGED <<retries, notified, forced, sweep, finalized>>
    BY <1>1 DEF Watch
  <2>5. QED BY <2>2, <2>3, <2>4 DEF ConfirmTypeOK, Live
<1>2. ASSUME NEW x \in Txids, Unwatch(x) PROVE ConfirmTypeOK'
  BY <1>2 DEF Unwatch, ConfirmTypeOK
<1>3. ASSUME NEW c \in Chains, TimerFires(c) PROVE ConfirmTypeOK'
  <2>1. chains[c] \in Live
    BY <1>3, LiveChains DEF TimerFires, At
  <2>2. Check(chains[c].txid) \in Live
    BY <2>1 DEF Check, Live, Answers, ConfirmTypeOK
  <2>3. chains' \in [Chains -> {NoChain} \cup Live]
    BY <1>3, <2>2 DEF TimerFires, ConfirmTypeOK, Live
  <2>4. QED BY <1>3, <2>3 DEF TimerFires, ConfirmTypeOK, watchVars, Live
<1>4. ASSUME NEW c \in Chains, ApiAnswersCheck(c) PROVE ConfirmTypeOK'
  <2>1. chains[c] \in Live
    BY <1>4, LiveChains DEF ApiAnswersCheck, At
  <2>2. PICK answer \in Answers :
          chains' = [chains EXCEPT ![c] = Answered(c, answer)]
    BY <1>4 DEF ApiAnswersCheck, ApiAnswers, Answers
  <2>3. Answered(c, answer) \in Live
    BY <2>1 DEF Live, Answered
  <2>5. chains' \in [Chains -> {NoChain} \cup Live]
    BY <2>2, <2>3 DEF ConfirmTypeOK, Live
  <2>6. QED BY <1>4, <2>5 DEF ApiAnswersCheck, ConfirmTypeOK, watchVars, Live
<1>5. ASSUME NEW c \in Chains, HandleFailure(c) PROVE ConfirmTypeOK'
  <2>1. chains[c] \in Live
    BY <1>5, LiveChains DEF HandleFailure, At
  <2>2. Timer(chains[c].txid) \in Live
    BY <2>1 DEF Timer, Live, Answers
  <2>3. chains' \in [Chains -> {NoChain} \cup Live] /\ watched' \in [Txids -> 0..MaxWatches]
    <3>1. CASE GiveUp(c, chains[c].txid)
      <4>1. chains[c].txid \in Txids
        BY <2>1 DEF Live
      <4>2. QED BY <3>1, <4>1 DEF GiveUp, ConfirmTypeOK, Live
    <3>2. CASE PollAgain(c, chains[c].txid) /\ UNCHANGED watched
      BY <2>2, <3>2 DEF PollAgain, ConfirmTypeOK, Live
    <3>3. QED BY <1>5, <3>1, <3>2 DEF HandleFailure
  <2>4. retries' \in [Watches -> Nat]
    <3>1. retries' = [retries EXCEPT ![chains[c].watch] = @ + 1]
      BY <1>5 DEF HandleFailure
    <3>2. chains[c].watch \in Watches
      BY <1>5 DEF HandleFailure, ChecksOfWatches, At
    <3>3. QED BY <3>1, <3>2 DEF ConfirmTypeOK
  <2>5. QED BY <1>5, <2>3, <2>4 DEF HandleFailure, ConfirmTypeOK, Live
<1>6. ASSUME NEW c \in Chains, HandleUnconfirmed(c) PROVE ConfirmTypeOK'
  <2>1. chains[c] \in Live
    BY <1>6, LiveChains DEF HandleUnconfirmed, At
  <2>2. Timer(chains[c].txid) \in Live
    BY <2>1 DEF Timer, Live, Answers
  <2>3. QED
    BY <1>6, <2>2 DEF HandleUnconfirmed, PollAgain, ConfirmTypeOK, watchVars, Live
<1>7. ASSUME NEW c \in Chains, HandleConfirmed(c) PROVE ConfirmTypeOK'
  <2>1. chains[c] \in Live
    BY <1>7, LiveChains DEF HandleConfirmed, ConfirmedAnswer, At
  <2>2. Timer(chains[c].txid) \in Live
    BY <2>1 DEF Timer, Live, Answers
  <2>3. retries' \in [Watches -> Nat] /\ watches' = watches /\ forced' = forced
          /\ sweep' = sweep
    BY <1>7 DEF HandleConfirmed, ConfirmedAnswer, ConfirmTypeOK
  <2>4. CASE Finalize(c, chains[c].txid, chains[c].watch)
    <3>1. chains[c].watch \in Watches /\ chains[c].txid \in Txids
      BY <1>7, <2>1 DEF HandleConfirmed, ConfirmedAnswer, ChecksOfWatches, At, Live
    <3>2. finalized' \in [Txids -> [Watches -> Nat]] /\ notified' \subseteq Watches
      BY <2>4, <3>1 DEF Finalize, ConfirmTypeOK
    <3>3. watched' \in [Txids -> 0..MaxWatches] /\ chains' \in [Chains -> {NoChain} \cup Live]
      BY <2>4, <3>1 DEF Finalize, GiveUp, ConfirmTypeOK, Live
    <3>4. QED BY <2>3, <3>2, <3>3 DEF ConfirmTypeOK, Live
  <2>5. CASE AwaitFinality(c, chains[c].txid)
    BY <2>2, <2>3, <2>5 DEF AwaitFinality, PollAgain, ConfirmTypeOK, Live
  <2>6. CASE StopPolling(c, chains[c].txid)
    BY <2>3, <2>6 DEF StopPolling, ConfirmTypeOK, Live
  <2>7. QED BY <1>7, <2>4, <2>5, <2>6 DEF HandleConfirmed
<1>8. ASSUME NEW f \in 1..MaxForced, NEW g \in 0..MaxWatches, SweepFrom(f, g)
      PROVE  sweep' \in [1..MaxForced -> 0..MaxWatches]
               /\ chains' \in [Chains -> {NoChain} \cup Live]
  <2>1. ASSUME NEW x \in Txids, watched[x] \in Watches
        PROVE  SweepChain(f, watched[x]) \in Chains /\ Check(x) \in Live
    BY <2>1, SweepChains DEF Check, Live, Answers, ConfirmTypeOK
  <2>2. ASSUME NEW x \in Txids, watched[x] \in Watches,
               chains' = [chains EXCEPT ![SweepChain(f, watched[x])] = Check(x)]
        PROVE  chains' \in [Chains -> {NoChain} \cup Live]
    BY <2>1, <2>2 DEF ConfirmTypeOK, Live
  <2>3. sweep' \in [1..MaxForced -> 0..MaxWatches]
    BY <1>8, SweepTyped
  <2>4. CASE chains' = chains
    BY <2>3, <2>4 DEF ConfirmTypeOK, Live
  <2>5. QED BY <1>8, <2>2, <2>3, <2>4, SweepTyped
<1>9. CASE ForceCheckAll
  <2>1. forced' \in 1..MaxForced /\ SweepFrom(forced', 0) /\ 0 \in 0..MaxWatches
    BY <1>9 DEF ForceCheckAll, ConfirmTypeOK
  <2>2. QED BY <1>8, <1>9, <2>1 DEF ForceCheckAll, ConfirmTypeOK, watchVars, Live
<1>10. ASSUME NEW f \in 1..MaxForced, SweepGoesOn(f) PROVE ConfirmTypeOK'
  <2>1. sweep[f] \in 0..MaxWatches /\ SweepFrom(f, sweep[f])
    BY <1>10 DEF SweepGoesOn, ConfirmTypeOK
  <2>2. QED BY <1>8, <1>10, <2>1 DEF SweepGoesOn, ConfirmTypeOK, watchVars, Live
<1>11. QED
  BY <1>1, <1>2, <1>3, <1>4, <1>5, <1>6, <1>7, <1>9, <1>10 DEF ConfirmNext, ConfirmStep

\* The other parts, for each step of the service; the chain stands still meanwhile.
LEMMA WatchKeeps ==
    ASSUME ConfirmInv, NEW x \in Txids, Watch(x), ConfirmTypeOK'
    PROVE  ConfirmInv'
<1> USE ConfirmConstants
<1>1. /\ watches' = watches + 1 /\ watches' \in Watches /\ watches' \in Chains
      /\ watched' = [watched EXCEPT ![x] = watches']
      /\ chains' = [chains EXCEPT ![watches'] = Timer(x)]
      /\ UNCHANGED <<notified, finalized, depth>>
  BY WatchesAreChains DEF Watch, ConfirmInv, ConfirmTypeOK, Watches
<1>2. WatchesNumbered'
  BY <1>1 DEF ConfirmInv, ConfirmTypeOK, WatchesNumbered
<1>3. ChecksOfWatches'
  <2> SUFFICES ASSUME NEW c \in Chains, chains'[c].at \in {"asked", "answered"}
               PROVE  /\ chains'[c].watch \in Watches
                      /\ chains'[c].watch <= watches'
                      /\ \A y \in Txids :
                           watched'[y] = chains'[c].watch => y = chains'[c].txid
    BY DEF ChecksOfWatches
  <2>1. c # watches' /\ chains'[c] = chains[c]
    BY <1>1 DEF ConfirmInv, ConfirmTypeOK, Timer
  <2>2. chains[c].watch \in Watches /\ chains[c].watch <= watches
    BY <2>1 DEF ConfirmInv, ChecksOfWatches
  <2>3. ASSUME NEW y \in Txids, watched'[y] = chains[c].watch
        PROVE  y = chains[c].txid
    <3>1. y # x
      BY <1>1, <2>2, <2>3 DEF ConfirmInv, ConfirmTypeOK, Watches
    <3>2. watched[y] = chains[c].watch
      BY <1>1, <2>3, <3>1 DEF ConfirmInv, ConfirmTypeOK
    <3>3. QED BY <2>1, <3>2 DEF ConfirmInv, ChecksOfWatches
  <2>4. QED BY <1>1, <2>1, <2>2, <2>3 DEF ConfirmInv, ConfirmTypeOK, Watches
<1>4. NotifiedIsOver'
  BY <1>1 DEF ConfirmInv, ConfirmTypeOK, NotifiedIsOver, Watches
<1>5. OwnChainPolls'
  BY <1>1 DEF ConfirmInv, ConfirmTypeOK, OwnChainPolls, WatchesNumbered, Timer
<1>6. FinalAnswersStand'
  BY <1>1 DEF ConfirmInv, ConfirmTypeOK, FinalAnswersStand, At, Timer
<1>7. FinalizedIsNotified'
  BY <1>1 DEF ConfirmInv, FinalizedIsNotified
<1>8. QED BY <1>2, <1>3, <1>4, <1>5, <1>6, <1>7 DEF ConfirmInv

LEMMA UnwatchKeeps ==
    ASSUME ConfirmInv, NEW x \in Txids, Unwatch(x), ConfirmTypeOK'
    PROVE  ConfirmInv'
<1>1. /\ watched' = [watched EXCEPT ![x] = 0]
      /\ UNCHANGED <<watches, chains, notified, finalized, depth>>
  BY DEF Unwatch
<1>2. WatchesNumbered' /\ NotifiedIsOver' /\ OwnChainPolls'
  BY <1>1 DEF ConfirmInv, ConfirmTypeOK, WatchesNumbered, NotifiedIsOver, OwnChainPolls,
              Watches
<1>3. ChecksOfWatches'
  BY <1>1 DEF ConfirmInv, ConfirmTypeOK, ChecksOfWatches, Watches
<1>4. FinalAnswersStand' /\ FinalizedIsNotified'
  BY <1>1 DEF ConfirmInv, FinalAnswersStand, FinalizedIsNotified, At
<1>5. QED BY <1>2, <1>3, <1>4 DEF ConfirmInv

\* A check begins, of a transaction that is watched, on a chain that belongs to that
\* watch or to none.
LEMMA CheckKeeps ==
    ASSUME ConfirmInv, NEW c \in Chains, NEW x \in Txids, watched[x] # 0,
           chains' = [chains EXCEPT ![c] = Check(x)],
           \A y \in Txids : watched[y] = c => x = y,
           UNCHANGED <<watched, watches, notified, finalized, depth>>,
           ConfirmTypeOK'
    PROVE  ConfirmInv'
<1> USE ConfirmConstants
<1>1. WatchesNumbered' /\ NotifiedIsOver' /\ FinalizedIsNotified'
  BY DEF ConfirmInv, WatchesNumbered, NotifiedIsOver, FinalizedIsNotified
<1>2. ChecksOfWatches'
  <2>1. watched[x] \in Watches /\ watched[x] <= watches
    BY DEF ConfirmInv, ConfirmTypeOK, WatchesNumbered, Watches
  <2>2. \A y \in Txids : watched[y] = watched[x] => y = x
    BY DEF ConfirmInv, WatchesNumbered
  <2>3. QED BY <2>1, <2>2 DEF ConfirmInv, ConfirmTypeOK, ChecksOfWatches, Check
<1>3. OwnChainPolls'
  BY DEF ConfirmInv, ConfirmTypeOK, OwnChainPolls, Check
<1>4. FinalAnswersStand'
  BY DEF ConfirmInv, ConfirmTypeOK, FinalAnswersStand, At, Check
<1>5. QED BY <1>1, <1>2, <1>3, <1>4 DEF ConfirmInv

\* A check ends, and its chain goes on with a timer for the same transaction.
LEMMA PollAgainKeeps ==
    ASSUME ConfirmInv, NEW c \in Chains, chains[c].at # "end",
           PollAgain(c, chains[c].txid),
           UNCHANGED <<watched, watches, notified, finalized, depth>>,
           ConfirmTypeOK'
    PROVE  ConfirmInv'
<1>1. WatchesNumbered' /\ NotifiedIsOver' /\ FinalizedIsNotified'
  BY DEF ConfirmInv, WatchesNumbered, NotifiedIsOver, FinalizedIsNotified
<1>2. ChecksOfWatches' /\ FinalAnswersStand'
  BY DEF ConfirmInv, ConfirmTypeOK, ChecksOfWatches, FinalAnswersStand, At, PollAgain, Timer
<1>3. OwnChainPolls'
  BY DEF ConfirmInv, ConfirmTypeOK, OwnChainPolls, PollAgain, Timer
<1>4. QED BY <1>1, <1>2, <1>3 DEF ConfirmInv

\* A check ends with its chain, and its transaction is unwatched, by whichever watch.
LEMMA GiveUpKeeps ==
    ASSUME ConfirmInv, NEW c \in Chains, chains[c] \in Live, GiveUp(c, chains[c].txid),
           UNCHANGED <<watches, notified, finalized, depth>>,
           ConfirmTypeOK'
    PROVE  ConfirmInv'
<1>1. /\ chains[c].txid \in Txids
      /\ watched' = [watched EXCEPT ![chains[c].txid] = 0]
      /\ chains' = [chains EXCEPT ![c] = NoChain]
  BY DEF Live, GiveUp
<1>2. WatchesNumbered' /\ NotifiedIsOver'
  BY <1>1 DEF ConfirmInv, ConfirmTypeOK, WatchesNumbered, NotifiedIsOver, Watches
<1>3. ChecksOfWatches' /\ FinalAnswersStand'
  BY <1>1 DEF ConfirmInv, ConfirmTypeOK, ChecksOfWatches, FinalAnswersStand, At, NoChain,
              Watches
<1>4. OwnChainPolls'
  BY <1>1 DEF ConfirmInv, ConfirmTypeOK, OwnChainPolls
<1>5. FinalizedIsNotified'
  BY DEF ConfirmInv, FinalizedIsNotified
<1>6. QED BY <1>2, <1>3, <1>4, <1>5 DEF ConfirmInv

\* A final answer is reported: the watch is notified and over.
LEMMA FinalizeKeeps ==
    ASSUME ConfirmInv, NEW c \in Chains, At(c, "answered"), chains[c] \in Live,
           chains[c].watch \notin notified,
           Finalize(c, chains[c].txid, chains[c].watch),
           UNCHANGED <<watches, depth>>,
           ConfirmTypeOK'
    PROVE  ConfirmInv'
<1> DEFINE x == chains[c].txid
           g == chains[c].watch
<1>1. /\ x \in Txids
      /\ g \in Watches /\ g <= watches
      /\ \A y \in Txids : watched[y] = g => y = x
      /\ depth[x] = FinalDepth
  BY DEF ConfirmInv, ChecksOfWatches, FinalAnswersStand, Finalize, At, Live
<1>2. /\ watched' = [watched EXCEPT ![x] = 0]
      /\ chains' = [chains EXCEPT ![c] = NoChain]
      /\ notified' = notified \cup {g}
      /\ finalized' = [finalized EXCEPT ![x][g] = @ + 1]
  BY DEF Finalize, GiveUp
<1> HIDE DEF x, g
<1>3. WatchesNumbered' /\ NotifiedIsOver'
  BY <1>1, <1>2 DEF ConfirmInv, ConfirmTypeOK, WatchesNumbered, NotifiedIsOver, Watches
<1>4. ChecksOfWatches' /\ FinalAnswersStand'
  BY <1>1, <1>2 DEF ConfirmInv, ConfirmTypeOK, ChecksOfWatches, FinalAnswersStand, At,
                    NoChain, Watches
<1>5. OwnChainPolls'
  <2> SUFFICES ASSUME NEW y \in Txids, watched'[y] # 0
               PROVE  /\ chains'[watched'[y]].at # "end"
                      /\ chains'[watched'[y]].txid = y
                      /\ chains'[watched'[y]].at # "timer"
                           => chains'[watched'[y]].watch = watched'[y]
    BY DEF OwnChainPolls
  <2>1. y # x /\ watched'[y] = watched[y]
    BY <1>1, <1>2 DEF ConfirmInv, ConfirmTypeOK
  <2>2. chains[watched[y]].txid = y /\ watched[y] # c
    BY <2>1 DEF ConfirmInv, OwnChainPolls, x
  <2>3. chains'[watched[y]] = chains[watched[y]]
    BY <1>2, <2>2 DEF ConfirmInv, ConfirmTypeOK
  <2>4. QED BY <2>1, <2>3 DEF ConfirmInv, OwnChainPolls
<1>6. FinalizedIsNotified'
  <2> SUFFICES ASSUME NEW y \in Txids, NEW h \in Watches
               PROVE  \/ finalized'[y][h] = 0
                      \/ finalized'[y][h] = 1 /\ h \in notified' /\ depth'[y] = FinalDepth
    BY DEF FinalizedIsNotified
  <2>1. CASE y = x /\ h = g
    <3>1. finalized[x][g] = 0
      BY <1>1 DEF ConfirmInv, FinalizedIsNotified, g
    <3>2. QED BY <1>1, <1>2, <2>1, <3>1 DEF ConfirmInv, ConfirmTypeOK
  <2>2. CASE ~(y = x /\ h = g)
    <3>1. finalized'[y][h] = finalized[y][h]
      BY <1>1, <1>2, <2>2 DEF ConfirmInv, ConfirmTypeOK
    <3>2. QED BY <1>2, <3>1 DEF ConfirmInv, FinalizedIsNotified
  <2>3. QED BY <2>1, <2>2
<1>7. QED BY <1>3, <1>4, <1>5, <1>6 DEF ConfirmInv

\* A final answer to a check whose watch is notified: its chain ends, and is not the one
\* a later watch of the transaction relies on.
LEMMA StopPollingKeeps ==
    ASSUME ConfirmInv, NEW c \in Chains, At(c, "answered"),
           chains[c].watch \in notified,
           StopPolling(c, chains[c].txid),
           UNCHANGED <<watches, depth>>,
           ConfirmTypeOK'
    PROVE  ConfirmInv'
<1>1. /\ chains' = [chains EXCEPT ![c] = NoChain]
      /\ UNCHANGED <<watched, notified, finalized>>
  BY DEF StopPolling
<1>2. WatchesNumbered' /\ NotifiedIsOver' /\ FinalizedIsNotified'
  BY <1>1 DEF ConfirmInv, WatchesNumbered, NotifiedIsOver, FinalizedIsNotified
<1>3. ChecksOfWatches' /\ FinalAnswersStand'
  BY <1>1 DEF ConfirmInv, ConfirmTypeOK, ChecksOfWatches, FinalAnswersStand, At, NoChain
<1>4. \A x \in Txids : watched[x] # c
  <2>1. SUFFICES ASSUME NEW x \in Txids, watched[x] = c PROVE FALSE
    OBVIOUS
  <2>2. watched[x] # 0 /\ watched[x] \notin notified
    BY <2>1 DEF ConfirmInv, NotifiedIsOver, Chains
  <2>3. chains[c].watch = c
    BY <2>1, <2>2 DEF ConfirmInv, OwnChainPolls, At
  <2>4. QED BY <2>1, <2>2, <2>3
<1>5. OwnChainPolls'
  BY <1>1, <1>4 DEF ConfirmInv, ConfirmTypeOK, OwnChainPolls
<1>6. QED BY <1>2, <1>3, <1>5 DEF ConfirmInv

\* A sweep checks a transaction on a chain of its own.
LEMMA SweepKeeps ==
    ASSUME ConfirmInv, NEW f \in 1..MaxForced, NEW g \in 0..MaxWatches, SweepFrom(f, g),
           UNCHANGED <<watched, watches, notified, finalized, depth>>,
           ConfirmTypeOK'
    PROVE  ConfirmInv'
<1>1. ConfirmTypeOK
  BY DEF ConfirmInv
<1>2. CASE chains' = chains
  BY <1>2 DEF ConfirmInv, WatchesNumbered, NotifiedIsOver, FinalizedIsNotified,
              ChecksOfWatches, FinalAnswersStand, OwnChainPolls, At
<1>3. ASSUME NEW x \in Txids, watched[x] \in Watches,
             chains' = [chains EXCEPT ![SweepChain(f, watched[x])] = Check(x)]
      PROVE  ConfirmInv'
  <2>1. /\ SweepChain(f, watched[x]) \in Chains
        /\ SweepChain(f, watched[x]) \notin Watches
    BY <1>3, SweepChains
  <2>2. watched[x] # 0 /\ 0 \notin Watches
    BY <1>3 DEF Watches
  <2>3. \A y \in Txids : watched[y] = SweepChain(f, watched[x]) => x = y
    <3>1. SUFFICES ASSUME NEW y \in Txids, watched[y] = SweepChain(f, watched[x])
                   PROVE  FALSE
      OBVIOUS
    <3>2. watched[y] = 0
      BY <1>1, <2>1, <3>1, ConfirmConstants DEF ConfirmTypeOK, Watches
    <3>3. 0 \notin Chains
      BY DEF Chains
    <3>4. QED BY <2>1, <3>1, <3>2, <3>3
  <2>4. QED BY <1>3, <2>1, <2>2, <2>3, CheckKeeps
<1>4. QED BY <1>1, <1>2, <1>3, SweepTyped

LEMMA ConfirmStepKeeps ==
    ASSUME ConfirmInv, ConfirmNext, UNCHANGED depth, TrackerTypeOK
    PROVE  ConfirmInv'
<1>1. ConfirmTypeOK /\ ChecksOfWatches
  BY DEF ConfirmInv
<1>2. ConfirmTypeOK'
  BY <1>1, ConfirmTyped
<1>3. ASSUME NEW x \in Txids, Watch(x) PROVE ConfirmInv'
  BY <1>2, <1>3, WatchKeeps
<1>4. ASSUME NEW x \in Txids, Unwatch(x) PROVE ConfirmInv'
  BY <1>2, <1>4, UnwatchKeeps
<1>5. ASSUME NEW c \in Chains, TimerFires(c) PROVE ConfirmInv'
  <2>1. chains[c] \in Live /\ UNCHANGED <<watched, watches, notified, finalized, depth>>
    BY <1>1, <1>5, LiveChains DEF TimerFires, At, watchVars
  <2>2. CASE watched[chains[c].txid] = 0
    <3>1. chains' = [chains EXCEPT ![c] = NoChain]
      BY <1>5, <2>2 DEF TimerFires
    <3>2. ChecksOfWatches' /\ FinalAnswersStand'
      BY <2>1, <3>1 DEF ConfirmInv, ConfirmTypeOK, ChecksOfWatches, FinalAnswersStand, At,
                        NoChain
    <3>3. OwnChainPolls'
      BY <2>1, <2>2, <3>1 DEF ConfirmInv, ConfirmTypeOK, OwnChainPolls
    <3>4. WatchesNumbered' /\ NotifiedIsOver' /\ FinalizedIsNotified'
      BY <2>1 DEF ConfirmInv, WatchesNumbered, NotifiedIsOver, FinalizedIsNotified
    <3>5. QED BY <1>2, <3>2, <3>3, <3>4 DEF ConfirmInv
  <2>3. CASE watched[chains[c].txid] # 0
    <3>1. chains' = [chains EXCEPT ![c] = Check(chains[c].txid)] /\ chains[c].txid \in Txids
      BY <1>5, <2>1, <2>3 DEF TimerFires, Live
    <3>2. \A y \in Txids : watched[y] = c => chains[c].txid = y
      BY DEF ConfirmInv, OwnChainPolls, Chains
    <3>3. QED BY <1>2, <2>1, <2>3, <3>1, <3>2, CheckKeeps
  <2>4. QED BY <2>2, <2>3
<1>6. ASSUME NEW c \in Chains, ApiAnswersCheck(c) PROVE ConfirmInv'
  <2>1. PICK answer \in ApiAnswers(chains[c].txid) :
          chains' = [chains EXCEPT ![c] = Answered(c, answer)]
    BY <1>6 DEF ApiAnswersCheck
  <2>2. UNCHANGED <<watched, watches, notified, finalized, depth>> /\ chains[c].at = "asked"
    BY <1>6 DEF ApiAnswersCheck, watchVars, At
  <2>3. chains[c] \in Live
    BY <1>1, <2>2, LiveChains
  <2>4. /\ Answered(c, answer).at = "answered"
        /\ Answered(c, answer).answer = answer
        /\ Answered(c, answer).txid = chains[c].txid
        /\ Answered(c, answer).watch = chains[c].watch
    BY DEF Answered
  <2>5. answer = "final" => depth[chains[c].txid] = FinalDepth
    BY <2>1, <2>3 DEF ApiAnswers, Live, TrackerTypeOK, FinalDepth
  <2>6. ChecksOfWatches'
    <3>1. ASSUME NEW d \in Chains
          PROVE  /\ chains'[d].watch = chains[d].watch
                 /\ chains'[d].txid = chains[d].txid
                 /\ chains'[d].at \in {"asked", "answered"}
                      => chains[d].at \in {"asked", "answered"}
      BY <1>1, <2>1, <2>2, <2>4 DEF ConfirmTypeOK
    <3>2. QED BY <2>2, <3>1 DEF ConfirmInv, ChecksOfWatches
  <2>7. FinalAnswersStand'
    BY <1>1, <2>1, <2>2, <2>4, <2>5 DEF ConfirmInv, ConfirmTypeOK, FinalAnswersStand, At
  <2>8. OwnChainPolls'
    BY <1>1, <2>1, <2>2, <2>4, WatchesAreChains
       DEF ConfirmInv, OwnChainPolls, ConfirmTypeOK, Watches
  <2>9. WatchesNumbered' /\ NotifiedIsOver' /\ FinalizedIsNotified'
    BY <2>2 DEF ConfirmInv, WatchesNumbered, NotifiedIsOver, FinalizedIsNotified
  <2>10. QED BY <1>2, <2>6, <2>7, <2>8, <2>9 DEF ConfirmInv
<1>7. ASSUME NEW c \in Chains, HandleFailure(c) PROVE ConfirmInv'
  <2>1. chains[c] \in Live /\ chains[c].at # "end"
    BY <1>1, <1>7, LiveChains DEF HandleFailure, At
  <2>2. UNCHANGED <<watches, notified, finalized, depth>>
    BY <1>7 DEF HandleFailure
  <2>3. QED BY <1>2, <1>7, <2>1, <2>2, PollAgainKeeps, GiveUpKeeps DEF HandleFailure
<1>8. ASSUME NEW c \in Chains, HandleUnconfirmed(c) PROVE ConfirmInv'
  BY <1>2, <1>8, PollAgainKeeps DEF HandleUnconfirmed, At, watchVars
<1>9. ASSUME NEW c \in Chains, HandleConfirmed(c) PROVE ConfirmInv'
  <2>1. chains[c] \in Live /\ chains[c].at # "end" /\ At(c, "answered")
    BY <1>1, <1>9, LiveChains DEF HandleConfirmed, ConfirmedAnswer, At
  <2>2. UNCHANGED <<watches, depth>>
    BY <1>9 DEF HandleConfirmed, ConfirmedAnswer
  <2>3. CASE AwaitFinality(c, chains[c].txid)
    BY <1>2, <2>1, <2>2, <2>3, PollAgainKeeps DEF AwaitFinality
  <2>4. QED
    BY <1>2, <1>9, <2>1, <2>2, <2>3, FinalizeKeeps, StopPollingKeeps DEF HandleConfirmed
<1>10. CASE ForceCheckAll
  <2>1. forced' \in 1..MaxForced /\ 0 \in 0..MaxWatches
    BY <1>1, <1>10, ConfirmConstants DEF ForceCheckAll, ConfirmTypeOK
  <2>2. QED BY <1>2, <1>10, <2>1, SweepKeeps DEF ForceCheckAll, watchVars
<1>11. ASSUME NEW f \in 1..MaxForced, SweepGoesOn(f) PROVE ConfirmInv'
  <2>1. sweep[f] \in 0..MaxWatches
    BY <1>1 DEF ConfirmTypeOK
  <2>2. QED BY <1>2, <1>11, <2>1, SweepKeeps DEF SweepGoesOn, watchVars
<1>12. QED
  BY <1>3, <1>4, <1>5, <1>6, <1>7, <1>8, <1>9, <1>10, <1>11 DEF ConfirmNext, ConfirmStep

\* What is final stays so: neither a block nor a reorganisation moves it.
LEMMA ChainKeeps ==
    ASSUME ConfirmInv, ChainMoves, TrackerTypeOK
    PROVE  ConfirmInv'
<1>1. \A x \in Txids : depth[x] = FinalDepth => depth'[x] = FinalDepth
  BY DEF ChainMoves, Mine, Reorg, Evict, TrackerTypeOK, FinalDepth
<1>2. UNCHANGED confirmVars
  BY DEF ChainMoves
<1>3. FinalAnswersStand'
  <2>1. \A c \in Chains : At(c, "answered") => chains[c].txid \in Txids
    BY LiveChains DEF ConfirmInv, At, Live
  <2>2. QED BY <1>1, <1>2, <2>1 DEF ConfirmInv, FinalAnswersStand, At, confirmVars
<1>4. FinalizedIsNotified'
  BY <1>1, <1>2 DEF ConfirmInv, FinalizedIsNotified, confirmVars, watchVars
<1>5. QED
  BY <1>2, <1>3, <1>4 DEF ConfirmInv, ConfirmTypeOK, WatchesNumbered, NotifiedIsOver,
                          ChecksOfWatches, OwnChainPolls, confirmVars, watchVars

(***************************************************************************)
(* The broadcaster.                                                        *)
(***************************************************************************)
LEMMA BroadcastConstants ==
    /\ MaxRetries \in Nat
    /\ MaxToggles \in Nat
BY NodesAssumption

\* A plan lists nodes, each of them once.
Plan == {nodes \in Seq(Nodes) :
           \A i, j \in 1..Len(nodes) : nodes[i] = nodes[j] => i = j}

LEMMA PlansAreLists ==
    ASSUME enabled \subseteq Nodes, NEW preferred, NEW nodes \in ActiveNodes(preferred)
    PROVE  nodes \in Plan
<1>1. Cardinality(enabled) \in Nat
  BY NodesAssumption, FS_Subset, FS_CardinalityType
<1>2. nodes \in SetToSeqs(enabled)
  BY DEF ActiveNodes
<1>3. /\ nodes \in [1..Cardinality(enabled) -> enabled]
      /\ \A i, j \in 1..Cardinality(enabled) : i # j => nodes[i] # nodes[j]
  BY <1>2 DEF SetToSeqs
<1>4. nodes \in Seq(Nodes) /\ Len(nodes) = Cardinality(enabled)
  <2>1. nodes \in Seq(enabled) /\ Len(nodes) = Cardinality(enabled)
    BY <1>1, <1>3
  <2>2. QED BY <2>1
<1>5. QED BY <1>3, <1>4 DEF Plan

(* The invariant of the broadcaster, part by part. *)

\* The types that the loop relies on.
LoopTyped ==
    /\ enabled \subseteq Nodes
    /\ toggles \in 0..MaxToggles
    /\ phase \in [Ids -> Running \cup Settled \cup {"new"}]
    /\ plan \in [Ids -> Plan]
    /\ pos \in [Ids -> Nat]
    /\ retry \in [Ids -> 0..MaxRetries]
    /\ answerOk \in [Ids -> BOOLEAN]
    /\ activeRetries \subseteq Ids
    /\ inProgress \subseteq Ids \X Nodes
    /\ posts \in [Ids -> [Nodes -> Nat]]
    /\ cancelled \subseteq Ids

\* Where broadcast t is in its plan.
Place(t) ==
    /\ pos[t] \in 0..Len(plan[t])
    /\ phase[t] \in {"headers", "body"} => pos[t] >= 1
    /\ phase[t] = "backoff" => /\ plan[t] # <<>>
                               /\ pos[t] = Len(plan[t])
                               /\ retry[t] < MaxRetries
    /\ phase[t] \in {"new", "resolved"} => plan[t] = <<>> /\ retry[t] = 0
    /\ phase[t] = "rejected" => /\ pos[t] = Len(plan[t])
                                /\ plan[t] # <<>> => retry[t] = MaxRetries

\* Every node of its plan was posted to once per round that reached it, no other was.
Counts(t) ==
    /\ \A i \in 1..Len(plan[t]) :
         posts[t][plan[t][i]] = IF i <= pos[t] THEN retry[t] + 1 ELSE retry[t]
    /\ \A n \in Nodes :
         posts[t][n] # 0 => \E i \in 1..Len(plan[t]) : plan[t][i] = n

\* Its markers are those of the node it waits for, and it is listed only while it runs;
\* both are there unless the caller cancelled it.
Markers(t) ==
    /\ \A n \in Nodes : <<t, n>> \in inProgress =>
         phase[t] \in {"headers", "body"} /\ n = plan[t][pos[t]]
    /\ t \in activeRetries => phase[t] \in Running
    /\ t \notin cancelled /\ phase[t] \in Running => t \in activeRetries
    /\ t \notin cancelled /\ phase[t] \in {"headers", "body"} =>
         Current(t) \in inProgress

BroadcastInv == LoopTyped /\ \A t \in Ids : Place(t) /\ Counts(t) /\ Markers(t)

LEMMA BroadcastInvImplies ==
    ASSUME BroadcastInv
    PROVE  BroadcastTypeOK /\ BookkeepingMatches
<1> USE BroadcastConstants
<1>1. BroadcastTypeOK
  BY DEF BroadcastInv, LoopTyped, Place, BroadcastTypeOK, Plan
<1>2. RejectedWhenExhausted
  <2> SUFFICES ASSUME NEW t \in Ids, NEW n \in Nodes
               PROVE  /\ posts[t][n] <= MaxRetries + 1
                      /\ phase[t] = "rejected" /\ n \in ToSet(plan[t])
                           => posts[t][n] = MaxRetries + 1
    BY DEF RejectedWhenExhausted
  <2>1. plan[t] \in Seq(Nodes) /\ retry[t] \in 0..MaxRetries /\ posts[t][n] \in Nat
    BY DEF BroadcastInv, LoopTyped, Plan
  <2>2. CASE posts[t][n] = 0 /\ n \notin ToSet(plan[t])
    BY <2>1, <2>2
  <2>3. CASE posts[t][n] # 0 \/ n \in ToSet(plan[t])
    <3>1. PICK i \in 1..Len(plan[t]) : plan[t][i] = n
      BY <2>1, <2>3 DEF BroadcastInv, Counts, ToSet
    <3>2. posts[t][n] = IF i <= pos[t] THEN retry[t] + 1 ELSE retry[t]
      BY <3>1 DEF BroadcastInv, Counts
    <3>3. phase[t] = "rejected" => pos[t] = Len(plan[t]) /\ retry[t] = MaxRetries
      BY <2>1, <3>1 DEF BroadcastInv, Place
    <3>4. QED BY <2>1, <3>1, <3>2, <3>3
  <2>4. QED BY <2>2, <2>3
<1>3. GettersAgree
  <2> SUFFICES ASSUME NEW t \in Ids
               PROVE  LET Marks == IF phase[t] \in {"headers", "body"} THEN {Current(t)}
                                   ELSE {}
                      IN  /\ {m \in inProgress : m[1] = t} \subseteq Marks
                          /\ t \in activeRetries => phase[t] \in Running
                          /\ t \notin cancelled =>
                               /\ Marks \subseteq inProgress
                               /\ phase[t] \in Running => t \in activeRetries
    BY DEF GettersAgree
  <2>1. ASSUME NEW m \in inProgress, m[1] = t
        PROVE  phase[t] \in {"headers", "body"} /\ m = Current(t)
    <3>1. PICK n \in Nodes : m = <<t, n>>
      BY <2>1 DEF BroadcastInv, LoopTyped
    <3>2. QED BY <3>1 DEF BroadcastInv, Markers, Current
  <2>2. QED BY <2>1 DEF BroadcastInv, Markers
<1>4. QED BY <1>1, <1>2, <1>3 DEF BookkeepingMatches

\* A broadcast a step does not touch keeps its part of the invariant.
LEMMA OthersKeep ==
    ASSUME BroadcastInv, NEW u \in Ids,
           phase'[u] = phase[u], plan'[u] = plan[u], pos'[u] = pos[u],
           retry'[u] = retry[u], posts'[u] = posts[u],
           \A n \in Nodes : <<u, n>> \in inProgress' <=> <<u, n>> \in inProgress,
           u \in activeRetries' <=> u \in activeRetries,
           u \in cancelled' <=> u \in cancelled
    PROVE  Place(u)' /\ Counts(u)' /\ Markers(u)'
<1>1. Place(u) /\ Counts(u) /\ Markers(u)
  BY DEF BroadcastInv
<1>2. Place(u)'
  BY <1>1 DEF Place
<1>3. Counts(u)'
  BY <1>1 DEF Counts
<1>4. Markers(u)'
  <2>1. phase[u] \in {"headers", "body"} => plan[u][pos[u]] \in Nodes
    BY <1>1 DEF Place, BroadcastInv, LoopTyped, Plan
  <2>2. QED BY <1>1, <2>1 DEF Markers, Current
<1>5. QED BY <1>2, <1>3, <1>4

\* The loop posts to the node at place i of a plan whose earlier nodes had their post of
\* this round.
LEMMA PostKeeps ==
    ASSUME LoopTyped, NEW t \in Ids, NEW p \in Plan, NEW i \in 1..Len(p), NEW marks,
           Post(t, p, i, marks), p = plan'[t],
           t \in activeRetries' \/ t \in cancelled',
           \A n \in Nodes : <<t, n>> \notin marks,
           retry'[t] \in Nat,
           \A j \in 1..Len(p) :
             posts[t][p[j]] = IF j < i THEN retry'[t] + 1 ELSE retry'[t],
           \A n \in Nodes : posts[t][n] # 0 => \E j \in 1..Len(p) : p[j] = n
    PROVE  Place(t)' /\ Counts(t)' /\ Markers(t)'
<1>1. /\ p \in Seq(Nodes) /\ p[i] \in Nodes
      /\ \A j \in 1..Len(p) : p[j] = p[i] => j = i
  BY DEF Plan
<1>2. /\ phase'[t] = "headers"
      /\ pos'[t] = i
      /\ inProgress' = marks \cup {<<t, p[i]>>}
      /\ posts'[t] = [posts[t] EXCEPT ![p[i]] = @ + 1]
  BY DEF Post, LoopTyped
<1>3. posts[t] \in [Nodes -> Nat]
  BY DEF LoopTyped
<1>4. Place(t)'
  BY <1>1, <1>2 DEF Place
<1>5. Counts(t)'
  <2>1. ASSUME NEW j \in 1..Len(p)
        PROVE  posts'[t][p[j]] = IF j <= i THEN retry'[t] + 1 ELSE retry'[t]
    <3>1. p[j] \in Nodes /\ j \in Nat /\ i \in Nat /\ i \in 1..Len(p)
      BY <1>1
    <3>2. posts[t][p[j]] = IF j < i THEN retry'[t] + 1 ELSE retry'[t]
      OBVIOUS
    <3>3. CASE j = i
      <4>1. posts'[t][p[j]] = posts[t][p[j]] + 1
        BY <1>2, <1>3, <3>1, <3>3
      <4>2. posts[t][p[j]] = retry'[t]
        BY <3>1, <3>2, <3>3
      <4>3. QED BY <3>1, <3>3, <4>1, <4>2
    <3>4. CASE j # i
      <4>1. p[j] # p[i]
        BY <1>1, <3>4
      <4>2. posts'[t][p[j]] = posts[t][p[j]]
        BY <1>2, <1>3, <3>1, <4>1
      <4>3. QED BY <3>1, <3>2, <3>4, <4>2
    <3>5. QED BY <3>3, <3>4
  <2>2. ASSUME NEW n \in Nodes, posts'[t][n] # 0
        PROVE  \E j \in 1..Len(p) : p[j] = n
    BY <1>1, <1>2, <1>3, <2>2
  <2>3. QED BY <1>2, <2>1, <2>2 DEF Counts
<1>6. Markers(t)'
  BY <1>1, <1>2 DEF Markers, Current, Running
<1>7. QED BY <1>4, <1>5, <1>6

\* The types, for each action.
LEMMA PostTyped ==
    ASSUME LoopTyped, NEW t \in Ids, NEW p \in Plan, NEW i \in 1..Len(p), NEW marks,
           marks \subseteq Ids \X Nodes, Post(t, p, i, marks)
    PROVE  /\ phase' \in [Ids -> Running \cup Settled \cup {"new"}]
           /\ pos' \in [Ids -> Nat]
           /\ inProgress' \subseteq Ids \X Nodes
           /\ posts' \in [Ids -> [Nodes -> Nat]]
<1>1. p[i] \in Nodes /\ i \in Nat
  BY DEF Plan
<1>2. QED BY <1>1 DEF Post, LoopTyped, Running

LEMMA StartKeeps ==
    ASSUME BroadcastInv, NEW t \in Ids, NEW preferred, Start(t, preferred)
    PROVE  BroadcastInv'
<1>1. PICK nodes \in ActiveNodes(preferred) : plan' = [plan EXCEPT ![t] = nodes]
  BY DEF Start
<1>2. nodes \in Plan /\ plan' \in [Ids -> Plan] /\ plan'[t] = nodes
  BY <1>1, PlansAreLists DEF BroadcastInv, LoopTyped
<1>3. /\ UNCHANGED <<enabled, toggles, retry, answerOk, cancelled>>
      /\ phase[t] = "new" /\ retry[t] = 0 /\ plan[t] = <<>> /\ pos[t] = 0
      /\ \A n \in Nodes : posts[t][n] = 0 /\ <<t, n>> \notin inProgress
      /\ t \notin activeRetries
  BY DEF Start, BroadcastInv, Place, Counts, Markers, Running
<1>4. ASSUME NEW u \in Ids, u # t PROVE plan'[u] = plan[u]
  BY <1>1, <1>4 DEF BroadcastInv, LoopTyped
<1>5. CASE /\ nodes # <<>>
           /\ activeRetries' = activeRetries \cup {t}
           /\ Post(t, nodes, 1, inProgress)
  <2>1. 1 \in 1..Len(nodes) /\ nodes \in Seq(Nodes)
    BY <1>2, <1>5 DEF Plan
  <2>2. LoopTyped'
    BY <1>2, <1>3, <1>5, <2>1, PostTyped DEF BroadcastInv, LoopTyped
  <2>3. Place(t)' /\ Counts(t)' /\ Markers(t)'
    <3>1. \A j \in 1..Len(nodes) :
            posts[t][nodes[j]] = IF j < 1 THEN retry'[t] + 1 ELSE retry'[t]
      <4>1. \A j \in 1..Len(nodes) : nodes[j] \in Nodes /\ ~(j < 1)
        BY <2>1
      <4>2. retry'[t] = 0
        BY <1>3
      <4>3. \A n \in Nodes : posts[t][n] = 0
        BY <1>3
      <4>4. QED BY <4>1, <4>2, <4>3
    <3>2. LoopTyped /\ t \in activeRetries'
      BY <1>5 DEF BroadcastInv
    <3>3. retry'[t] \in Nat
      BY <1>3
    <3>4. QED BY <1>2, <1>3, <1>5, <2>1, <3>1, <3>2, <3>3, PostKeeps
  <2>4. ASSUME NEW u \in Ids, u # t PROVE Place(u)' /\ Counts(u)' /\ Markers(u)'
    BY <1>3, <1>4, <1>5, <2>4, OthersKeep DEF Post, BroadcastInv, LoopTyped
  <2>5. QED BY <2>2, <2>3, <2>4 DEF BroadcastInv
<1>6. CASE /\ nodes = <<>>
           /\ phase' = [phase EXCEPT ![t] = "rejected"]
           /\ UNCHANGED <<pos, activeRetries, inProgress, posts>>
  <2>1. LoopTyped'
    BY <1>2, <1>3, <1>6 DEF BroadcastInv, LoopTyped, Settled
  <2>2. Place(t)' /\ Counts(t)' /\ Markers(t)'
    BY <1>2, <1>3, <1>6 DEF BroadcastInv, LoopTyped, Place, Counts, Markers, Running
  <2>3. ASSUME NEW u \in Ids, u # t PROVE Place(u)' /\ Counts(u)' /\ Markers(u)'
    BY <1>3, <1>4, <1>6, <2>3, OthersKeep DEF BroadcastInv, LoopTyped
  <2>4. QED BY <2>1, <2>2, <2>3 DEF BroadcastInv
<1>7. QED BY <1>2, <1>5, <1>6 DEF Start

\* What follows a failure, whichever of the two answers failed.
LEMMA FailureKeeps ==
    ASSUME BroadcastInv, NEW t \in Ids, phase[t] \in {"headers", "body"},
           AfterFailure(t),
           UNCHANGED <<enabled, toggles, plan, retry, answerOk, cancelled>>
    PROVE  BroadcastInv'
<1> DEFINE marks == inProgress \ {Current(t)}
<1>1. /\ plan[t] \in Plan /\ plan[t] \in Seq(Nodes) /\ retry[t] \in 0..MaxRetries
      /\ pos[t] \in 1..Len(plan[t])
      /\ marks \subseteq Ids \X Nodes
  BY DEF BroadcastInv, LoopTyped, Place, Plan
<1>2. \A n \in Nodes : <<t, n>> \notin marks
  BY DEF BroadcastInv, Markers, Current
<1>3. \A u \in Ids, n \in Nodes : u # t => (<<u, n>> \in marks <=> <<u, n>> \in inProgress)
  BY DEF Current
<1>4. t \in activeRetries \/ t \in cancelled
  BY DEF BroadcastInv, Markers, Running
<1>5. /\ \A i \in 1..Len(plan[t]) :
           posts[t][plan[t][i]] = IF i <= pos[t] THEN retry[t] + 1 ELSE retry[t]
      /\ \A n \in Nodes :
           posts[t][n] # 0 => \E i \in 1..Len(plan[t]) : plan[t][i] = n
  BY DEF BroadcastInv, Counts
<1> HIDE DEF marks
<1>6. CASE /\ pos[t] < Len(plan[t])
           /\ Post(t, plan[t], pos[t] + 1, marks)
           /\ UNCHANGED activeRetries
  <2>1. pos[t] + 1 \in 1..Len(plan[t])
    BY <1>1, <1>6
  <2>2. LoopTyped'
    BY <1>1, <1>6, <2>1, PostTyped DEF BroadcastInv, LoopTyped
  <2>3. \A j \in 1..Len(plan[t]) :
          posts[t][plan[t][j]] = IF j < pos[t] + 1 THEN retry'[t] + 1 ELSE retry'[t]
    BY <1>1, <1>5
  <2>4. Place(t)' /\ Counts(t)' /\ Markers(t)'
    <3>1. LoopTyped /\ plan[t] = plan'[t] /\ retry'[t] \in Nat
            /\ (t \in activeRetries' \/ t \in cancelled')
      BY <1>1, <1>4, <1>6 DEF BroadcastInv
    <3>2. QED BY <1>1, <1>2, <1>5, <1>6, <2>1, <2>3, <3>1, PostKeeps
  <2>5. ASSUME NEW u \in Ids, u # t PROVE Place(u)' /\ Counts(u)' /\ Markers(u)'
    BY <1>3, <1>6, <2>5, OthersKeep DEF Post, BroadcastInv, LoopTyped
  <2>6. QED BY <2>2, <2>4, <2>5 DEF BroadcastInv
<1>7. CASE /\ pos[t] = Len(plan[t])
           /\ retry[t] < MaxRetries
           /\ phase' = [phase EXCEPT ![t] = "backoff"]
           /\ inProgress' = marks
           /\ UNCHANGED <<pos, activeRetries, posts>>
  <2>1. LoopTyped'
    BY <1>1, <1>7 DEF BroadcastInv, LoopTyped, Running
  <2>2. Place(t)' /\ Counts(t)' /\ Markers(t)'
    BY <1>1, <1>2, <1>4, <1>5, <1>7
       DEF BroadcastInv, LoopTyped, Place, Counts, Markers, Running
  <2>3. ASSUME NEW u \in Ids, u # t PROVE Place(u)' /\ Counts(u)' /\ Markers(u)'
    BY <1>3, <1>7, <2>3, OthersKeep DEF BroadcastInv, LoopTyped
  <2>4. QED BY <2>1, <2>2, <2>3 DEF BroadcastInv
<1>8. CASE /\ pos[t] = Len(plan[t])
           /\ retry[t] >= MaxRetries
           /\ phase' = [phase EXCEPT ![t] = "rejected"]
           /\ inProgress' = marks
           /\ activeRetries' = activeRetries \ {t}
           /\ UNCHANGED <<pos, posts>>
  <2>1. LoopTyped'
    BY <1>1, <1>8 DEF BroadcastInv, LoopTyped, Settled
  <2>2. Place(t)' /\ Counts(t)' /\ Markers(t)'
    BY <1>1, <1>2, <1>5, <1>8, BroadcastConstants
       DEF BroadcastInv, LoopTyped, Place, Counts, Markers, Running
  <2>3. ASSUME NEW u \in Ids, u # t PROVE Place(u)' /\ Counts(u)' /\ Markers(u)'
    BY <1>3, <1>8, <2>3, OthersKeep DEF BroadcastInv, LoopTyped
  <2>4. QED BY <2>1, <2>2, <2>3 DEF BroadcastInv
<1>9. QED BY <1>6, <1>7, <1>8 DEF AfterFailure, AfterFailureOf, marks

LEMMA NextRoundKeeps ==
    ASSUME BroadcastInv, NEW t \in Ids, NextRound(t)
    PROVE  BroadcastInv'
<1>1. /\ phase[t] = "backoff"
      /\ retry' = [retry EXCEPT ![t] = @ + 1]
      /\ activeRetries' = activeRetries \cup {t}
      /\ Post(t, plan[t], 1, inProgress)
      /\ UNCHANGED <<enabled, toggles, plan, answerOk, cancelled>>
  BY DEF NextRound
<1>2. LoopTyped /\ inProgress \subseteq Ids \X Nodes
  BY DEF BroadcastInv, LoopTyped
<1>3. /\ plan[t] \in Plan /\ plan[t] \in Seq(Nodes)
      /\ pos[t] = Len(plan[t]) /\ plan[t] # <<>>
      /\ retry[t] < MaxRetries
      /\ \A n \in Nodes : <<t, n>> \notin inProgress
  BY <1>1 DEF BroadcastInv, LoopTyped, Place, Markers, Plan
<1>4. 1 \in 1..Len(plan[t])
  BY <1>3
<1>5. retry'[t] = retry[t] + 1 /\ retry' \in [Ids -> 0..MaxRetries]
  BY <1>1, <1>2, <1>3, BroadcastConstants DEF LoopTyped
<1>6. LoopTyped'
  BY <1>1, <1>2, <1>5, <1>3, <1>4, PostTyped DEF LoopTyped
<1>7. /\ \A j \in 1..Len(plan[t]) :
           posts[t][plan[t][j]] = IF j < 1 THEN retry'[t] + 1 ELSE retry'[t]
      /\ \A n \in Nodes :
           posts[t][n] # 0 => \E j \in 1..Len(plan[t]) : plan[t][j] = n
  BY <1>1, <1>5, <1>3 DEF BroadcastInv, Counts
<1>8. Place(t)' /\ Counts(t)' /\ Markers(t)'
  <2>1. plan[t] = plan'[t] /\ retry'[t] \in Nat /\ t \in activeRetries'
    BY <1>1, <1>5
  <2>2. QED BY <1>1, <1>2, <1>7, <1>3, <1>4, <2>1, PostKeeps
<1>9. ASSUME NEW u \in Ids, u # t PROVE Place(u)' /\ Counts(u)' /\ Markers(u)'
  BY <1>1, <1>2, <1>9, OthersKeep DEF Post, LoopTyped
<1>10. QED BY <1>6, <1>8, <1>9 DEF BroadcastInv

LEMMA ResolveKeeps ==
    ASSUME BroadcastInv, NEW t \in Ids, Resolve(t)
    PROVE  BroadcastInv'
<1>1. LoopTyped /\ Markers(t)
  BY DEF BroadcastInv
<1>2. <<>> \in Plan
  BY DEF Plan
<1>3. LoopTyped'
  BY <1>1, <1>2, BroadcastConstants DEF Resolve, Leave, LoopTyped, Settled
<1>4. \A n \in Nodes : <<t, n>> \notin inProgress'
  BY <1>1 DEF Resolve, Markers, Current
<1>5. Place(t)' /\ Counts(t)' /\ Markers(t)'
  BY <1>1, <1>4 DEF Resolve, Leave, LoopTyped, Place, Counts, Markers, Running
<1>6. ASSUME NEW u \in Ids, u # t PROVE Place(u)' /\ Counts(u)' /\ Markers(u)'
  BY <1>1, <1>6, OthersKeep DEF Resolve, Leave, LoopTyped, Current
<1>7. QED BY <1>3, <1>5, <1>6 DEF BroadcastInv

LEMMA CancelKeeps ==
    ASSUME BroadcastInv, NEW t \in Ids, Cancel(t)
    PROVE  BroadcastInv'
<1>1. LoopTyped /\ Place(t) /\ Counts(t) /\ Markers(t)
  BY DEF BroadcastInv
<1>2. LoopTyped'
  BY <1>1 DEF Cancel, LoopTyped
<1>3. Place(t)' /\ Counts(t)' /\ Markers(t)'
  BY <1>1 DEF Cancel, Place, Counts, Markers
<1>4. ASSUME NEW u \in Ids, u # t PROVE Place(u)' /\ Counts(u)' /\ Markers(u)'
  BY <1>4, OthersKeep DEF Cancel
<1>5. QED BY <1>2, <1>3, <1>4 DEF BroadcastInv

LEMMA BroadcastNextKeeps ==
    ASSUME BroadcastInv, BroadcastNext
    PROVE  BroadcastInv'
<1>1. ASSUME NEW t \in Ids, PostFails(t) PROVE BroadcastInv'
  BY <1>1, FailureKeeps DEF PostFails
<1>2. ASSUME NEW t \in Ids, NEW ok \in BOOLEAN, HeadersArrive(t, ok) PROVE BroadcastInv'
  <2>1. LoopTyped /\ Place(t) /\ Counts(t) /\ Markers(t)
    BY DEF BroadcastInv
  <2>2. LoopTyped'
    BY <1>2, <2>1 DEF HeadersArrive, LoopTyped, Running
  <2>3. Place(t)' /\ Counts(t)' /\ Markers(t)'
    BY <1>2, <2>1 DEF HeadersArrive, LoopTyped, Place, Counts, Markers, Running, Current
  <2>4. ASSUME NEW u \in Ids, u # t PROVE Place(u)' /\ Counts(u)' /\ Markers(u)'
    BY <1>2, <2>1, <2>4, OthersKeep DEF HeadersArrive, LoopTyped
  <2>5. QED BY <2>2, <2>3, <2>4 DEF BroadcastInv
<1>3. ASSUME NEW t \in Ids, BodyFails(t) PROVE BroadcastInv'
  BY <1>3, FailureKeeps DEF BodyFails
<1>4. ASSUME NEW n \in Nodes, ToggleNode(n) PROVE BroadcastInv'
  <2>1. LoopTyped'
    BY <1>4, BroadcastConstants DEF BroadcastInv, LoopTyped, ToggleNode, loopVars
  <2>2. ASSUME NEW u \in Ids PROVE Place(u)' /\ Counts(u)' /\ Markers(u)'
    BY <1>4, OthersKeep DEF ToggleNode, loopVars
  <2>3. QED BY <2>1, <2>2 DEF BroadcastInv
<1>5. QED
  BY <1>1, <1>2, <1>3, <1>4, StartKeeps, NextRoundKeeps, ResolveKeeps, CancelKeeps
     DEF BroadcastNext, BroadcastStep

LEMMA BroadcastStutters ==
    ASSUME BroadcastInv, UNCHANGED broadcastVars
    PROVE  BroadcastInv'
<1>1. LoopTyped'
  BY DEF BroadcastInv, LoopTyped, broadcastVars, loopVars
<1>2. ASSUME NEW u \in Ids PROVE Place(u)' /\ Counts(u)' /\ Markers(u)'
  BY OthersKeep DEF broadcastVars, loopVars
<1>3. QED BY <1>1, <1>2 DEF BroadcastInv

LEMMA BroadcastStarts == BroadcastInit => BroadcastInv
<1> SUFFICES ASSUME BroadcastInit PROVE BroadcastInv
  OBVIOUS
<1>1. <<>> \in Plan
  BY DEF Plan
<1>2. LoopTyped
  BY <1>1, BroadcastConstants DEF BroadcastInit, LoopTyped
<1>3. ASSUME NEW t \in Ids PROVE Place(t) /\ Counts(t) /\ Markers(t)
  BY DEF BroadcastInit, Place, Counts, Markers, Running
<1>4. QED BY <1>2, <1>3 DEF BroadcastInv

(***************************************************************************)
(* The tracker under all of them.                                          *)
(***************************************************************************)
\* The entry of a broadcast names no transaction but its own, and is called CONFIRMED
\* only when that one is final.
EntryTrue(entry, t) ==
    entry # Untracked =>
        /\ entry.txid \in {NoTxid, TxidOf[t]}
        /\ entry.status = "CONFIRMED" => depth[TxidOf[t]] = FinalDepth

EntriesTrue == \A t \in Ids : EntryTrue(tracker[t], t)

LEMMA TxidsOfBroadcasts == \A t \in Ids : TxidOf[t] \in Txids /\ t \in Keys
BY KeysAssumption DEF Keys

\* What the operations of the broadcaster do to the entry of their broadcast.
LEMMA EntryOperations ==
    ASSUME NEW tr \in [Keys -> Entry \cup {Untracked}], NEW t \in Ids,
           EntryTrue(tr[t], t)
    PROVE  /\ EntryTrue(Add(tr, t, NewEntry(NoTxid))[t], t)
           /\ \A s \in Status \ {"CONFIRMED"} : EntryTrue(SetStatus(tr, t, s)[t], t)
           /\ \A e : EntryTrue(SetError(tr, t, e)[t], t)
           /\ EntryTrue(SetTxid(tr, t, TxidOf[t])[t], t)
<1> USE TxidsOfBroadcasts
<1>1. tr[t] # Untracked => tr[t] \in Entry
  OBVIOUS
<1>2. EntryTrue(Add(tr, t, NewEntry(NoTxid))[t], t)
  BY DEF Add, NewEntry, EntryTrue
<1>3. ASSUME NEW s \in Status \ {"CONFIRMED"} PROVE EntryTrue(SetStatus(tr, t, s)[t], t)
  BY <1>1 DEF SetStatus, EntryTrue, Tracked, Entry
<1>4. ASSUME NEW e PROVE EntryTrue(SetError(tr, t, e)[t], t)
  BY <1>1 DEF SetError, EntryTrue, Tracked, Entry
<1>5. EntryTrue(SetTxid(tr, t, TxidOf[t])[t], t)
  BY <1>1 DEF SetTxid, EntryTrue, Tracked, Entry
<1>6. QED BY <1>2, <1>3, <1>4, <1>5

\* A tracker in which only the entry under k differs from the one before the step.
ChangesOnly(tr, k) ==
    /\ tr \in [Keys -> Entry \cup {Untracked}]
    /\ \A j \in Keys \ {k} : tr[j] = tracker[j]

\* The broadcaster changes no entry but the one of its broadcast, and that one truly.
LEMMA OwnEntryKeeps ==
    ASSUME TrackerTypeOK, EntriesTrue, NEW t \in Ids,
           ChangesOnly(tracker', t), EntryTrue(tracker'[t], t),
           depth' = depth, mempool' \subseteq Txids
    PROVE  TrackerTypeOK' /\ EntriesTrue'
<1>1. TrackerTypeOK'
  BY DEF TrackerTypeOK, ChangesOnly
<1>2. ASSUME NEW u \in Ids PROVE EntryTrue(tracker'[u], u)
  BY TxidsOfBroadcasts DEF ChangesOnly, EntriesTrue
<1>3. QED BY <1>1, <1>2 DEF EntriesTrue, EntryTrue

LEMMA FailedEntry ==
    ASSUME NEW t \in Ids, NEW tr, ChangesOnly(tr, t), EntryTrue(tr[t], t)
    PROVE  ChangesOnly(Failed(tr, t), t) /\ EntryTrue(Failed(tr, t)[t], t)
<1> DEFINE marked == SetError(tr, t, "failed")
<1>1. t \in Keys /\ tr \in [Keys -> Entry \cup {Untracked}]
  BY TxidsOfBroadcasts DEF ChangesOnly
<1>2. marked \in [Keys -> Entry \cup {Untracked}] /\ EntryTrue(marked[t], t)
  BY <1>1, TrackerOperations, EntryOperations
<1>3. \A j \in Keys \ {t} : marked[j] = tracker[j]
  BY <1>1, TrackerElsewhere DEF ChangesOnly
<1>4. Failed(tr, t) = SetStatus(marked, t, "FAILED") /\ "FAILED" \in Status \ {"CONFIRMED"}
  BY DEF Failed, Status
<1> HIDE DEF marked
<1>5. /\ SetStatus(marked, t, "FAILED") \in [Keys -> Entry \cup {Untracked}]
      /\ EntryTrue(SetStatus(marked, t, "FAILED")[t], t)
  BY <1>1, <1>2, <1>4, TrackerOperations, EntryOperations
<1>6. \A j \in Keys \ {t} : SetStatus(marked, t, "FAILED")[j] = tracker[j]
  BY <1>1, <1>2, <1>3, TrackerElsewhere
<1>7. QED BY <1>4, <1>5, <1>6 DEF ChangesOnly

LEMMA BroadcastEntries ==
    ASSUME TrackerTypeOK, EntriesTrue, BroadcastNext
    PROVE  TrackerTypeOK' /\ EntriesTrue'
<1>1. /\ tracker \in [Keys -> Entry \cup {Untracked}]
      /\ mempool \subseteq Txids
      /\ \A t \in Ids : t \in Keys /\ TxidOf[t] \in Txids
  BY TxidsOfBroadcasts DEF TrackerTypeOK
<1>2. ASSUME NEW t \in Ids PROVE ChangesOnly(tracker, t) /\ EntryTrue(tracker[t], t)
  BY <1>1 DEF ChangesOnly, EntriesTrue
<1>3. ASSUME NEW t \in Ids, NEW preferred, Start(t, preferred)
      PROVE  TrackerTypeOK' /\ EntriesTrue'
  <2> DEFINE added == Add(tracker, t, NewEntry(NoTxid))
  <2>1. added \in [Keys -> Entry \cup {Untracked}] /\ EntryTrue(added[t], t)
    BY <1>1, <1>2, TrackerOperations, EntryOperations
  <2>2. ChangesOnly(added, t)
    BY <1>1, <2>1, TrackerElsewhere DEF ChangesOnly
  <2>3. tracker' = added \/ tracker' = Failed(added, t)
    BY <1>3 DEF Start
  <2>4. depth' = depth /\ mempool' \subseteq Txids
    BY <1>1, <1>3 DEF Start
  <2> HIDE DEF added
  <2>5. ChangesOnly(tracker', t) /\ EntryTrue(tracker'[t], t)
    BY <2>1, <2>2, <2>3, FailedEntry
  <2>6. QED BY <2>4, <2>5, OwnEntryKeeps
<1>4. ASSUME NEW t \in Ids, AfterFailure(t), depth' = depth, mempool' \subseteq Txids
      PROVE  TrackerTypeOK' /\ EntriesTrue'
  <2>1. tracker' = tracker \/ tracker' = Failed(tracker, t)
    BY <1>4 DEF AfterFailure, AfterFailureOf
  <2>2. ChangesOnly(tracker', t) /\ EntryTrue(tracker'[t], t)
    BY <1>2, <2>1, FailedEntry
  <2>3. QED BY <1>4, <2>2, OwnEntryKeeps
<1>5. ASSUME NEW t \in Ids, PostFails(t) PROVE TrackerTypeOK' /\ EntriesTrue'
  BY <1>1, <1>4, <1>5 DEF PostFails
<1>6. ASSUME NEW t \in Ids, BodyFails(t) PROVE TrackerTypeOK' /\ EntriesTrue'
  BY <1>1, <1>4, <1>6 DEF BodyFails
<1>7. ASSUME NEW t \in Ids, tracker' = tracker, depth' = depth, mempool' \subseteq Txids
      PROVE  TrackerTypeOK' /\ EntriesTrue'
  BY <1>2, <1>7, OwnEntryKeeps
<1>8. ASSUME NEW t \in Ids, NEW ok \in BOOLEAN, HeadersArrive(t, ok)
      PROVE  TrackerTypeOK' /\ EntriesTrue'
  <2>1. tracker' = tracker /\ depth' = depth /\ mempool' \subseteq Txids
    BY <1>1, <1>8 DEF HeadersArrive
  <2>2. QED BY <1>7, <2>1
<1>9. ASSUME NEW t \in Ids, NextRound(t) PROVE TrackerTypeOK' /\ EntriesTrue'
  BY <1>1, <1>7, <1>9 DEF NextRound
<1>10. ASSUME NEW t \in Ids, Resolve(t) PROVE TrackerTypeOK' /\ EntriesTrue'
  <2>1. tracker' = SetTxid(tracker, t, TxidOf[t]) /\ depth' = depth /\ mempool' = mempool
    BY <1>10 DEF Resolve
  <2>2. EntryTrue(tracker'[t], t) /\ tracker' \in [Keys -> Entry \cup {Untracked}]
    BY <1>1, <1>2, <2>1, TrackerOperations, EntryOperations
  <2>3. ChangesOnly(tracker', t)
    BY <1>1, <2>1, <2>2, TrackerElsewhere DEF ChangesOnly
  <2>4. QED BY <1>1, <2>1, <2>2, <2>3, OwnEntryKeeps
<1>11. ASSUME NEW t \in Ids, Cancel(t) PROVE TrackerTypeOK' /\ EntriesTrue'
  <2> DEFINE marked == SetStatus(tracker, t, "FAILED")
  <2>1. depth' = depth /\ mempool' \subseteq Txids
    BY <1>1, <1>11 DEF Cancel
  <2>2. "FAILED" \in Status \ {"CONFIRMED"}
    BY DEF Status
  <2>3. marked \in [Keys -> Entry \cup {Untracked}] /\ EntryTrue(marked[t], t)
    BY <1>1, <1>2, <2>2, TrackerOperations, EntryOperations
  <2>4. \A j \in Keys \ {t} : marked[j] = tracker[j]
    BY <1>1, TrackerElsewhere
  <2>5. tracker' = SetError(marked, t, "cancelled") \/ tracker' = tracker
    BY <1>11 DEF Cancel
  <2> HIDE DEF marked
  <2>6. /\ SetError(marked, t, "cancelled") \in [Keys -> Entry \cup {Untracked}]
        /\ EntryTrue(SetError(marked, t, "cancelled")[t], t)
    BY <1>1, <2>3, TrackerOperations, EntryOperations
  <2>7. \A j \in Keys \ {t} : SetError(marked, t, "cancelled")[j] = tracker[j]
    BY <1>1, <2>3, <2>4, TrackerElsewhere
  <2>8. ChangesOnly(tracker', t) /\ EntryTrue(tracker'[t], t)
    BY <1>2, <2>5, <2>6, <2>7 DEF ChangesOnly
  <2>9. QED BY <2>1, <2>8, OwnEntryKeeps
<1>12. ASSUME NEW n \in Nodes, ToggleNode(n) PROVE TrackerTypeOK' /\ EntriesTrue'
  BY <1>12 DEF ToggleNode, TrackerTypeOK, EntriesTrue, EntryTrue
<1>13. QED
  BY <1>3, <1>5, <1>6, <1>8, <1>9, <1>10, <1>11, <1>12 DEF BroadcastNext, BroadcastStep

\* The entry of a transaction the confirmation service works for is under its txid: the
\* entries of the broadcasts are out of its reach.
LEMMA OtherEntryKeeps ==
    ASSUME TrackerTypeOK, EntriesTrue, NEW x \in Txids,
           ChangesOnly(tracker', x), depth' = depth, mempool' \subseteq Txids
    PROVE  TrackerTypeOK' /\ EntriesTrue'
<1>1. TrackerTypeOK'
  BY DEF TrackerTypeOK, ChangesOnly
<1>2. ASSUME NEW u \in Ids PROVE tracker'[u] = tracker[u]
  BY KeysAssumption, TxidsOfBroadcasts DEF ChangesOnly
<1>3. QED BY <1>1, <1>2 DEF EntriesTrue, EntryTrue

LEMMA StatusOnly ==
    ASSUME NEW tr, NEW x \in Txids, ChangesOnly(tr, x), NEW s \in Status
    PROVE  ChangesOnly(SetStatus(tr, x, s), x) /\ ChangesOnly(Unwatched(tr, x), x)
<1>1. ASSUME NEW r \in Status PROVE ChangesOnly(SetStatus(tr, x, r), x)
  BY TrackerOperations, TrackerElsewhere DEF ChangesOnly, Keys
<1>2. "UNWATCHED" \in Status
  BY DEF Status
<1>3. QED BY <1>1, <1>2 DEF Unwatched

LEMMA ConfirmEntries ==
    ASSUME ConfirmInv, TrackerTypeOK, EntriesTrue, ConfirmNext
    PROVE  TrackerTypeOK' /\ EntriesTrue'
<1>1. ASSUME NEW x \in Txids PROVE ChangesOnly(tracker, x)
  BY DEF ChangesOnly, TrackerTypeOK
<1>2. mempool \subseteq Txids
  BY DEF TrackerTypeOK
<1>3. /\ "PENDING_CONFIRMATION" \in Status /\ "ERROR" \in Status /\ "MEMPOOL" \in Status
      /\ "CONFIRMED" \in Status /\ "FINALIZED" \in Status
  BY DEF Status
<1>4. CASE UNCHANGED <<tracker, mempool, depth>>
  BY <1>4 DEF TrackerTypeOK, EntriesTrue, EntryTrue
<1>5. ASSUME NEW x \in Txids, Watch(x) PROVE TrackerTypeOK' /\ EntriesTrue'
  BY <1>1, <1>2, <1>3, <1>5, StatusOnly, OtherEntryKeeps DEF Watch
<1>6. ASSUME NEW x \in Txids, Unwatch(x) PROVE TrackerTypeOK' /\ EntriesTrue'
  BY <1>1, <1>2, <1>3, <1>6, StatusOnly, OtherEntryKeeps DEF Unwatch
<1>7. ASSUME NEW c \in Chains, TimerFires(c) \/ ApiAnswersCheck(c)
      PROVE  TrackerTypeOK' /\ EntriesTrue'
  BY <1>4, <1>7 DEF TimerFires, ApiAnswersCheck
<1>8. ASSUME NEW c \in Chains, HandleFailure(c) \/ HandleUnconfirmed(c) \/ HandleConfirmed(c)
      PROVE  TrackerTypeOK' /\ EntriesTrue'
  <2> DEFINE x == chains[c].txid
  <2>1. x \in Txids
    BY <1>8, LiveChains
       DEF ConfirmInv, HandleFailure, HandleUnconfirmed, HandleConfirmed, ConfirmedAnswer,
           At, Live
  <2>2. UNCHANGED <<mempool, depth>>
    BY <1>8 DEF HandleFailure, HandleUnconfirmed, HandleConfirmed, ConfirmedAnswer
  <2>3. \E s \in Status : \/ tracker' = SetStatus(tracker, x, s)
                          \/ tracker' = Unwatched(SetStatus(tracker, x, s), x)
    BY <1>3, <1>8
       DEF HandleFailure, HandleUnconfirmed, HandleConfirmed, Finalize, AwaitFinality,
           StopPolling
  <2> HIDE DEF x
  <2>4. ChangesOnly(tracker', x)
    BY <1>1, <2>1, <2>3, StatusOnly
  <2>5. QED BY <1>2, <2>1, <2>2, <2>4, OtherEntryKeeps
<1>9. CASE ForceCheckAll \/ \E f \in 1..MaxForced : SweepGoesOn(f)
  BY <1>4, <1>9 DEF ForceCheckAll, SweepGoesOn
<1>10. QED BY <1>5, <1>6, <1>7, <1>8, <1>9 DEF ConfirmNext, ConfirmStep

\* The application's updates: the confirmations of the transaction an entry names make
\* the entry CONFIRMED only when they are enough.
LEMMA UpdateKeeps ==
    ASSUME TrackerTypeOK, EntriesTrue, NEW k \in Keys, ApplicationUpdates(k)
    PROVE  TrackerTypeOK' /\ EntriesTrue'
<1> DEFINE n == depth[tracker[k].txid]
<1>1. tracker[k] \in Entry /\ tracker[k].txid \in Txids
  BY DEF ApplicationUpdates, TrackerTypeOK, Tracked, Entry
<1>2. n \in {0, 1, FinalDepth} /\ n \in Nat
  BY <1>1 DEF TrackerTypeOK, FinalDepth
<1>3. /\ tracker' = UpdateConfirmations(tracker, k, n)
      /\ mempool' = mempool /\ depth' = depth
  BY DEF ApplicationUpdates
<1>4. tracker' \in [Keys -> Entry \cup {Untracked}]
  BY <1>2, <1>3, TrackerOperations DEF TrackerTypeOK
<1>5. TrackerTypeOK'
  BY <1>3, <1>4 DEF TrackerTypeOK
<1>6. ASSUME NEW t \in Ids PROVE EntryTrue(tracker'[t], t)
  <2>1. CASE t # k
    BY <1>3, <2>1, TrackerElsewhere, TxidsOfBroadcasts DEF TrackerTypeOK, EntriesTrue
  <2>2. CASE t = k
    <3>1. tracker[t].txid = TxidOf[t]
      BY <1>1, <2>2, TxidsOfBroadcasts DEF EntriesTrue, EntryTrue, ApplicationUpdates, Tracked
    <3>2. /\ tracker'[t].txid = TxidOf[t]
          /\ tracker'[t].status = ConfirmedStatus(tracker[t].status, n)
      BY <1>1, <1>3, <2>2, <3>1
         DEF UpdateConfirmations, TrackerTypeOK, Entry, ApplicationUpdates
    <3>3. ConfirmedStatus(tracker[t].status, n) = "CONFIRMED"
            => tracker[t].status = "CONFIRMED" \/ n >= FinalDepth
      BY DEF ConfirmedStatus
    <3>4. n >= FinalDepth => n = FinalDepth
      BY <1>2 DEF FinalDepth
    <3>5. n = depth[TxidOf[t]]
      BY <2>2, <3>1
    <3>6. tracker[t].status = "CONFIRMED" => depth[TxidOf[t]] = FinalDepth
      BY <1>1, <2>2 DEF EntriesTrue, EntryTrue, ApplicationUpdates, Tracked
    <3>7. QED BY <3>2, <3>3, <3>4, <3>5, <3>6 DEF EntryTrue
  <2>3. QED BY <2>1, <2>2
<1>7. EntriesTrue'
  BY <1>3, <1>6 DEF EntriesTrue, EntryTrue
<1>8. QED BY <1>5, <1>7

LEMMA ChainMovesEntries ==
    ASSUME TrackerTypeOK, EntriesTrue, ChainMoves
    PROVE  TrackerTypeOK' /\ EntriesTrue'
<1>1. \A x \in Txids : depth[x] = FinalDepth => depth'[x] = FinalDepth
  BY DEF ChainMoves, Mine, Reorg, Evict, TrackerTypeOK, FinalDepth
<1>2. tracker' = tracker /\ mempool' \subseteq Txids /\ depth' \in [Txids -> {0, 1, FinalDepth}]
  BY DEF ChainMoves, Mine, Reorg, Evict, TrackerTypeOK, FinalDepth
<1>3. QED
  BY <1>1, <1>2, TxidsOfBroadcasts DEF TrackerTypeOK, EntriesTrue, EntryTrue

(***************************************************************************)
(* The whole.                                                              *)
(***************************************************************************)
LifecycleInv ==
    /\ TrackerTypeOK
    /\ EntriesTrue
    /\ BroadcastInv
    /\ ConfirmInv
    /\ reorgs \in 0..MaxReorgs

LEMMA LifecycleStarts == Init => LifecycleInv
<1> SUFFICES ASSUME Init PROVE LifecycleInv
  OBVIOUS
<1>1. TrackerTypeOK /\ EntriesTrue
  BY TxidsOfBroadcasts DEF Init, TrackerInit, TrackerTypeOK, EntriesTrue, EntryTrue
<1>2. BroadcastInv
  BY BroadcastStarts DEF Init
<1>3. ConfirmTypeOK
  BY ConfirmConstants DEF Init, ConfirmInit, ConfirmTypeOK
<1>4. ConfirmInv
  BY <1>3 DEF Init, ConfirmInit, ConfirmInv, WatchesNumbered, ChecksOfWatches,
              NotifiedIsOver, OwnChainPolls, FinalAnswersStand, FinalizedIsNotified,
              At, NoChain
<1>5. QED BY <1>1, <1>2, <1>4, ReorgsAssumption DEF Init, LifecycleInv

\* The confirmation service's part of the invariant, when the service stands still.
LEMMA ConfirmStutters ==
    ASSUME ConfirmInv, UNCHANGED confirmVars, UNCHANGED depth
    PROVE  ConfirmInv'
<1>1. /\ UNCHANGED <<watched, watches, retries, notified, chains, forced, sweep,
                     finalized, depth>>
  BY DEF confirmVars, watchVars
<1>2. ConfirmTypeOK' /\ WatchesNumbered' /\ ChecksOfWatches' /\ NotifiedIsOver'
  BY <1>1 DEF ConfirmInv, ConfirmTypeOK, WatchesNumbered, ChecksOfWatches, NotifiedIsOver
<1>3. OwnChainPolls' /\ FinalAnswersStand' /\ FinalizedIsNotified'
  BY <1>1 DEF ConfirmInv, OwnChainPolls, FinalAnswersStand, FinalizedIsNotified, At
<1>4. QED BY <1>2, <1>3 DEF ConfirmInv

LEMMA LifecycleKeeps == LifecycleInv /\ [Next]_vars => LifecycleInv'
<1> SUFFICES ASSUME LifecycleInv, [Next]_vars PROVE LifecycleInv'
  OBVIOUS
<1> USE DEF LifecycleInv
<1>1. ASSUME BroadcastNext, UNCHANGED <<confirmVars, reorgs>> PROVE LifecycleInv'
  <2>1. depth' = depth
    BY <1>1 DEF BroadcastNext, BroadcastStep, Start, PostFails, HeadersArrive, Resolve,
                BodyFails, NextRound, Cancel, ToggleNode
  <2>2. QED BY <1>1, <2>1, BroadcastNextKeeps, BroadcastEntries, ConfirmStutters
<1>2. ASSUME ConfirmNext, UNCHANGED <<broadcastVars, reorgs>> PROVE LifecycleInv'
  <2>1. depth' = depth
    BY <1>2 DEF ConfirmNext, Watch, Unwatch, ConfirmStep, TimerFires, ApiAnswersCheck,
                HandleFailure, HandleUnconfirmed, HandleConfirmed, ConfirmedAnswer,
                ForceCheckAll, SweepGoesOn
  <2>2. QED BY <1>2, <2>1, ConfirmStepKeeps, ConfirmEntries, BroadcastStutters
<1>3. ASSUME NEW x \in Txids, OrchestratorSends(x) PROVE LifecycleInv'
  <2>1. ChangesOnly(tracker', x) /\ mempool' \subseteq Txids /\ depth' = depth
    BY <1>3, TrackerOperations, TrackerElsewhere
       DEF OrchestratorSends, ChangesOnly, TrackerTypeOK, Keys
  <2>2. QED
    BY <1>3, <2>1, OtherEntryKeeps, BroadcastStutters, ConfirmStutters DEF OrchestratorSends
<1>4. ASSUME NEW k \in Keys, ApplicationUpdates(k) PROVE LifecycleInv'
  BY <1>4, UpdateKeeps, BroadcastStutters, ConfirmStutters DEF ApplicationUpdates
<1>5. ASSUME ChainMoves PROVE LifecycleInv'
  <2>1. reorgs' \in 0..MaxReorgs
    BY <1>5, ReorgsAssumption DEF ChainMoves
  <2>2. QED
    BY <1>5, <2>1, ChainKeeps, ChainMovesEntries, BroadcastStutters DEF ChainMoves
<1>6. ASSUME UNCHANGED vars PROVE LifecycleInv'
  <2>1. UNCHANGED <<tracker, mempool, depth>> /\ UNCHANGED broadcastVars
          /\ UNCHANGED confirmVars /\ reorgs' = reorgs
    BY <1>6 DEF vars, chainVars
  <2>2. TrackerTypeOK' /\ EntriesTrue'
    BY <2>1 DEF TrackerTypeOK, EntriesTrue, EntryTrue
  <2>3. QED BY <2>1, <2>2, BroadcastStutters, ConfirmStutters
<1>7. QED BY <1>1, <1>2, <1>3, <1>4, <1>5, <1>6 DEF Next, ConfirmNext

LEMMA LifecycleInvariant == Spec => []LifecycleInv
<1>1. QED BY LifecycleStarts, LifecycleKeeps, PTL DEF Spec

\* Every variable of the three services keeps its type.
THEOREM TypeCorrect == Spec => []TypeOK
<1>1. LifecycleInv => TypeOK
  BY BroadcastInvImplies DEF LifecycleInv, ConfirmInv, TypeOK
<1>2. QED BY <1>1, LifecycleInvariant, PTL

\* A watched transaction is polled as long as it is watched, whatever checks of earlier
\* watches, forced checks and reorganisations do meanwhile.
THEOREM WatchedPolled == Spec => []WatchedIsPolled
<1>1. ConfirmInv => WatchedIsPolled
  <2> SUFFICES ASSUME ConfirmInv, NEW x \in Txids, watched[x] # 0
               PROVE  \E c \in Chains : chains[c].txid = x /\ chains[c].at # "end"
    BY DEF WatchedIsPolled
  <2>1. watched[x] \in Chains
    BY WatchesAreChains DEF ConfirmInv, ConfirmTypeOK, Watches
  <2>2. QED BY <2>1 DEF ConfirmInv, OwnChainPolls
<1>2. QED BY <1>1, LifecycleInvariant, PTL DEF LifecycleInv

\* FINALIZED is reported at most once per watch, and only of what no reorganisation
\* reaches any more.
THEOREM FinalizedOnce == Spec => []FinalizedOncePerWatch
<1>1. ConfirmInv => FinalizedOncePerWatch
  BY DEF ConfirmInv, FinalizedIsNotified, FinalizedOncePerWatch
<1>2. QED BY <1>1, LifecycleInvariant, PTL DEF LifecycleInv

\* What the tracker calls CONFIRMED of the broadcaster's transactions is final.
THEOREM ConfirmedFinal == Spec => []BroadcastConfirmedIsFinal
<1>1. EntriesTrue => BroadcastConfirmedIsFinal
  BY DEF EntriesTrue, EntryTrue, BroadcastConfirmedIsFinal, Tracked
<1>2. QED BY <1>1, LifecycleInvariant, PTL DEF LifecycleInv

\* The broadcaster's getters show what runs, and what it gives up was tried everywhere in
\* every round, whatever was toggled, cancelled or answered late.
THEOREM BooksTrue == Spec => []BookkeepingMatches
<1>1. BroadcastInv => BookkeepingMatches
  BY BroadcastInvImplies
<1>2. QED BY <1>1, LifecycleInvariant, PTL DEF LifecycleInv
=============================================================================
