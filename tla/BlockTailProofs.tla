--------------------------- MODULE BlockTailProofs ---------------------------
(***************************************************************************)
(* Proofs about the block modes of the indexer and the store they share    *)
(* with the maintenance scripts, for any chain, any number of processes in *)
(* any modes, any lookback and any numbers of starts, faults and scripts.  *)
(***************************************************************************)
EXTENDS BlockTail, FiniteSetTheorems, SequenceTheorems, TLAPS

(***************************************************************************)
(* The chain.                                                              *)
(***************************************************************************)
LEMMA Constants ==
    /\ Len(Blocks) \in Nat \ {0}
    /\ \A h \in Heights : h \in Nat /\ h + 1 \in DOMAIN Blocks
                          /\ Blocks[h + 1] \in Seq(Inscriptions)
    /\ IsFiniteSet(Inscriptions)
    /\ NoInscription \notin Inscriptions
    /\ InitHeight \in Heights
    /\ Lookback \in Nat \ {0}
    /\ MaxStarts \in Nat /\ MaxFaults \in Nat /\ MaxScripts \in Nat
    /\ \A p \in Procs : Mode[p] \in {"tail", "reverse", "block"}
<1>1. Blocks \in Seq(Seq(Inscriptions)) /\ Blocks # <<>>
  BY ChainAssumption
<1>2. DOMAIN Blocks = 1..Len(Blocks) /\ Len(Blocks) \in Nat \ {0}
  BY <1>1
<1>3. ASSUME NEW h \in Heights
      PROVE  h \in Nat /\ h + 1 \in DOMAIN Blocks /\ Blocks[h + 1] \in Seq(Inscriptions)
  BY <1>1, <1>2 DEF Heights
<1>4. QED BY <1>2, <1>3, ChainAssumption, SizesAssumption

\* The inscriptions of a block, and those that exist at some height.
Until(h) == UNION {InBlock(g) : g \in 0..h}

LEMMA BlockOfInscriptions ==
    ASSUME NEW h \in Heights
    PROVE  /\ InBlock(h) \subseteq Inscriptions
           /\ \A g \in 0..h : g \in Heights /\ InBlock(g) \subseteq Until(h)
           /\ Until(h) \subseteq Inscriptions
           /\ \A i \in Until(h) : \E g \in 0..h : i \in InBlock(g)
<1>1. ASSUME NEW g \in Heights PROVE InBlock(g) \subseteq Inscriptions
  <2>1. Blocks[g + 1] \in Seq(Inscriptions)
    BY Constants
  <2>2. \A k \in DOMAIN Blocks[g + 1] : Blocks[g + 1][k] \in Inscriptions
    BY <2>1
  <2>3. QED BY <2>2 DEF InBlock
<1>2. ASSUME NEW g \in 0..h PROVE g \in Heights
  BY Constants DEF Heights
<1>3. QED BY <1>1, <1>2 DEF Until

\* What exists stays, and a sat's list only grows.
LEMMA ChainGrows ==
    ASSUME NEW g \in Heights, NEW h \in Heights, g <= h
    PROVE  Until(g) \subseteq Until(h)
<1>1. 0..g \subseteq 0..h
  BY Constants DEF Heights
<1>2. QED BY <1>1 DEF Until

\* What is inscribed before an inscription exists if that exists.
LEMMA EarlierExists ==
    ASSUME NEW h \in Heights, NEW i \in Until(h), NEW j, Before(j, i)
    PROVE  j \in Until(h) /\ j # i
<1>1. PICK b \in 0..h : i \in InBlock(b)
  BY BlockOfInscriptions
<1>2. b \in Heights /\ b + 1 \in DOMAIN Blocks
  BY BlockOfInscriptions, Constants
<1>3. PICK m \in DOMAIN Blocks[b + 1] : Blocks[b + 1][m] = i
  BY <1>1 DEF InBlock
<1>4. PICK d \in DOMAIN Blocks, e \in DOMAIN Blocks :
        \E k \in DOMAIN Blocks[d], l \in DOMAIN Blocks[e] :
          /\ Blocks[d][k] = j /\ Blocks[e][l] = i
          /\ d < e \/ (d = e /\ k < l)
  BY DEF Before
<1>5. PICK k \in DOMAIN Blocks[d], l \in DOMAIN Blocks[e] :
          /\ Blocks[d][k] = j /\ Blocks[e][l] = i
          /\ d < e \/ (d = e /\ k < l)
  BY <1>4
<1>6. e = b + 1
  BY <1>2, <1>3, <1>5, ChainAssumption
<1>7. d \in Nat /\ d >= 1 /\ d <= b + 1 /\ DOMAIN Blocks = 1..Len(Blocks)
  <2>1. DOMAIN Blocks = 1..Len(Blocks) /\ Len(Blocks) \in Nat
    BY ChainAssumption, Constants
  <2>2. b \in Nat
    BY <1>2, Constants
  <2>3. QED BY <1>5, <1>6, <2>1, <2>2
<1>8. d - 1 \in 0..h /\ (d - 1) + 1 = d
  BY <1>2, <1>7, Constants
<1>9. j \in InBlock(d - 1)
  BY <1>5, <1>8 DEF InBlock
<1>10. j \in Until(h)
  BY <1>8, <1>9 DEF Until
<1>11. j # i
  <2>1. SUFFICES ASSUME j = i PROVE FALSE
    OBVIOUS
  <2>2. d = e /\ k = l
    BY <1>5, <2>1, ChainAssumption
  <2>3. k \in Nat /\ d \in Nat
    <3>1. Blocks[d] \in Seq(Inscriptions)
      BY <1>7, <1>8, ChainAssumption
    <3>2. DOMAIN Blocks[d] = 1..Len(Blocks[d])
      BY <3>1
    <3>3. QED BY <1>7, <3>2
  <2>4. QED BY <1>5, <2>2, <2>3
<1>12. QED BY <1>10, <1>11

\* The place of an inscription on its sat is a number, below the length of the sat's list.
LEMMA PositionsListed ==
    ASSUME NEW h \in Heights, NEW i \in Until(h)
    PROVE  /\ Position[i] \in 0..Cardinality(Inscriptions)
           /\ Cardinality({j \in Until(h) : SatOf[j] = SatOf[i]}) \in Nat
           /\ Position[i] < Cardinality({j \in Until(h) : SatOf[j] = SatOf[i]})
<1> DEFINE earlier == {j \in Inscriptions : SatOf[j] = SatOf[i] /\ Before(j, i)}
           listed == {j \in Until(h) : SatOf[j] = SatOf[i]}
<1>1. i \in Inscriptions /\ IsFiniteSet(Inscriptions) /\ listed \subseteq Inscriptions
  BY BlockOfInscriptions, Constants
<1>2. /\ IsFiniteSet(listed) /\ Cardinality(listed) \in Nat
      /\ IsFiniteSet(listed \ {i}) /\ Cardinality(listed \ {i}) \in Nat
  BY <1>1, FS_Subset, FS_CardinalityType
<1>3. earlier \subseteq listed \ {i}
  BY EarlierExists
<1>4. /\ IsFiniteSet(earlier)
      /\ Cardinality(earlier) \in Nat
      /\ Cardinality(earlier) <= Cardinality(listed \ {i})
  BY <1>2, <1>3, FS_Subset, FS_CardinalityType
<1>5. Cardinality(listed \ {i}) = Cardinality(listed) - 1
  BY <1>2, FS_RemoveElement
<1>6. Cardinality(earlier) <= Cardinality(Inscriptions) /\ Cardinality(Inscriptions) \in Nat
  BY <1>1, FS_Subset, FS_CardinalityType
<1>7. Position[i] = Cardinality(earlier)
  BY <1>1 DEF Position
<1> HIDE DEF earlier, listed
<1>8. /\ Position[i] \in 0..Cardinality(Inscriptions)
      /\ Cardinality(listed) \in Nat
      /\ Position[i] < Cardinality(listed)
  BY <1>2, <1>4, <1>5, <1>6, <1>7
<1>9. QED BY <1>8 DEF listed

(***************************************************************************)
(* The invariant, part by part.                                            *)
(***************************************************************************)
Busy == {"ask", "sat", "test", "store", "report"}
InHand(p) == {todo[p][k] : k \in DOMAIN todo[p]}
Accounted == indexed \cup errored \cup lost \cup wiped
TrueId(i) == [sat |-> SatOf[i], index |-> Position[i]]

\* The patterns a reset may have yet to delete.
Remaining == {SubSeq(Patterns, k + 1, Len(Patterns)) : k \in 0..Len(Patterns)}

\* The types of the store and of the scripts.
StoreTyped ==
    /\ height \in Heights
    /\ indexed \subseteq Existing /\ errored \subseteq Existing /\ others \subseteq Existing
    /\ resources \subseteq ResourceIds
    /\ DOMAIN details \subseteq Existing /\ \A i \in DOMAIN details : details[i] \in ResourceIds
    /\ faults \in 0..MaxFaults
    /\ manual \in [at : {"off", "sAdd", "hSet", "lPush"}, of : Inscriptions \cup {NoInscription},
                   class : {"plus", "other"}, id : ResourceIds \cup {None}]
    /\ reset \in Remaining
    /\ runs \in 0..MaxScripts
    /\ torn \subseteq Inscriptions /\ wiped \subseteq Inscriptions

\* The variables of the processes are functions on them.
Local ==
    /\ pc \in [Procs -> Phases]
    /\ known \in [Procs -> Int] /\ told \in [Procs -> Int] /\ next \in [Procs -> Int]
    /\ todo \in [Procs -> Seq(Inscriptions)]
    /\ class \in [Procs -> {"plus", "other"}]
    /\ id \in [Procs -> ResourceIds \cup {None}]
    /\ satCache \in [Procs -> [Sats -> Int]]
    /\ base \in [Procs -> Nat]
    /\ starts \in 0..MaxStarts
    /\ done \subseteq 0..height /\ unread \subseteq 0..height
    /\ lost \subseteq Existing /\ stale \subseteq Existing

\* Where a process is: what it has yet to process is of the block it is at, and the rest
\* of that block is accounted for.
Placed(p) ==
    /\ known[p] \in -1..height /\ told[p] \in -1..height
    /\ next[p] \in -1..(height + 1)
    /\ Mode[p] = "tail" => next[p] >= 0
    /\ Mode[p] # "tail" => next[p] <= height
    /\ pc[p] = "list" => next[p] \in 0..height
    /\ pc[p] \in Busy <=> todo[p] # <<>>
    /\ pc[p] \in Busy =>
         /\ next[p] \in 0..height
         /\ InHand(p) \subseteq InBlock(next[p])
         /\ InBlock(next[p]) \subseteq Accounted \cup InHand(p)

\* What a process has read: a list is no longer than the one on the chain, and the id it
\* is about to store is the true one unless it was looked up in too short a list.
Informed(p) ==
    /\ \A s \in Sats : satCache[p][s] \in {NoList} \cup 0..OnSat(s)
    /\ pc[p] \in {"test", "store"} =>
         /\ id[p] \in ResourceIds
         /\ Current(p) \notin stale => id[p] = TrueId(Current(p))

\* A tail loop has passed what lies between its base and its next block.
Passed == done \cup unread
Gapless(p) ==
    Mode[p] = "tail" /\ pc[p] \notin {"off", "latest"} => base[p]..(next[p] - 1) \subseteq Passed

\* The ids on record, and the one manual-index is about to write.
IdsTrue ==
    /\ \A i \in DOMAIN details : i \notin stale => details[i] = TrueId(i)
    /\ manual.at # "off" => manual.of \in Existing /\ manual.id = TrueId(manual.of)

Listed(i) == i \in others \/ (i \in DOMAIN details /\ details[i] \in resources)

\* What is indexed is listed, or known to be torn from its list; once a reset is at the
\* lists, all members are.
TornOrListed ==
    /\ \A i \in indexed \ torn : Listed(i)
    /\ DeletingLists => indexed \subseteq torn

TailInv ==
    /\ StoreTyped
    /\ Local
    /\ \A p \in Procs : Placed(p) /\ Informed(p) /\ Gapless(p)
    /\ BlockDoneIsAccounted
    /\ IdsTrue
    /\ TornOrListed

\* reset-index deletes the errors first, the members next and the lists last.
LEMMA ResetOrder ==
    /\ Patterns \in Remaining /\ <<>> \in Remaining /\ Patterns # <<>> /\ Head(Patterns) = "errors"
    /\ \A s \in Remaining \ {<<>>} :
         /\ Tail(s) \in Remaining
         /\ Head(s) = "errors" => Tail(s) # <<>> /\ Head(Tail(s)) = "indexed"
         /\ Head(s) \in {"errors", "indexed"} \/ Head(s) \in {"resources", "others", "details"}
         /\ Head(s) # "errors" => Tail(s) = <<>> \/ Head(Tail(s)) \in {"resources", "others", "details"}
<1> DEFINE left(k) == SubSeq(Patterns, k + 1, 5)
<1>1. /\ Len(Patterns) = 5
      /\ Patterns[1] = "errors" /\ Patterns[2] = "indexed" /\ Patterns[3] = "resources"
      /\ Patterns[4] = "others" /\ Patterns[5] = "details"
  BY DEF Patterns
<1>2. Patterns \in Seq({"errors", "indexed", "resources", "others", "details"})
  BY DEF Patterns
<1> HIDE DEF Patterns
<1>3. ASSUME NEW k \in 0..4
      PROVE  /\ left(k) # <<>> /\ Head(left(k)) = Patterns[k + 1] /\ Tail(left(k)) = left(k + 1)
  <2>1. k + 1 \in 1..5 /\ 5 \in (k + 1)..5
    OBVIOUS
  <2>2. Head(left(k)) = Patterns[k + 1] /\ Tail(left(k)) = SubSeq(Patterns, (k + 1) + 1, 5)
    BY <1>1, <1>2, <2>1, HeadTailOfSubSeq
  <2>3. \A j \in (k + 1)..5 : Patterns[j] \in {"errors", "indexed", "resources", "others", "details"}
    BY <1>1
  <2>4. Len(left(k)) = 5 - (k + 1) + 1
    BY <2>1, <2>3, SubSeqProperties
  <2>5. left(k) # <<>>
    <3>1. Len(<<>>) = 0
      BY EmptySeq
    <3>2. Len(left(k)) # 0
      BY <2>1, <2>4
    <3> HIDE DEF left
    <3>3. QED BY <3>1, <3>2
  <2>6. QED BY <2>2, <2>5
<1>4. left(5) = <<>> /\ left(0) = Patterns
  BY <1>1, <1>2, SubSeqFull, SubSeqEmpty
<1>5. Remaining = {left(k) : k \in 0..5}
  BY <1>1 DEF Remaining
<1> HIDE DEF left
<1>6. \A k \in 0..4 : /\ k = 0 <=> Head(left(k)) = "errors"
                      /\ k = 1 <=> Head(left(k)) = "indexed"
                      /\ k > 1 <=> Head(left(k)) \in {"resources", "others", "details"}
  BY <1>1, <1>3
<1>7. ASSUME NEW s \in Remaining \ {<<>>}
      PROVE  /\ Tail(s) \in Remaining
             /\ Head(s) = "errors" => Tail(s) # <<>> /\ Head(Tail(s)) = "indexed"
             /\ Head(s) \in {"errors", "indexed"} \/ Head(s) \in {"resources", "others", "details"}
             /\ Head(s) # "errors" =>
                  Tail(s) = <<>> \/ Head(Tail(s)) \in {"resources", "others", "details"}
  <2>1. PICK k \in 0..4 : s = left(k)
    BY <1>4, <1>5
  <2>2. k + 1 \in 0..5 /\ Tail(s) = left(k + 1)
    BY SMTT(30), <1>3, <2>1
  <2>3. k = 4 => Tail(s) = <<>>
    BY <1>4, <2>2
  <2>4. ASSUME k # 4 PROVE k + 1 \in 0..4 /\ Tail(s) # <<>>
    <3>1. k + 1 \in 0..4
      BY <2>4
    <3>2. QED BY <1>3, <2>2, <3>1
  <2>5. Tail(s) \in Remaining
    BY <1>5, <2>2
  <2>6. /\ k = 0 <=> Head(s) = "errors"
        /\ k > 0 => Tail(s) = <<>> \/ Head(Tail(s)) \in {"resources", "others", "details"}
    BY SMTT(30), <1>6, <2>1, <2>2, <2>3, <2>4
  <2>7. /\ k = 0 => Tail(s) # <<>> /\ Head(Tail(s)) = "indexed"
        /\ Head(s) \in {"errors", "indexed"} \/ Head(s) \in {"resources", "others", "details"}
    BY <1>6, <2>1, <2>2, <2>4
  <2>8. QED BY <2>5, <2>6, <2>7
<1>8. QED BY <1>1, <1>4, <1>5, <1>6, <1>7

LEMMA ExistingInscriptions ==
    ASSUME height \in Heights
    PROVE  /\ height \in Nat
           /\ Existing = Until(height) /\ Existing \subseteq Inscriptions
           /\ \A h \in 0..height : /\ h + 1 \in DOMAIN Blocks
                                   /\ Blocks[h + 1] \in Seq(Inscriptions)
                                   /\ InBlock(h) \subseteq Existing
           /\ \A i \in Existing :
                /\ TrueId(i) \in ResourceIds
                /\ Position[i] \in Nat
                /\ OnSat(SatOf[i]) \in Nat
                /\ Position[i] < OnSat(SatOf[i])
                /\ SatOf[i] \in Sats
           /\ \A s : OnSat(s) \in Nat
<1>1. Existing = Until(height)
  BY DEF Existing, Until
<1>2. \A s : OnSat(s) = Cardinality({j \in Until(height) : SatOf[j] = s})
  BY <1>1 DEF OnSat
<1>3. ASSUME NEW s PROVE OnSat(s) \in Nat
  <2>1. {j \in Until(height) : SatOf[j] = s} \subseteq Inscriptions
    BY BlockOfInscriptions
  <2>2. QED BY <1>2, <2>1, Constants, FS_Subset, FS_CardinalityType
<1>4. ASSUME NEW i \in Existing
      PROVE  /\ TrueId(i) \in ResourceIds
             /\ Position[i] \in Nat
             /\ Position[i] < OnSat(SatOf[i])
             /\ SatOf[i] \in Sats
  <2>1. Position[i] \in 0..Cardinality(Inscriptions) /\ Position[i] < OnSat(SatOf[i])
    BY <1>1, <1>2, PositionsListed
  <2>2. i \in Inscriptions
    BY <1>1, BlockOfInscriptions
  <2>3. QED BY <2>1, <2>2 DEF TrueId, ResourceIds, Sats
<1>5. ASSUME NEW h \in 0..height
      PROVE  /\ h + 1 \in DOMAIN Blocks
             /\ Blocks[h + 1] \in Seq(Inscriptions)
             /\ InBlock(h) \subseteq Existing
  BY <1>1, BlockOfInscriptions, Constants
<1>6. QED BY <1>1, <1>3, <1>4, <1>5, BlockOfInscriptions, Constants

\* What the id of an inscription in hand is, from a list of some length.
LEMMA IdFromList ==
    ASSUME height \in Heights, NEW i \in Existing, NEW listed \in Int
    PROVE  /\ ResourceId(i, listed) \in ResourceIds
           /\ Position[i] < listed => ResourceId(i, listed) = TrueId(i)
<1>1. /\ TrueId(i) \in ResourceIds /\ SatOf[i] \in Sats
      /\ Cardinality(Inscriptions) \in Nat
  BY ExistingInscriptions, Constants, FS_CardinalityType
<1>2. 0 \in 0..Cardinality(Inscriptions)
  BY <1>1
<1>3. QED BY <1>1, <1>2 DEF ResourceId, TrueId, ResourceIds

\* The head of what a process has in hand, and the rest.
LEMMA HeadAndTail ==
    ASSUME NEW S, NEW s \in Seq(S), s # <<>>
    PROVE  /\ Head(s) \in S /\ Tail(s) \in Seq(S)
           /\ {s[k] : k \in DOMAIN s} = {Head(s)} \cup {Tail(s)[k] : k \in DOMAIN Tail(s)}
<1>1. /\ Len(s) \in Nat \ {0} /\ DOMAIN s = 1..Len(s)
      /\ Head(s) = s[1] /\ Tail(s) \in Seq(S)
      /\ DOMAIN Tail(s) = 1..(Len(s) - 1)
      /\ \A k \in 1..(Len(s) - 1) : Tail(s)[k] = s[k + 1]
  OBVIOUS
<1>2. ASSUME NEW k \in DOMAIN s
      PROVE  s[k] \in {Head(s)} \cup {Tail(s)[j] : j \in DOMAIN Tail(s)}
  <2>1. CASE k = 1
    BY <1>1, <2>1
  <2>2. CASE k # 1
    <3>1. k - 1 \in 1..(Len(s) - 1) /\ (k - 1) + 1 = k
      BY <1>1, <2>2
    <3>2. QED BY <1>1, <3>1
  <2>3. QED BY <2>1, <2>2
<1>3. ASSUME NEW k \in DOMAIN Tail(s) PROVE Tail(s)[k] \in {s[j] : j \in DOMAIN s}
  <2>1. k + 1 \in DOMAIN s /\ Tail(s)[k] = s[k + 1]
    BY <1>1
  <2>2. QED BY <2>1
<1>4. Head(s) \in {s[j] : j \in DOMAIN s} /\ Head(s) \in S
  BY <1>1
<1>5. {s[k] : k \in DOMAIN s} = {Head(s)} \cup {Tail(s)[k] : k \in DOMAIN Tail(s)}
  BY <1>2, <1>3, <1>4
<1>6. QED BY <1>1, <1>4, <1>5

(***************************************************************************)
(* What one process does leaves the others where they are.                 *)
(***************************************************************************)
ProcUnchanged(p) ==
    /\ pc'[p] = pc[p] /\ known'[p] = known[p] /\ next'[p] = next[p] /\ told'[p] = told[p]
    /\ todo'[p] = todo[p] /\ class'[p] = class[p] /\ id'[p] = id[p]
    /\ satCache'[p] = satCache[p] /\ base'[p] = base[p]

\* The chain grows, and so does what is accounted for; a reset takes nothing from that.
Grows ==
    /\ height' \in Heights /\ height <= height'
    /\ Accounted \subseteq Accounted'
    /\ stale \subseteq stale' /\ Passed \subseteq Passed'

LEMMA GrowsOnChain ==
    ASSUME height \in Heights, Grows
    PROVE  /\ height \in Nat /\ height' \in Nat /\ height <= height'
           /\ Existing \subseteq Existing'
           /\ \A s : OnSat(s) \in Nat /\ OnSat(s)' \in Nat /\ OnSat(s) <= OnSat(s)'
           /\ 0..height \subseteq 0..height'
           /\ Accounted \subseteq Accounted'
<1>1. Existing = Until(height) /\ Existing' = Until(height')
  BY DEF Existing, Until
<1>2. Existing \subseteq Existing' /\ Existing' \subseteq Inscriptions
  BY <1>1, ChainGrows, BlockOfInscriptions DEF Grows
<1>3. ASSUME NEW s PROVE OnSat(s) \in Nat /\ OnSat(s)' \in Nat /\ OnSat(s) <= OnSat(s)'
  <2> DEFINE now == {i \in Existing : SatOf[i] = s}
             then == {i \in Existing' : SatOf[i] = s}
  <2>1. now \subseteq then /\ IsFiniteSet(then)
    BY <1>2, Constants, FS_Subset
  <2>2. Cardinality(now) \in Nat /\ Cardinality(then) \in Nat
          /\ Cardinality(now) <= Cardinality(then)
    BY <2>1, FS_Subset, FS_CardinalityType
  <2>3. OnSat(s) = Cardinality(now) /\ OnSat(s)' = Cardinality(then)
    BY DEF OnSat
  <2>4. QED BY <2>2, <2>3
<1>4. height \in Nat /\ height' \in Nat /\ height <= height'
  BY Constants DEF Grows
<1>5. QED BY <1>2, <1>3, <1>4 DEF Grows, Accounted

LEMMA ProcStays ==
    ASSUME height \in Heights, Local, Grows, NEW p \in Procs, ProcUnchanged(p),
           Placed(p), Informed(p), Gapless(p)
    PROVE  Placed(p)' /\ Informed(p)' /\ Gapless(p)'
<1>1. /\ height \in Nat /\ height' \in Nat /\ height <= height'
      /\ 0..height \subseteq 0..height'
      /\ Accounted \subseteq Accounted'
      /\ \A s : OnSat(s) \in Nat /\ OnSat(s)' \in Nat /\ OnSat(s) <= OnSat(s)'
  BY GrowsOnChain
<1>2. known[p] \in Int /\ told[p] \in Int /\ next[p] \in Int
  BY DEF Local
<1>3. InHand(p)' = InHand(p)
  BY DEF InHand, ProcUnchanged
<1>4. Placed(p)'
  <2>1. known'[p] \in -1..height' /\ told'[p] \in -1..height' /\ next'[p] \in -1..(height' + 1)
    BY <1>1, <1>2 DEF Placed, ProcUnchanged
  <2>2. /\ Mode[p] = "tail" => next'[p] >= 0
        /\ Mode[p] # "tail" => next'[p] <= height'
        /\ pc'[p] \in Busy <=> todo'[p] # <<>>
        /\ pc'[p] = "list" => next'[p] \in 0..height'
    BY <1>1, <1>2 DEF Placed, ProcUnchanged
  <2>3. ASSUME pc'[p] \in Busy
        PROVE  /\ next'[p] \in 0..height'
               /\ InHand(p)' \subseteq InBlock(next[p])'
               /\ InBlock(next[p])' \subseteq Accounted' \cup InHand(p)'
    <3>1. InBlock(next[p])' = InBlock(next[p])
      BY DEF InBlock, ProcUnchanged
    <3>2. QED BY <1>1, <1>3, <2>3, <3>1 DEF Placed, ProcUnchanged
  <2>4. QED BY <2>1, <2>2, <2>3 DEF Placed
<1>5. Informed(p)'
  <2>1. ASSUME NEW s \in Sats PROVE satCache'[p][s] \in {NoList} \cup 0..OnSat(s)'
    BY <1>1 DEF Informed, ProcUnchanged
  <2>2. pc'[p] \in {"test", "store"} => /\ id'[p] \in ResourceIds
                                        /\ Current(p)' \notin stale' => id'[p] = TrueId(Current(p)')
    BY DEF Informed, ProcUnchanged, Current, Grows, TrueId
  <2>3. QED BY <2>1, <2>2 DEF Informed, TrueId
<1>6. Gapless(p)'
  BY DEF Gapless, ProcUnchanged, Grows
<1>7. QED BY <1>4, <1>5, <1>6

(***************************************************************************)
(* What it does for the process itself.                                    *)
(***************************************************************************)
\* What most steps of p leave alone.
Keeps(p) ==
    /\ height' = height
    /\ known'[p] = known[p] /\ told'[p] = told[p] /\ base'[p] = base[p]

\* The end of a block, processed or passed over.
LEMMA NextBlockKeeps ==
    ASSUME height \in Heights, Local, NEW p \in Procs, Placed(p), Informed(p), Gapless(p),
           pc[p] \notin {"off", "latest"}, next[p] \in 0..height,
           NextBlock(p), Keeps(p), satCache'[p] = satCache[p], todo'[p] = <<>>,
           Mode[p] = "tail" => Passed \cup {next[p]} \subseteq Passed'
    PROVE  /\ Placed(p)' /\ Informed(p)' /\ Gapless(p)'
           /\ pc' \in [Procs -> Phases] /\ next' \in [Procs -> Int]
           /\ \A q \in Procs \ {p} : pc'[q] = pc[q] /\ next'[q] = next[q]
<1>1. height \in Nat /\ Existing' = Existing /\ \A s : OnSat(s)' = OnSat(s)
  BY Constants DEF Keeps, Existing, OnSat, InBlock
<1>2. /\ next' = [next EXCEPT ![p] = IF Mode[p] = "tail" THEN @ + 1 ELSE @ - 1]
      /\ pc' = [pc EXCEPT ![p] = IF Mode[p] = "block" \/ (Mode[p] = "reverse" /\ next[p] = 0)
                                 THEN "off" ELSE "next"]
  BY DEF NextBlock, Goto
<1>3. /\ pc' \in [Procs -> Phases] /\ next' \in [Procs -> Int] /\ pc'[p] \in {"off", "next"}
      /\ \A q \in Procs \ {p} : pc'[q] = pc[q] /\ next'[q] = next[q]
  BY <1>2 DEF Local, Phases
<1>4. /\ Mode[p] = "tail" => next'[p] = next[p] + 1
      /\ Mode[p] # "tail" => next'[p] = next[p] - 1
  BY <1>2 DEF Local
<1>5. Placed(p)'
  <2>1. known'[p] \in -1..height' /\ told'[p] \in -1..height' /\ next'[p] \in -1..(height' + 1)
    BY <1>1, <1>4 DEF Placed, Keeps
  <2>2. /\ Mode[p] = "tail" => next'[p] >= 0
        /\ Mode[p] # "tail" => next'[p] <= height'
    BY <1>1, <1>4 DEF Keeps
  <2>3. pc'[p] \notin Busy \cup {"list"}
    BY <1>3 DEF Busy
  <2>4. QED BY <2>1, <2>2, <2>3 DEF Placed
<1>6. Informed(p)'
  BY <1>1, <1>3 DEF Informed
<1>7. Gapless(p)'
  <2> SUFFICES ASSUME Mode[p] = "tail" PROVE base[p]..(next'[p] - 1) \subseteq Passed'
    BY DEF Gapless, Keeps
  <2>1. base[p]..(next[p] - 1) \subseteq Passed /\ base[p] \in Nat
    BY DEF Gapless, Local
  <2>2. next'[p] - 1 = next[p]
    BY <1>4
  <2>3. base[p]..next[p] \subseteq (base[p]..(next[p] - 1)) \cup {next[p]}
    BY <2>1
  <2>4. QED BY <2>1, <2>2, <2>3
<1>8. QED BY <1>3, <1>5, <1>6, <1>7

LEMMA BlockDoneKeeps ==
    ASSUME height \in Heights, Local, NEW p \in Procs, Placed(p), Informed(p), Gapless(p),
           pc[p] \notin {"off", "latest"}, next[p] \in 0..height, unread' = unread,
           BlockDone(p), Keeps(p), satCache'[p] = satCache[p], todo'[p] = <<>>
    PROVE  /\ Placed(p)' /\ Informed(p)' /\ Gapless(p)'
           /\ pc' \in [Procs -> Phases] /\ next' \in [Procs -> Int]
           /\ done' \subseteq 0..height' /\ done' = done \cup {next[p]}
<1>1. NextBlock(p) /\ done' = done \cup {next[p]}
  BY DEF BlockDone
<1>2. Passed \cup {next[p]} \subseteq Passed' /\ done' \subseteq 0..height'
  BY <1>1 DEF Passed, Local, Keeps
<1>3. QED BY <1>1, <1>2, NextBlockKeeps

\* The end of an inscription that is accounted for.
LEMMA AdvanceKeeps ==
    ASSUME height \in Heights, Local, NEW p \in Procs, Placed(p), Informed(p), Gapless(p),
           pc[p] \in Busy, Advance(p), Keeps(p), UNCHANGED <<satCache, unread>>,
           Accounted \subseteq Accounted', Current(p) \in Accounted'
    PROVE  /\ Placed(p)' /\ Informed(p)' /\ Gapless(p)'
           /\ pc' \in [Procs -> Phases] /\ next' \in [Procs -> Int]
           /\ todo' \in [Procs -> Seq(Inscriptions)]
           /\ class' \in [Procs -> {"plus", "other"}]
           /\ id' \in [Procs -> ResourceIds \cup {None}]
           /\ done' \subseteq 0..height' /\ done \subseteq done'
           /\ \A h \in done' \ done : InBlock(h) \subseteq Accounted'
<1>1. todo[p] \in Seq(Inscriptions) /\ todo[p] # <<>>
  BY DEF Local, Placed
<1>2. /\ todo'[p] = Tail(todo[p]) /\ todo' \in [Procs -> Seq(Inscriptions)]
      /\ InHand(p) = {Current(p)} \cup InHand(p)'
  <2>1. todo' = [todo EXCEPT ![p] = Tail(todo[p])] /\ Tail(todo[p]) \in Seq(Inscriptions)
    BY <1>1, HeadAndTail DEF Advance
  <2>2. todo'[p] = Tail(todo[p]) /\ todo' \in [Procs -> Seq(Inscriptions)]
    BY <2>1 DEF Local
  <2>3. {todo[p][k] : k \in DOMAIN todo[p]}
          = {Head(todo[p])} \cup {Tail(todo[p])[k] : k \in DOMAIN Tail(todo[p])}
    BY <1>1, HeadAndTail
  <2>4. QED BY <2>2, <2>3 DEF InHand, Current
<1>3. class' \in [Procs -> {"plus", "other"}] /\ id' \in [Procs -> ResourceIds \cup {None}]
  BY DEF Advance, Forgets, Local
<1>4. /\ next[p] \in 0..height /\ pc[p] \notin {"off", "latest"}
      /\ InBlock(next[p]) \subseteq Accounted' \cup InHand(p)'
      /\ InHand(p)' \subseteq InBlock(next[p])
  BY <1>2 DEF Placed, Busy
<1>5. CASE Tail(todo[p]) = <<>>
  <2>1. BlockDone(p)
    BY <1>5 DEF Advance
  <2>2. InHand(p)' = {}
    BY <1>2, <1>5 DEF InHand
  <2>3. InBlock(next[p]) \subseteq Accounted' /\ todo'[p] = <<>> /\ satCache'[p] = satCache[p]
    BY <1>2, <1>4, <1>5, <2>2
  <2>4. \A h \in {next[p]} : InBlock(h) \subseteq Accounted'
    BY <2>3
  <2>5. QED BY <1>2, <1>3, <1>4, <2>1, <2>3, <2>4, BlockDoneKeeps
<1>6. CASE Tail(todo[p]) # <<>>
  <2>1. pc' = [pc EXCEPT ![p] = "ask"] /\ next' = next /\ done' = done
    BY <1>6 DEF Advance, Goto
  <2>2. pc' \in [Procs -> Phases] /\ pc'[p] = "ask" /\ next' \in [Procs -> Int]
    BY <2>1 DEF Local, Phases
  <2>3. InBlock(next[p])' = InBlock(next[p])
    BY <2>1 DEF InBlock
  <2>4. Placed(p)'
    BY <1>2, <1>4, <1>6, <2>1, <2>2, <2>3 DEF Placed, Keeps, Busy
  <2>5. Informed(p)'
    <3>1. \A s : OnSat(s)' = OnSat(s)
      BY DEF Keeps, Existing, OnSat, InBlock
    <3>2. QED BY <2>2, <3>1 DEF Informed
  <2>6. Gapless(p)'
    BY <1>4, <2>1, <2>2 DEF Gapless, Keeps, Passed
  <2>7. QED BY <1>2, <1>3, <2>1, <2>2, <2>4, <2>5, <2>6 DEF Local, Keeps
<1>7. QED BY <1>5, <1>6

(***************************************************************************)
(* Each step of a process.                                                 *)
(***************************************************************************)
StepGood(p) ==
    /\ Grows
    /\ StoreTyped'
    /\ Local'
    /\ Placed(p)' /\ Informed(p)' /\ Gapless(p)'
    /\ \A q \in Procs \ {p} : ProcUnchanged(q)
    /\ \A h \in done' \ done : InBlock(h) \subseteq Accounted'

LEMMA StoreStays ==
    ASSUME StoreTyped, UNCHANGED <<height, redis, scripts>>, Fault \/ UNCHANGED faults
    PROVE  StoreTyped' /\ Existing' = Existing /\ (\A s : OnSat(s)' = OnSat(s))
<1>1. faults' \in 0..MaxFaults
  BY Constants DEF Fault, StoreTyped
<1>2. /\ UNCHANGED <<height, indexed, errored, resources, details, others, manual, reset, runs, torn, wiped>>
      /\ Existing' = Existing
  BY DEF redis, scripts, Existing, InBlock
<1>3. \A s : OnSat(s)' = OnSat(s)
  BY <1>2 DEF OnSat
<1>4. QED BY <1>1, <1>2, <1>3 DEF StoreTyped

LEMMA StartGood ==
    ASSUME TailInv, NEW p \in Procs, Start(p)
    PROVE  StepGood(p)
<1>1. /\ StoreTyped' /\ Existing' = Existing /\ (\A s : OnSat(s)' = OnSat(s))
      /\ height' = height /\ height \in Heights
      /\ UNCHANGED <<indexed, errored, lost, wiped, stale, done, unread>>
  BY StoreStays DEF TailInv, StoreTyped, Start, storeVars, redis, scripts, history
<1>2. /\ pc' = [pc EXCEPT ![p] = "latest"]
      /\ satCache' = [satCache EXCEPT ![p] = NoCache]
      /\ UNCHANGED <<known, next, todo, class, id, told, base>>
      /\ starts' \in 0..MaxStarts /\ pc[p] = "off"
  BY Constants DEF Start, Goto, TailInv, Local, history
<1>3. NoCache \in [Sats -> Int] /\ \A s \in Sats : NoCache[s] = NoList
  BY DEF NoCache, NoList
<1>4. Local'
  BY <1>1, <1>2, <1>3 DEF TailInv, Local, Phases
<1>5. pc'[p] = "latest" /\ satCache'[p] = NoCache
  BY <1>2 DEF TailInv, Local
<1>6. Placed(p)' /\ Informed(p)' /\ Gapless(p)'
  <2>1. Placed(p)'
    BY <1>1, <1>2, <1>5 DEF TailInv, Placed, Busy
  <2>2. Informed(p)'
    BY <1>3, <1>5 DEF Informed
  <2>3. QED BY <1>5, <2>1, <2>2 DEF Gapless, Passed
<1>7. \A q \in Procs \ {p} : ProcUnchanged(q)
  BY <1>2 DEF TailInv, Local, ProcUnchanged
<1>8. Grows
  BY <1>1, Constants DEF Grows, Accounted, Passed
<1>9. QED BY <1>1, <1>4, <1>6, <1>7, <1>8 DEF StepGood

LEMMA LocateGood ==
    ASSUME TailInv, NEW p \in Procs, Locate(p)
    PROVE  StepGood(p)
<1>1. /\ StoreTyped' /\ Existing' = Existing /\ (\A s : OnSat(s)' = OnSat(s))
      /\ height' = height /\ height \in Heights /\ height \in Nat
      /\ UNCHANGED <<indexed, errored, lost, wiped, stale, done, unread>>
  BY StoreStays, Constants DEF TailInv, StoreTyped, Locate, storeVars, redis, scripts
<1>2. PICK h \in IF Mode[p] = "block" THEN 0..height ELSE {height} :
        /\ known' = [known EXCEPT ![p] = h]
        /\ told' = [told EXCEPT ![p] = h]
        /\ next' = [next EXCEPT ![p] = IF Mode[p] = "tail" THEN FirstHeight(h) ELSE h]
        /\ base' = [base EXCEPT ![p] = IF ShortOutage(p) THEN @ ELSE FirstHeight(h)]
  BY DEF Locate
<1>3. /\ pc' = [pc EXCEPT ![p] = "next"] /\ pc[p] = "latest"
      /\ UNCHANGED <<todo, class, id, satCache, starts>>
  BY DEF Locate, Goto
<1>4. h \in 0..height /\ (Mode[p] = "tail" => h = height)
  BY <1>1
<1>5. FirstHeight(h) \in 0..(h + 1) /\ (FirstHeight(h) = 0 \/ FirstHeight(h) = h - Lookback + 1)
  BY <1>1, <1>4, Constants DEF FirstHeight, MaxOf
<1>6. Local'
  BY <1>1, <1>2, <1>3, <1>4, <1>5 DEF TailInv, Local, Phases
<1>7. /\ pc'[p] = "next" /\ known'[p] = h /\ told'[p] = h /\ todo'[p] = todo[p]
      /\ next'[p] = IF Mode[p] = "tail" THEN FirstHeight(h) ELSE h
      /\ base'[p] = IF ShortOutage(p) THEN base[p] ELSE FirstHeight(h)
  BY <1>2, <1>3 DEF TailInv, Local
<1>8. Placed(p)'
  <2>1. known'[p] \in -1..height' /\ told'[p] \in -1..height' /\ next'[p] \in -1..(height' + 1)
    BY <1>1, <1>4, <1>5, <1>7
  <2>2. /\ Mode[p] = "tail" => next'[p] >= 0
        /\ Mode[p] # "tail" => next'[p] <= height'
        /\ todo'[p] = <<>>
    BY <1>1, <1>3, <1>4, <1>5, <1>7 DEF TailInv, Placed, Busy
  <2>3. QED BY <1>7, <2>1, <2>2 DEF Placed, Busy
<1>9. Informed(p)'
  BY <1>1, <1>3, <1>7 DEF TailInv, Informed
<1>10. Gapless(p)'
  <2> SUFFICES ASSUME Mode[p] = "tail", NEW g \in base'[p]..(next'[p] - 1)
               PROVE  g \in Passed'
    BY DEF Gapless
  <2>1. next'[p] = FirstHeight(h) /\ h = height /\ base[p] \in Nat
    BY <1>4, <1>7 DEF TailInv, Local
  <2>2. ShortOutage(p) /\ base'[p] = base[p]
    BY <1>5, <1>7, <2>1
  <2>3. g \in base[p]..height /\ ~(g > height - Lookback)
    BY <1>1, <1>5, <2>1, <2>2, Constants
  <2>4. QED BY <1>1, <2>2, <2>3 DEF ShortOutage, Passed
<1>11. \A q \in Procs \ {p} : ProcUnchanged(q)
  BY <1>2, <1>3 DEF TailInv, Local, ProcUnchanged
<1>12. Grows
  BY <1>1 DEF Grows, Accounted, Passed
<1>13. QED BY <1>1, <1>6, <1>8, <1>9, <1>10, <1>11, <1>12 DEF StepGood

\* A process that goes nowhere, or leaves for good, without a block in hand.
LEMMA IdleGood ==
    ASSUME TailInv, NEW p \in Procs, pc' \in [Procs -> Phases],
           \A q \in Procs \ {p} : pc'[q] = pc[q],
           \/ pc'[p] = "off" /\ pc[p] \notin Busy
           \/ pc'[p] = pc[p],
           UNCHANGED <<height, redis, scripts>>, Fault \/ UNCHANGED faults,
           UNCHANGED <<known, next, todo, class, id, satCache, told, starts, history>>
    PROVE  StepGood(p)
<1>1. /\ StoreTyped' /\ Existing' = Existing /\ (\A s : OnSat(s)' = OnSat(s))
      /\ height' = height /\ height \in Heights /\ height \in Nat
      /\ UNCHANGED <<indexed, errored, lost, wiped, stale, done, unread, base>>
  BY StoreStays, Constants DEF TailInv, StoreTyped, redis, scripts, history
<1>2. Local'
  BY <1>1 DEF TailInv, Local
<1>3. Placed(p)' /\ Informed(p)' /\ Gapless(p)'
  <2>1. CASE pc'[p] = "off" /\ pc[p] \notin Busy
    BY <1>1, <2>1 DEF TailInv, Placed, Informed, Gapless, Passed, Busy
  <2>2. CASE pc'[p] = pc[p]
    <3>1. ProcUnchanged(p) /\ Grows
      BY <1>1, <2>2 DEF ProcUnchanged, Grows, Accounted, Passed
    <3>2. QED BY <1>1, <3>1, ProcStays DEF TailInv
  <2>3. QED BY <2>1, <2>2
<1>4. \A q \in Procs \ {p} : ProcUnchanged(q)
  BY <1>1 DEF ProcUnchanged
<1>5. Grows
  BY <1>1 DEF Grows, Accounted, Passed
<1>6. QED BY <1>1, <1>2, <1>3, <1>4, <1>5 DEF StepGood

LEMMA LocateFailsGood ==
    ASSUME TailInv, NEW p \in Procs, LocateFails(p)
    PROVE  StepGood(p)
<1>1. /\ pc' = [pc EXCEPT ![p] = "off"] /\ pc[p] = "latest" /\ Fault
      /\ UNCHANGED <<height, redis, scripts>>
      /\ UNCHANGED <<known, next, todo, class, id, satCache, told, starts, history>>
  BY DEF LocateFails, Goto
<1>2. pc' \in [Procs -> Phases] /\ pc'[p] = "off" /\ pc[p] \notin Busy
        /\ \A q \in Procs \ {p} : pc'[q] = pc[q]
  BY <1>1 DEF TailInv, Local, Phases, Busy
<1>3. QED BY <1>1, <1>2, IdleGood

LEMMA PollGood ==
    ASSUME TailInv, NEW p \in Procs, Poll(p)
    PROVE  StepGood(p)
<1>1. /\ StoreTyped' /\ Existing' = Existing /\ (\A s : OnSat(s)' = OnSat(s))
      /\ height' = height /\ height \in Heights /\ height \in Nat
      /\ UNCHANGED <<indexed, errored, lost, wiped, stale, done, unread, base>>
  BY StoreStays, Constants DEF TailInv, StoreTyped, Poll, storeVars, redis, scripts, history
<1>2. /\ known' = [known EXCEPT ![p] = height]
      /\ UNCHANGED <<pc, next, todo, class, id, satCache, told, starts>>
  BY DEF Poll
<1>3. known' \in [Procs -> Int] /\ known'[p] = height
        /\ \A q \in Procs \ {p} : known'[q] = known[q]
  BY <1>1, <1>2 DEF TailInv, Local
<1>4. Local'
  BY <1>1, <1>2, <1>3 DEF TailInv, Local
<1>5. Placed(p)'
  <2>1. /\ Placed(p) /\ InHand(p)' = InHand(p) /\ InBlock(next[p])' = InBlock(next[p])
        /\ Accounted' = Accounted /\ height \in -1..height
    BY <1>1, <1>2 DEF TailInv, InHand, InBlock, Accounted
  <2>2. QED BY <1>1, <1>2, <1>3, <2>1 DEF Placed
<1>6. Informed(p)' /\ Gapless(p)'
  BY <1>1, <1>2 DEF TailInv, Informed, Gapless, Passed, Current, TrueId
<1>7. \A q \in Procs \ {p} : ProcUnchanged(q)
  BY <1>1, <1>2, <1>3 DEF ProcUnchanged
<1>8. Grows
  BY <1>1 DEF Grows, Accounted, Passed
<1>9. QED BY <1>1, <1>4, <1>5, <1>6, <1>7, <1>8 DEF StepGood

\* The ids of a block are known.
LEMMA ResolvedGood ==
    ASSUME TailInv, NEW p \in Procs, pc[p] \in {"next", "list"}, next[p] \in 0..height, Resolved(p),
           UNCHANGED <<storeVars, known, class, id, satCache, told, starts, unread, base, stale, lost>>
    PROVE  StepGood(p)
<1>1. /\ StoreTyped' /\ Existing' = Existing /\ (\A s : OnSat(s)' = OnSat(s))
      /\ height' = height /\ height \in Heights /\ height \in Nat
      /\ UNCHANGED <<indexed, errored, lost, wiped, stale, base, unread>>
  BY StoreStays, Constants DEF TailInv, StoreTyped, storeVars, redis, scripts
<1>2. /\ todo' = [todo EXCEPT ![p] = Blocks[next[p] + 1]]
      /\ UNCHANGED <<known, class, id, satCache, told, starts>>
      /\ Placed(p) /\ Informed(p) /\ Gapless(p)
  BY DEF Resolved, TailInv
<1>4. /\ Blocks[next[p] + 1] \in Seq(Inscriptions)
      /\ InBlock(next[p]) \subseteq Existing
      /\ InBlock(next[p]) = {Blocks[next[p] + 1][k] : k \in DOMAIN Blocks[next[p] + 1]}
  BY <1>1, ExistingInscriptions DEF InBlock
<1>5. /\ todo' \in [Procs -> Seq(Inscriptions)] /\ todo'[p] = Blocks[next[p] + 1]
      /\ \A q \in Procs \ {p} : todo'[q] = todo[q]
  BY <1>2, <1>4 DEF TailInv, Local
<1>6. Accounted' = Accounted
  BY <1>1 DEF Accounted
<1>7. CASE Blocks[next[p] + 1] = <<>>
  <2>1. BlockDone(p) /\ todo'[p] = <<>>
    BY <1>5, <1>7 DEF Resolved
  <2>2. Keeps(p) /\ satCache'[p] = satCache[p] /\ pc[p] \notin {"off", "latest"}
    BY <1>1, <1>2 DEF Keeps
  <2>3. /\ Placed(p)' /\ Informed(p)' /\ Gapless(p)'
        /\ pc' \in [Procs -> Phases] /\ next' \in [Procs -> Int]
        /\ done' \subseteq 0..height' /\ done' = done \cup {next[p]}
    BY <1>1, <1>2, <2>1, <2>2, BlockDoneKeeps DEF TailInv
  <2>4. Local'
    BY <1>1, <1>2, <1>5, <2>3 DEF TailInv, Local
  <2>5. InBlock(next[p]) = {}
    BY <1>4, <1>7
  <2>6. \A q \in Procs \ {p} : ProcUnchanged(q)
    BY <1>1, <1>2, <1>5, <2>1 DEF ProcUnchanged, BlockDone, NextBlock, Goto, TailInv, Local
  <2>7. Grows
    BY <1>1, <1>6, <2>3 DEF Grows, Passed
  <2>8. QED BY <1>1, <2>3, <2>4, <2>5, <2>6, <2>7 DEF StepGood
<1>8. CASE Blocks[next[p] + 1] # <<>>
  <2>1. pc' = [pc EXCEPT ![p] = "ask"] /\ UNCHANGED <<next, done>>
    BY <1>8 DEF Resolved, Goto
  <2>2. pc' \in [Procs -> Phases] /\ pc'[p] = "ask" /\ \A q \in Procs \ {p} : pc'[q] = pc[q]
    BY <2>1 DEF TailInv, Local, Phases
  <2>3. Local'
    BY <1>1, <1>2, <1>5, <2>1, <2>2 DEF TailInv, Local
  <2>4. Placed(p)'
    <3>1. InHand(p)' = InBlock(next[p])
      BY <1>4, <1>5 DEF InHand
    <3>2. InBlock(next[p])' = InBlock(next[p])
      BY <2>1 DEF InBlock
    <3>3. QED BY <1>1, <1>2, <1>5, <1>8, <2>1, <2>2, <3>1, <3>2 DEF Placed, Busy
  <2>5. Informed(p)'
    BY <1>1, <1>2, <2>2 DEF Informed
  <2>6. Gapless(p)'
    BY <1>1, <1>2, <2>1 DEF Gapless, Passed
  <2>7. \A q \in Procs \ {p} : ProcUnchanged(q)
    BY <1>1, <1>2, <1>5, <2>1, <2>2 DEF ProcUnchanged
  <2>8. Grows /\ \A h \in done' \ done : InBlock(h) \subseteq Accounted'
    BY <1>1, <1>6, <2>1 DEF Grows, Passed
  <2>9. QED BY <1>1, <2>3, <2>4, <2>5, <2>6, <2>7, <2>8 DEF StepGood
<1>9. QED BY <1>7, <1>8

LEMMA FetchBlockGood ==
    ASSUME TailInv, NEW p \in Procs, FetchBlock(p)
    PROVE  StepGood(p)
<1>1. /\ pc[p] = "next" /\ HasBlock(p) /\ Placed(p) /\ Informed(p) /\ Gapless(p)
      /\ UNCHANGED <<storeVars, known, class, id, satCache, told, starts, unread, base, stale, lost>>
      /\ height \in Heights /\ height \in Nat
  BY Constants DEF FetchBlock, TailInv, StoreTyped
<1>2. next[p] \in 0..height
  BY <1>1 DEF HasBlock, Placed, TailInv, Local
<1>3. CASE Resolved(p)
  BY <1>1, <1>2, <1>3, ResolvedGood
<1>4. CASE Goto(p, "list") /\ UNCHANGED <<todo, next, done>>
  <2>1. /\ StoreTyped' /\ Existing' = Existing /\ (\A s : OnSat(s)' = OnSat(s)) /\ height' = height
        /\ UNCHANGED <<indexed, errored, wiped>>
    BY <1>1, StoreStays DEF TailInv, StoreTyped, storeVars, redis, scripts
  <2>2. /\ pc' \in [Procs -> Phases] /\ pc'[p] = "list"
        /\ \A q \in Procs \ {p} : pc'[q] = pc[q]
    BY <1>4 DEF Goto, TailInv, Local, Phases
  <2>3. Local'
    BY <1>1, <1>4, <2>1, <2>2 DEF TailInv, Local
  <2>4. Placed(p)'
    BY <1>1, <1>2, <1>4, <2>1, <2>2 DEF Placed, Busy
  <2>5. Informed(p)' /\ Gapless(p)'
    BY <1>1, <1>4, <2>1, <2>2 DEF Informed, Gapless, Passed
  <2>6. Grows /\ \A q \in Procs \ {p} : ProcUnchanged(q)
    BY <1>1, <1>4, <2>1, <2>2 DEF Grows, Accounted, Passed, ProcUnchanged
  <2>7. QED BY <1>4, <2>1, <2>3, <2>4, <2>5, <2>6 DEF StepGood
<1>5. QED BY <1>3, <1>4 DEF FetchBlock

LEMMA ListBlockGood ==
    ASSUME TailInv, NEW p \in Procs, ListBlock(p)
    PROVE  StepGood(p)
<1>1. /\ pc[p] = "list" /\ Resolved(p) /\ next[p] \in 0..height
      /\ UNCHANGED <<storeVars, known, class, id, satCache, told, starts, unread, base, stale, lost>>
  BY DEF ListBlock, TailInv, Placed
<1>2. QED BY <1>1, ResolvedGood

\* A block whose list could not be read is passed over.
LEMMA ListFailsGood ==
    ASSUME TailInv, NEW p \in Procs, ListFails(p)
    PROVE  StepGood(p)
<1>1. /\ pc[p] = "list" /\ next[p] \in 0..height /\ todo[p] = <<>>
      /\ Placed(p) /\ Informed(p) /\ Gapless(p)
  BY DEF ListFails, TailInv, Placed, Busy
<1>2. /\ StoreTyped' /\ height' = height /\ height \in Heights /\ Existing' = Existing
      /\ UNCHANGED <<indexed, errored, wiped>>
  BY StoreStays DEF ListFails, TailInv, StoreTyped, redis, scripts
<1>3. /\ UNCHANGED <<known, todo, class, id, satCache, told, starts, done, base, stale, lost>>
      /\ unread' = unread \cup {next[p]} /\ NextBlock(p)
  BY DEF ListFails
<1>4. Keeps(p) /\ Passed \cup {next[p]} \subseteq Passed'
  BY <1>2, <1>3 DEF Keeps, Passed
<1>5. /\ Placed(p)' /\ Informed(p)' /\ Gapless(p)'
      /\ pc' \in [Procs -> Phases] /\ next' \in [Procs -> Int]
      /\ \A q \in Procs \ {p} : pc'[q] = pc[q] /\ next'[q] = next[q]
  BY <1>1, <1>2, <1>3, <1>4, NextBlockKeeps DEF TailInv
<1>6. Local'
  BY <1>1, <1>2, <1>3, <1>5 DEF TailInv, Local
<1>7. Grows /\ \A q \in Procs \ {p} : ProcUnchanged(q)
  BY <1>2, <1>3, <1>4, <1>5, Constants DEF Grows, Accounted, ProcUnchanged
<1>8. QED BY <1>2, <1>3, <1>5, <1>6, <1>7 DEF StepGood

LEMMA FetchFailsGood ==
    ASSUME TailInv, NEW p \in Procs, FetchFails(p)
    PROVE  StepGood(p)
<1>1. /\ UNCHANGED <<height, redis, scripts>> /\ Fault
      /\ UNCHANGED <<known, todo, class, id, satCache, told, starts, history>>
      /\ pc[p] = "next" /\ HasBlock(p)
      /\ IF Mode[p] = "tail" THEN UNCHANGED <<pc, next>> ELSE NextBlock(p)
  BY DEF FetchFails
<1>2. CASE Mode[p] = "tail"
  BY <1>1, <1>2, IdleGood DEF TailInv, Local
<1>3. CASE Mode[p] # "tail"
  <2>1. /\ StoreTyped' /\ Existing' = Existing /\ (\A s : OnSat(s)' = OnSat(s))
        /\ height' = height /\ height \in Heights /\ height \in Nat
        /\ UNCHANGED <<indexed, errored, lost, wiped, stale, done, unread, base>>
    BY <1>1, StoreStays, Constants DEF TailInv, StoreTyped, redis, scripts, history
  <2>2. /\ next' = [next EXCEPT ![p] = @ - 1]
        /\ pc' = [pc EXCEPT ![p] = IF Mode[p] = "block" \/ (Mode[p] = "reverse" /\ next[p] = 0)
                                   THEN "off" ELSE "next"]
    BY <1>1, <1>3 DEF NextBlock, Goto
  <2>3. /\ next' \in [Procs -> Int] /\ next'[p] = next[p] - 1 /\ next[p] \in 0..height
        /\ pc' \in [Procs -> Phases] /\ pc'[p] \in {"off", "next"}
        /\ \A q \in Procs \ {p} : pc'[q] = pc[q] /\ next'[q] = next[q]
    BY <1>1, <1>3, <2>1, <2>2 DEF TailInv, Local, Phases, HasBlock, Placed
  <2>4. Local'
    BY <1>1, <2>1, <2>3 DEF TailInv, Local
  <2>5. Placed(p)'
    BY <1>1, <1>3, <2>1, <2>3 DEF TailInv, Placed, Busy
  <2>6. Informed(p)' /\ Gapless(p)'
    BY <1>1, <1>3, <2>1, <2>3 DEF TailInv, Informed, Gapless, Passed
  <2>7. \A q \in Procs \ {p} : ProcUnchanged(q)
    BY <1>1, <2>1, <2>3 DEF ProcUnchanged
  <2>8. Grows
    BY <2>1 DEF Grows, Accounted, Passed
  <2>9. QED BY <2>1, <2>4, <2>5, <2>6, <2>7, <2>8 DEF StepGood
<1>4. QED BY <1>2, <1>3

LEMMA CurrentExists ==
    ASSUME height \in Heights, Local, NEW p \in Procs, Placed(p), pc[p] \in Busy
    PROVE  /\ Current(p) \in Existing /\ Current(p) \in Inscriptions
           /\ Current(p) \in InHand(p)
           /\ SatOf[Current(p)] \in Sats
           /\ todo[p] \in Seq(Inscriptions) /\ todo[p] # <<>>
<1>1. todo[p] \in Seq(Inscriptions) /\ todo[p] # <<>>
  BY DEF Local, Placed
<1>2. Current(p) \in InHand(p) /\ Current(p) \in Inscriptions
  BY <1>1, HeadAndTail DEF Current, InHand
<1>3. InHand(p) \subseteq Existing
  BY ExistingInscriptions DEF Placed
<1>4. QED BY <1>1, <1>2, <1>3, ExistingInscriptions

\* A process that goes on with the inscription in hand.
LEMMA GoesOn ==
    ASSUME height \in Heights, Local, NEW p \in Procs, Placed(p), Gapless(p),
           pc[p] \in Busy, NEW phase \in Busy, Goto(p, phase), Keeps(p), UNCHANGED <<todo, next, done, unread>>,
           Accounted \subseteq Accounted'
    PROVE  /\ Placed(p)' /\ Gapless(p)'
           /\ pc' \in [Procs -> Phases] /\ pc'[p] = phase
           /\ \A q \in Procs \ {p} : pc'[q] = pc[q]
<1>1. /\ pc' \in [Procs -> Phases] /\ pc'[p] = phase
      /\ \A q \in Procs \ {p} : pc'[q] = pc[q]
  BY DEF Goto, Local, Phases, Busy
<1>2. InHand(p)' = InHand(p) /\ InBlock(next[p])' = InBlock(next[p])
  BY DEF InHand, InBlock
<1>3. Placed(p)'
  BY <1>1, <1>2 DEF Placed, Keeps
<1>4. Gapless(p)'
  BY <1>1 DEF Gapless, Keeps, Busy, Passed
<1>5. QED BY <1>1, <1>3, <1>4

LEMMA IdentifyKeeps ==
    ASSUME height \in Heights, Local, NEW p \in Procs, Placed(p), pc[p] \in Busy,
           NEW listed \in Int, Identify(p, listed), todo' = todo
    PROVE  /\ id' \in [Procs -> ResourceIds \cup {None}]
           /\ stale \subseteq stale' /\ stale' \subseteq Existing
           /\ id'[p] \in ResourceIds
           /\ Current(p) \notin stale' => id'[p] = TrueId(Current(p))
           /\ Position[Current(p)] < listed => id'[p] = TrueId(Current(p))
           /\ \A q \in Procs \ {p} : id'[q] = id[q]
           /\ Goto(p, "test")
<1>1. Current(p) \in Existing
  BY CurrentExists
<1>2. /\ ResourceId(Current(p), listed) \in ResourceIds
      /\ Position[Current(p)] < listed => ResourceId(Current(p), listed) = TrueId(Current(p))
  BY <1>1, IdFromList
<1>3. id'[p] = ResourceId(Current(p), listed) /\ id' \in [Procs -> ResourceIds \cup {None}]
        /\ \A q \in Procs \ {p} : id'[q] = id[q]
  BY <1>2 DEF Identify, Local
<1>4. /\ stale \subseteq stale' /\ stale' \subseteq Existing
      /\ Current(p) \notin stale' => Position[Current(p)] < listed
  BY <1>1 DEF Identify, Local
<1>5. QED BY <1>2, <1>3, <1>4 DEF Identify

LEMMA AskGood ==
    ASSUME TailInv, NEW p \in Procs, Ask(p)
    PROVE  StepGood(p)
<1>1. /\ UNCHANGED <<height, redis, scripts>> /\ (Fault \/ UNCHANGED faults)
      /\ UNCHANGED <<known, next, todo, satCache, told, starts, done, unread, base, lost>>
      /\ pc[p] = "ask" /\ pc[p] \in Busy
      /\ \E metadata \in BOOLEAN : class' = [class EXCEPT ![p] = Class(Current(p), metadata)]
  BY DEF Ask, Busy
<1>2. /\ StoreTyped' /\ Existing' = Existing /\ (\A s : OnSat(s)' = OnSat(s))
      /\ height' = height /\ height \in Heights /\ height \in Nat
      /\ UNCHANGED <<indexed, errored, wiped>>
      /\ Local /\ Placed(p) /\ Gapless(p) /\ Informed(p)
  BY <1>1, StoreStays, Constants DEF TailInv, StoreTyped, redis, scripts
<1>3. /\ class' \in [Procs -> {"plus", "other"}]
      /\ \A q \in Procs \ {p} : class'[q] = class[q]
  BY <1>1, <1>2 DEF Local, Class
<1>4. Keeps(p) /\ Accounted' = Accounted
  BY <1>1, <1>2 DEF Keeps, Accounted
<1>5. CASE List(p) = NoList /\ Goto(p, "sat") /\ UNCHANGED <<id, stale>>
  <2>1. /\ Placed(p)' /\ Gapless(p)'
        /\ pc' \in [Procs -> Phases] /\ pc'[p] = "sat"
        /\ \A q \in Procs \ {p} : pc'[q] = pc[q]
    BY <1>1, <1>2, <1>4, <1>5, GoesOn DEF Busy
  <2>2. Informed(p)'
    BY <1>1, <1>2, <2>1 DEF Informed
  <2>3. Local'
    BY <1>1, <1>2, <1>3, <1>5, <2>1 DEF Local
  <2>4. Grows /\ \A q \in Procs \ {p} : ProcUnchanged(q)
    BY <1>1, <1>2, <1>3, <1>5, <2>1 DEF Grows, Accounted, Passed, ProcUnchanged
  <2>5. QED BY <1>1, <1>2, <2>1, <2>2, <2>3, <2>4 DEF StepGood
<1>6. CASE List(p) # NoList /\ Identify(p, List(p))
  <2>1. SatOf[Current(p)] \in Sats
    BY <1>1, <1>2, CurrentExists
  <2>2. List(p) \in Int
    BY <1>2, <2>1 DEF List, Local
  <2>3. /\ id' \in [Procs -> ResourceIds \cup {None}]
        /\ stale \subseteq stale' /\ stale' \subseteq Existing
        /\ id'[p] \in ResourceIds
        /\ Current(p) \notin stale' => id'[p] = TrueId(Current(p))
        /\ \A q \in Procs \ {p} : id'[q] = id[q]
        /\ Goto(p, "test")
    BY <1>1, <1>2, <1>6, <2>2, IdentifyKeeps
  <2>4. /\ Placed(p)' /\ Gapless(p)'
        /\ pc' \in [Procs -> Phases] /\ pc'[p] = "test"
        /\ \A q \in Procs \ {p} : pc'[q] = pc[q]
    BY <1>1, <1>2, <1>4, <2>3, GoesOn DEF Busy
  <2>5. Informed(p)'
    BY <1>1, <1>2, <2>3 DEF Informed, Current, TrueId
  <2>6. Local'
    BY <1>1, <1>2, <1>3, <2>3, <2>4 DEF Local
  <2>7. Grows /\ \A q \in Procs \ {p} : ProcUnchanged(q)
    BY <1>1, <1>2, <1>3, <2>3, <2>4 DEF Grows, Accounted, Passed, ProcUnchanged
  <2>8. QED BY <1>1, <1>2, <2>4, <2>5, <2>6, <2>7 DEF StepGood
<1>7. QED BY <1>5, <1>6 DEF Ask

LEMMA ReadSatGood ==
    ASSUME TailInv, NEW p \in Procs, ReadSat(p)
    PROVE  StepGood(p)
<1> DEFINE sat == SatOf[Current(p)]
<1>1. /\ UNCHANGED <<height, redis, scripts, faults>>
      /\ UNCHANGED <<known, next, todo, class, told, starts, done, unread, base, lost>>
      /\ pc[p] = "sat" /\ pc[p] \in Busy
      /\ satCache' = [satCache EXCEPT ![p][sat] = OnSat(sat)]
      /\ Identify(p, OnSat(sat))
  BY DEF ReadSat, storeVars, Busy
<1>2. /\ StoreTyped' /\ Existing' = Existing /\ (\A s : OnSat(s)' = OnSat(s))
      /\ height' = height /\ height \in Heights /\ height \in Nat
      /\ UNCHANGED <<indexed, errored, wiped>>
      /\ Local /\ Placed(p) /\ Gapless(p) /\ Informed(p)
  BY <1>1, StoreStays, Constants DEF TailInv, StoreTyped, redis, scripts
<1>3. Keeps(p) /\ Accounted' = Accounted
  BY <1>1, <1>2 DEF Keeps, Accounted
<1>4. sat \in Sats /\ \A s : OnSat(s) \in Nat
  BY <1>1, <1>2, CurrentExists, ExistingInscriptions
<1>5. /\ id' \in [Procs -> ResourceIds \cup {None}]
      /\ stale \subseteq stale' /\ stale' \subseteq Existing
      /\ id'[p] \in ResourceIds
      /\ Current(p) \notin stale' => id'[p] = TrueId(Current(p))
      /\ \A q \in Procs \ {p} : id'[q] = id[q]
      /\ Goto(p, "test")
  BY <1>1, <1>2, <1>4, IdentifyKeeps
<1>6. /\ Placed(p)' /\ Gapless(p)'
      /\ pc' \in [Procs -> Phases] /\ pc'[p] = "test"
      /\ \A q \in Procs \ {p} : pc'[q] = pc[q]
  BY <1>1, <1>2, <1>3, <1>5, GoesOn DEF Busy
<1> HIDE DEF sat
<1>7. /\ satCache' \in [Procs -> [Sats -> Int]]
      /\ \A q \in Procs \ {p} : satCache'[q] = satCache[q]
      /\ \A s \in Sats : satCache'[p][s] = IF s = sat THEN OnSat(s) ELSE satCache[p][s]
  BY <1>1, <1>2, <1>4 DEF Local
<1>8. Informed(p)'
  BY <1>1, <1>2, <1>4, <1>5, <1>7 DEF Informed, Current, TrueId
<1>9. Local'
  BY <1>1, <1>2, <1>5, <1>6, <1>7 DEF Local
<1>10. Grows /\ \A q \in Procs \ {p} : ProcUnchanged(q)
  BY <1>1, <1>2, <1>5, <1>6, <1>7 DEF Grows, Accounted, Passed, ProcUnchanged
<1>11. QED BY <1>1, <1>2, <1>6, <1>8, <1>9, <1>10 DEF StepGood

LEMMA ReadSatFailsGood ==
    ASSUME TailInv, NEW p \in Procs, ReadSatFails(p)
    PROVE  StepGood(p)
<1>1. /\ UNCHANGED <<height, redis, scripts>> /\ Fault
      /\ UNCHANGED <<known, next, todo, class, id, satCache, told, starts, done, unread, base, lost, stale>>
      /\ pc[p] = "sat" /\ pc[p] \in Busy /\ Goto(p, "report")
  BY DEF ReadSatFails, history, Busy
<1>2. /\ StoreTyped' /\ Existing' = Existing /\ (\A s : OnSat(s)' = OnSat(s))
      /\ height' = height /\ height \in Heights /\ height \in Nat
      /\ UNCHANGED <<indexed, errored, wiped>>
      /\ Local /\ Placed(p) /\ Gapless(p) /\ Informed(p)
  BY <1>1, StoreStays, Constants DEF TailInv, StoreTyped, redis, scripts
<1>3. Keeps(p) /\ Accounted' = Accounted
  BY <1>1, <1>2 DEF Keeps, Accounted
<1>4. /\ Placed(p)' /\ Gapless(p)'
      /\ pc' \in [Procs -> Phases] /\ pc'[p] = "report"
      /\ \A q \in Procs \ {p} : pc'[q] = pc[q]
  BY <1>1, <1>2, <1>3, GoesOn DEF Busy
<1>5. Informed(p)' /\ Local'
  BY <1>1, <1>2, <1>4 DEF Informed, Local
<1>6. Grows /\ \A q \in Procs \ {p} : ProcUnchanged(q)
  BY <1>1, <1>2, <1>4 DEF Grows, Accounted, Passed, ProcUnchanged
<1>7. QED BY <1>1, <1>2, <1>4, <1>5, <1>6 DEF StepGood

\* A process that is done with the inscription in hand.
LEMMA AdvanceGood ==
    ASSUME TailInv, NEW p \in Procs, pc[p] \in Busy, Advance(p), StoreTyped',
           UNCHANGED <<height, known, satCache, told, starts, unread, base, stale>>,
           Accounted \subseteq Accounted', lost' \subseteq Existing, Current(p) \in Accounted'
    PROVE  StepGood(p)
<1>1. /\ height \in Heights /\ height \in Nat /\ Existing' = Existing
      /\ Local /\ Placed(p) /\ Gapless(p) /\ Informed(p)
  BY Constants DEF TailInv, StoreTyped, Existing, InBlock
<1>2. Keeps(p)
  BY DEF Keeps
<1>3. /\ Placed(p)' /\ Informed(p)' /\ Gapless(p)'
      /\ pc' \in [Procs -> Phases] /\ next' \in [Procs -> Int]
      /\ todo' \in [Procs -> Seq(Inscriptions)]
      /\ class' \in [Procs -> {"plus", "other"}]
      /\ id' \in [Procs -> ResourceIds \cup {None}]
      /\ done' \subseteq 0..height' /\ done \subseteq done'
      /\ \A h \in done' \ done : InBlock(h) \subseteq Accounted'
  BY <1>1, <1>2, AdvanceKeeps
<1>4. Local'
  BY <1>1, <1>3 DEF Local
<1>5. \A q \in Procs \ {p} : ProcUnchanged(q)
  BY <1>1 DEF ProcUnchanged, Advance, BlockDone, NextBlock, Goto, Forgets, Local
<1>6. Grows
  <2>1. Passed \subseteq Passed'
    BY <1>3 DEF Passed
  <2>2. QED BY <1>1, <2>1 DEF Grows
<1>7. QED BY <1>3, <1>4, <1>5, <1>6 DEF StepGood

LEMMA TestGood ==
    ASSUME TailInv, NEW p \in Procs, Test(p)
    PROVE  StepGood(p)
<1>1. /\ UNCHANGED <<height, redis, scripts, faults>>
      /\ UNCHANGED <<known, satCache, told, starts, unread, base, stale, lost>>
      /\ pc[p] = "test" /\ pc[p] \in Busy
  BY DEF Test, storeVars, Busy
<1>2. /\ StoreTyped' /\ Existing' = Existing /\ (\A s : OnSat(s)' = OnSat(s))
      /\ height' = height /\ height \in Heights /\ height \in Nat
      /\ UNCHANGED <<indexed, errored, wiped>>
      /\ Local /\ Placed(p) /\ Gapless(p) /\ Informed(p)
  BY <1>1, StoreStays, Constants DEF TailInv, StoreTyped, redis, scripts
<1>3. CASE Current(p) \in indexed
  <2>1. Current(p) \in Accounted' /\ Accounted \subseteq Accounted' /\ lost' \subseteq Existing
    BY <1>1, <1>2, <1>3 DEF Accounted, Local
  <2>2. Advance(p)
    BY <1>3 DEF Test
  <2>3. QED BY <1>1, <1>2, <2>1, <2>2, AdvanceGood
<1>4. CASE Goto(p, "store") /\ UNCHANGED <<todo, next, class, id, done>>
  <2>1. Keeps(p) /\ Accounted' = Accounted
    BY <1>1, <1>2 DEF Keeps, Accounted
  <2>2. /\ Placed(p)' /\ Gapless(p)'
        /\ pc' \in [Procs -> Phases] /\ pc'[p] = "store"
        /\ \A q \in Procs \ {p} : pc'[q] = pc[q]
    BY <1>1, <1>2, <1>4, <2>1, GoesOn DEF Busy
  <2>3. Informed(p)' /\ Local'
    BY <1>1, <1>2, <1>4, <2>2 DEF Informed, Local, Current, TrueId
  <2>4. Grows /\ \A q \in Procs \ {p} : ProcUnchanged(q)
    BY <1>1, <1>2, <1>4, <2>2 DEF Grows, Accounted, Passed, ProcUnchanged
  <2>5. QED BY <1>2, <1>4, <2>2, <2>3, <2>4 DEF StepGood
<1>5. QED BY <1>3, <1>4 DEF Test

LEMMA StoreGood ==
    ASSUME TailInv, NEW p \in Procs, Store(p)
    PROVE  StepGood(p)
<1>1. /\ UNCHANGED <<height, faults, known, satCache, told, starts, unread, base, stale, lost>>
      /\ pc[p] = "store" /\ pc[p] \in Busy
      /\ StoreMulti(Current(p), class[p], id[p]) /\ Advance(p)
      /\ height \in Heights /\ Local /\ Placed(p) /\ Informed(p)
  BY DEF Store, Busy, TailInv, StoreTyped
<1>2. Current(p) \in Existing /\ Current(p) \in Inscriptions /\ id[p] \in ResourceIds /\ Existing' = Existing
  BY <1>1, CurrentExists DEF Informed, Existing, InBlock
<1>3. /\ indexed' = indexed \cup {Current(p)} /\ UNCHANGED <<errored, manual, reset, runs, wiped>>
      /\ torn' \subseteq torn \cup {Current(p)}
      /\ resources' \subseteq resources \cup {id[p]}
      /\ others' \subseteq others \cup {Current(p)}
      /\ \/ details' = details
         \/ details' = Described(Current(p), id[p])
  BY <1>1 DEF StoreMulti, scripts
<1>4. /\ DOMAIN details' \subseteq Existing
      /\ \A i \in DOMAIN details' : details'[i] \in ResourceIds
  BY <1>2, <1>3 DEF Described, TailInv, StoreTyped
<1>5. StoreTyped'
  BY <1>1, <1>2, <1>3, <1>4 DEF TailInv, StoreTyped
<1>6. Current(p) \in Accounted' /\ Accounted \subseteq Accounted' /\ lost' \subseteq Existing
  BY <1>1, <1>3 DEF Accounted, Local
<1>7. QED BY <1>1, <1>3, <1>5, <1>6, AdvanceGood

LEMMA ReportGood ==
    ASSUME TailInv, NEW p \in Procs, Report(p)
    PROVE  StepGood(p)
<1>1. /\ UNCHANGED <<height, faults, known, satCache, told, starts, unread, base, stale, lost>>
      /\ pc[p] = "report" /\ pc[p] \in Busy
      /\ StoreError(Current(p)) /\ Advance(p)
      /\ height \in Heights /\ Local /\ Placed(p)
  BY DEF Report, Busy, TailInv, StoreTyped
<1>2. Current(p) \in Existing /\ Existing' = Existing
  BY <1>1, CurrentExists DEF Existing, InBlock
<1>3. /\ errored' = errored \cup {Current(p)}
      /\ UNCHANGED <<indexed, resources, details, others, manual, reset, runs, torn, wiped>>
  BY <1>1 DEF StoreError, scripts
<1>4. StoreTyped'
  BY <1>1, <1>2, <1>3 DEF TailInv, StoreTyped
<1>5. Current(p) \in Accounted' /\ Accounted \subseteq Accounted' /\ lost' \subseteq Existing
  BY <1>1, <1>3 DEF Accounted, Local
<1>6. QED BY <1>1, <1>3, <1>4, <1>5, AdvanceGood

LEMMA SkipGood ==
    ASSUME TailInv, NEW p \in Procs, Skip(p)
    PROVE  StepGood(p)
<1>1. /\ UNCHANGED <<height, redis, scripts>> /\ Fault
      /\ UNCHANGED <<known, satCache, told, starts, unread, base, stale>>
      /\ pc[p] \in Busy /\ Advance(p) /\ lost' = lost \cup {Current(p)}
      /\ height \in Heights /\ Local /\ Placed(p)
  BY DEF Skip, Busy, TailInv, StoreTyped
<1>2. StoreTyped' /\ UNCHANGED <<indexed, errored, wiped>>
  BY <1>1, StoreStays DEF TailInv, redis, scripts
<1>3. Current(p) \in Existing
  BY <1>1, CurrentExists
<1>4. Current(p) \in Accounted' /\ Accounted \subseteq Accounted' /\ lost' \subseteq Existing
  BY <1>1, <1>2, <1>3 DEF Accounted, Local
<1>5. QED BY <1>1, <1>2, <1>4, AdvanceGood

LEMMA ExitGood ==
    ASSUME TailInv, NEW p \in Procs, Exit(p)
    PROVE  StepGood(p)
<1>1. /\ StoreTyped' /\ Existing' = Existing /\ (\A s : OnSat(s)' = OnSat(s))
      /\ height' = height /\ height \in Heights /\ height \in Nat
      /\ UNCHANGED <<indexed, errored, lost, wiped, stale, done, unread, base>>
  BY StoreStays, Constants DEF TailInv, StoreTyped, Exit, storeVars, redis, scripts, history
<1>2. /\ pc' = [pc EXCEPT ![p] = "off"]
      /\ todo' = [todo EXCEPT ![p] = <<>>]
      /\ class' = [class EXCEPT ![p] = "other"]
      /\ id' = [id EXCEPT ![p] = None]
      /\ satCache' = [satCache EXCEPT ![p] = NoCache]
      /\ UNCHANGED <<known, next, told, starts>>
  BY DEF Exit, Goto, Forgets
<1>3. NoCache \in [Sats -> Int] /\ \A s \in Sats : NoCache[s] = NoList
  BY DEF NoCache, NoList
<1>4. <<>> \in Seq(Inscriptions)
  OBVIOUS
<1>5. /\ pc' \in [Procs -> Phases] /\ pc'[p] = "off"
      /\ todo' \in [Procs -> Seq(Inscriptions)] /\ todo'[p] = <<>>
      /\ class' \in [Procs -> {"plus", "other"}]
      /\ id' \in [Procs -> ResourceIds \cup {None}]
      /\ satCache' \in [Procs -> [Sats -> Int]] /\ satCache'[p] = NoCache
  BY <1>2, <1>3, <1>4 DEF TailInv, Local, Phases
<1>6. Local'
  BY <1>1, <1>2, <1>5 DEF TailInv, Local
<1>7. Placed(p)'
  BY <1>1, <1>2, <1>5 DEF TailInv, Placed, Busy
<1>8. Informed(p)' /\ Gapless(p)'
  BY <1>3, <1>5 DEF Informed, Gapless, Passed
<1>9. \A q \in Procs \ {p} : ProcUnchanged(q)
  BY <1>1, <1>2 DEF ProcUnchanged, TailInv, Local
<1>10. Grows
  BY <1>1 DEF Grows, Accounted, Passed
<1>11. QED BY <1>1, <1>6, <1>7, <1>8, <1>9, <1>10 DEF StepGood

LEMMA CacheExpiresGood ==
    ASSUME TailInv, NEW p \in Procs, CacheExpires(p)
    PROVE  StepGood(p)
<1>1. /\ StoreTyped' /\ Existing' = Existing /\ (\A s : OnSat(s)' = OnSat(s))
      /\ height' = height /\ height \in Heights /\ height \in Nat
      /\ UNCHANGED <<indexed, errored, lost, wiped, stale, done, unread, base>>
  BY StoreStays, Constants DEF TailInv, StoreTyped, CacheExpires, storeVars, redis, scripts, history
<1>2. UNCHANGED <<pc, known, next, todo, class, id, told, starts>>
  BY DEF CacheExpires
<1>3. PICK s \in Sats : satCache' = [satCache EXCEPT ![p][s] = NoList]
  BY DEF CacheExpires
<1>4. /\ satCache' \in [Procs -> [Sats -> Int]]
      /\ \A q \in Procs \ {p} : satCache'[q] = satCache[q]
      /\ \A r \in Sats : satCache'[p][r] = IF r = s THEN NoList ELSE satCache[p][r]
  BY <1>3 DEF TailInv, Local, NoList
<1>5. Local'
  BY <1>1, <1>2, <1>4 DEF TailInv, Local
<1>6. Placed(p)'
  <2>1. /\ Placed(p) /\ InHand(p)' = InHand(p) /\ InBlock(next[p])' = InBlock(next[p])
        /\ Accounted' = Accounted
    BY <1>1, <1>2 DEF TailInv, InHand, InBlock, Accounted
  <2>2. QED BY <1>1, <1>2, <2>1 DEF Placed
<1>7. Informed(p)' /\ Gapless(p)'
  BY <1>1, <1>2, <1>4 DEF TailInv, Informed, Gapless, Passed, Current, TrueId
<1>8. \A q \in Procs \ {p} : ProcUnchanged(q)
  BY <1>1, <1>2, <1>4 DEF ProcUnchanged
<1>9. Grows
  BY <1>1 DEF Grows, Accounted, Passed
<1>10. QED BY <1>1, <1>5, <1>6, <1>7, <1>8, <1>9 DEF StepGood

ProcStep(p) == Step(p) \/ Fails(p) \/ Start(p) \/ Exit(p) \/ CacheExpires(p)

LEMMA StepsGood ==
    ASSUME TailInv, NEW p \in Procs, ProcStep(p)
    PROVE  StepGood(p)
BY StartGood, LocateGood, LocateFailsGood, PollGood, FetchBlockGood, FetchFailsGood,
   ListBlockGood, ListFailsGood, AskGood,
   ReadSatGood, ReadSatFailsGood, TestGood, StoreGood, ReportGood, SkipGood, ExitGood,
   CacheExpiresGood DEF ProcStep, Step, Fails

(***************************************************************************)
(* What a step of a process does to the store.                             *)
(***************************************************************************)
\* Only the store of an inscription in hand makes a member.
LEMMA StepStores ==
    ASSUME NEW p \in Procs, ProcStep(p)
    PROVE  /\ UNCHANGED <<height, manual, reset, runs, wiped>>
           /\ \/ UNCHANGED <<indexed, resources, details, others, torn>>
              \/ pc[p] = "store" /\ StoreMulti(Current(p), class[p], id[p])
BY DEF ProcStep, Step, Fails, Start, Locate, LocateFails, Poll, FetchBlock, ListBlock, FetchFails,
       ListFails, Ask, ReadSat, ReadSatFails, Test, Store, Report, Skip, Exit, CacheExpires,
       StoreMulti, StoreError, storeVars, redis, scripts

LEMMA ProcStepKeeps ==
    ASSUME TailInv, NEW p \in Procs, ProcStep(p)
    PROVE  TailInv'
<1>1. /\ Grows /\ StoreTyped' /\ Local'
      /\ \A q \in Procs \ {p} : ProcUnchanged(q)
      /\ Placed(p)' /\ Informed(p)' /\ Gapless(p)'
      /\ \A h \in done' \ done : InBlock(h) \subseteq Accounted'
  BY StepsGood DEF StepGood
<1>2. height \in Heights /\ Local /\ Accounted \subseteq Accounted'
  BY <1>1, GrowsOnChain DEF TailInv, StoreTyped
<1>3. \A q \in Procs : Placed(q)' /\ Informed(q)' /\ Gapless(q)'
  BY <1>1, <1>2, ProcStays DEF TailInv
<1>4. BlockDoneIsAccounted'
  <2>1. ASSUME NEW h \in done' PROVE InBlock(h) \subseteq Accounted'
    BY <1>1, <1>2 DEF TailInv, BlockDoneIsAccounted, Accounted
  <2>2. \A h : InBlock(h)' = InBlock(h)
    BY DEF InBlock
  <2>3. QED BY <2>1, <2>2 DEF BlockDoneIsAccounted, Accounted
<1>6. /\ UNCHANGED <<height, manual, reset, runs>>
      /\ \/ UNCHANGED <<indexed, resources, details, others, torn>>
         \/ pc[p] = "store" /\ StoreMulti(Current(p), class[p], id[p])
      /\ Existing' = Existing /\ stale \subseteq stale'
  BY <1>1, StepStores DEF Grows, Existing, InBlock
<1>7. IdsTrue'
  <2>1. ASSUME NEW i \in DOMAIN details', i \notin stale' PROVE details'[i] = TrueId(i)
    <3>1. CASE details' = details
      BY <1>6, <2>1, <3>1 DEF TailInv, IdsTrue
    <3>2. CASE pc[p] = "store" /\ details' = Described(Current(p), id[p])
      BY <1>6, <2>1, <3>2 DEF TailInv, IdsTrue, Informed, Described
    <3>3. QED BY <1>6, <3>1, <3>2 DEF StoreMulti
  <2>2. QED BY <1>6, <2>1 DEF TailInv, IdsTrue, TrueId
<1>8. TornOrListed'
  <2>1. CASE UNCHANGED <<indexed, resources, details, others, torn>>
    BY <1>6, <2>1 DEF TailInv, TornOrListed, Listed, DeletingLists
  <2>2. CASE pc[p] = "store" /\ StoreMulti(Current(p), class[p], id[p])
    <3>1. /\ indexed' = indexed \cup {Current(p)}
          /\ torn' = IF DeletingLists THEN torn \cup {Current(p)} ELSE torn
          /\ resources \subseteq resources' /\ others \subseteq others'
          /\ DeletingLists' = DeletingLists
      BY <1>6, <2>2 DEF StoreMulti, DeletingLists
    <3>2. ASSUME NEW i, i = Current(p) PROVE Listed(i)'
      BY <2>2, <3>2 DEF StoreMulti, Listed, Described
    <3>3. ASSUME NEW i \in indexed, i # Current(p), Listed(i) PROVE Listed(i)'
      BY <2>2, <3>1, <3>3 DEF StoreMulti, Listed, Described
    <3>4. \A i \in indexed' \ torn' : Listed(i)'
      BY <3>1, <3>2, <3>3 DEF TailInv, TornOrListed
    <3>5. DeletingLists' => indexed' \subseteq torn'
      BY <3>1 DEF TailInv, TornOrListed
    <3>6. QED BY <3>4, <3>5 DEF TornOrListed, Listed
  <2>3. QED BY <1>6, <2>1, <2>2
<1>9. QED BY <1>1, <1>3, <1>4, <1>7, <1>8 DEF TailInv

(***************************************************************************)
(* The scripts, and the chain.                                             *)
(***************************************************************************)
\* A step that moves no process, and takes nothing back that was accounted for.
LEMMA BystandersKeep ==
    ASSUME TailInv, Grows, UNCHANGED procVars, UNCHANGED starts, UNCHANGED history, StoreTyped'
    PROVE  /\ Local'
           /\ \A p \in Procs : Placed(p)' /\ Informed(p)' /\ Gapless(p)'
           /\ BlockDoneIsAccounted'
<1>1. UNCHANGED <<pc, known, next, told, todo, class, id, satCache, starts, done, unread, base,
                  stale, lost>>
  BY DEF procVars, history
<1>2. /\ 0..height \subseteq 0..height' /\ Existing \subseteq Existing' /\ Accounted \subseteq Accounted'
  BY GrowsOnChain DEF TailInv, StoreTyped
<1>3. Local'
  BY <1>1, <1>2 DEF TailInv, Local
<1>4. \A p \in Procs : Placed(p)' /\ Informed(p)' /\ Gapless(p)'
  BY <1>1, ProcStays DEF TailInv, StoreTyped, ProcUnchanged
<1>5. BlockDoneIsAccounted'
  BY <1>1, <1>2 DEF TailInv, BlockDoneIsAccounted, Accounted, InBlock
<1>6. QED BY <1>3, <1>4, <1>5

LEMMA GrowKeeps ==
    ASSUME TailInv, Grow
    PROVE  TailInv'
<1>1. /\ height' \in Heights /\ height' = height + 1 /\ height \in Nat
      /\ UNCHANGED <<indexed, errored, resources, details, others, faults, manual, reset, runs, torn,
                     wiped>>
      /\ UNCHANGED <<done, unread, base, stale, lost>>
  BY Constants DEF Grow, NewBlock, redis, scripts, history, TailInv, StoreTyped
<1>2. Grows
  BY <1>1 DEF Grows, Accounted, Passed
<1>3. Existing \subseteq Existing'
  BY <1>2, GrowsOnChain DEF TailInv, StoreTyped
<1>4. StoreTyped'
  BY <1>1, <1>3 DEF TailInv, StoreTyped
<1>5. /\ Local'
      /\ \A p \in Procs : Placed(p)' /\ Informed(p)' /\ Gapless(p)'
      /\ BlockDoneIsAccounted'
  BY <1>2, <1>4, BystandersKeep DEF Grow
<1>7. IdsTrue'
  BY <1>1, <1>3 DEF TailInv, IdsTrue, TrueId
<1>8. TornOrListed'
  BY <1>1 DEF TailInv, TornOrListed, Listed, DeletingLists
<1>9. QED BY <1>4, <1>5, <1>7, <1>8 DEF TailInv

LEMMA ManualKeeps ==
    ASSUME TailInv, Manual, UNCHANGED procVars, UNCHANGED starts, UNCHANGED history
    PROVE  TailInv'
<1>1. /\ height' = height /\ height \in Heights /\ height \in Nat /\ Existing' = Existing
      /\ UNCHANGED <<indexed, errored, reset, wiped>>
      /\ UNCHANGED <<done, unread, base, stale, lost>>
      /\ ManualDescribe \/ torn' = torn
  BY Constants DEF Manual, ManualStart, ManualAdd, ManualDescribe, ManualPush, ManualFails, redis,
                   history, TailInv, StoreTyped, Existing, InBlock
<1>2. Grows
  BY <1>1 DEF Grows, Accounted, Passed
<1>3. /\ Idle.at = "off"
      /\ Idle \in [at : {"off", "sAdd", "hSet", "lPush"}, of : Inscriptions \cup {NoInscription},
                   class : {"plus", "other"}, id : ResourceIds \cup {None}]
  BY DEF Idle, None
<1>4. ASSUME NEW i \in Inscriptions, ManualStart(i)
      PROVE  StoreTyped' /\ IdsTrue' /\ TornOrListed'
  <2>1. PICK metadata \in BOOLEAN :
          /\ IF metadata THEN UNCHANGED faults ELSE Fault
          /\ manual' = [at |-> IF Class(i, metadata) = "plus" THEN "sAdd" ELSE "lPush",
                        of |-> i, class |-> Class(i, metadata), id |-> ResourceId(i, OnSat(SatOf[i]))]
    BY <1>4 DEF ManualStart
  <2>2. /\ UNCHANGED <<resources, details, others, torn>> /\ i \in Existing
        /\ runs' \in 0..MaxScripts /\ faults' \in 0..MaxFaults
    BY <1>4, <2>1, Constants DEF ManualStart, redis, Fault, TailInv, StoreTyped
  <2>3. /\ ResourceId(i, OnSat(SatOf[i])) = TrueId(i)
        /\ TrueId(i) \in ResourceIds
    BY SMTT(30), <1>1, <2>2, ExistingInscriptions, IdFromList
  <2>4. StoreTyped'
    BY <1>1, <2>1, <2>2, <2>3 DEF TailInv, StoreTyped, Class
  <2>5. IdsTrue'
    BY <1>1, <2>1, <2>2, <2>3 DEF TailInv, IdsTrue, TrueId
  <2>6. TornOrListed'
    BY <1>1, <2>1, <2>2 DEF TailInv, TornOrListed, Listed, DeletingLists
  <2>7. QED BY <2>4, <2>5, <2>6
<1>5. ASSUME ManualAdd PROVE StoreTyped' /\ IdsTrue' /\ TornOrListed'
  <2>1. /\ manual.at = "sAdd" /\ UNCHANGED <<details, others, runs, faults, torn>>
        /\ resources' = resources \cup {manual.id}
        /\ manual' = [at |-> "hSet", of |-> manual.of, class |-> manual.class, id |-> manual.id]
    BY <1>5 DEF ManualAdd, TailInv, StoreTyped
  <2>2. manual.of \in Existing /\ manual.id = TrueId(manual.of) /\ manual.id \in ResourceIds
    BY <1>1, <2>1, ExistingInscriptions DEF TailInv, IdsTrue
  <2>3. StoreTyped'
    BY <1>1, <2>1, <2>2 DEF TailInv, StoreTyped
  <2>4. IdsTrue'
    BY <1>1, <2>1, <2>2 DEF TailInv, IdsTrue, TrueId
  <2>5. TornOrListed'
    BY <1>1, <2>1 DEF TailInv, TornOrListed, Listed, DeletingLists
  <2>6. QED BY <2>3, <2>4, <2>5
<1>6. ASSUME ManualDescribe PROVE StoreTyped' /\ IdsTrue' /\ TornOrListed'
  <2>1. /\ manual.at = "hSet" /\ UNCHANGED <<resources, others, runs, faults>>
        /\ details' = Described(manual.of, manual.id) /\ manual' = Idle
        /\ torn' = IF manual.id \in resources THEN torn ELSE torn \cup {manual.of}
    BY <1>6 DEF ManualDescribe
  <2>2. manual.of \in Existing /\ manual.of \in Inscriptions /\ manual.id = TrueId(manual.of)
        /\ manual.id \in ResourceIds
    BY <1>1, <2>1, ExistingInscriptions DEF TailInv, IdsTrue
  <2>3. StoreTyped'
    BY <1>1, <1>3, <2>1, <2>2 DEF TailInv, StoreTyped, Described
  <2>4. IdsTrue'
    BY <1>1, <1>3, <2>1, <2>2 DEF TailInv, IdsTrue, TrueId, Described
  <2>5. TornOrListed'
    <3>1. ASSUME NEW i \in indexed \ torn' PROVE Listed(i)'
      <4>1. Listed(i)
        BY <2>1, <3>1 DEF TailInv, TornOrListed
      <4>2. CASE i # manual.of
        BY <2>1, <4>1, <4>2 DEF Listed, Described
      <4>3. CASE i = manual.of
        BY <2>1, <3>1, <4>3 DEF Listed, Described
      <4>4. QED BY <4>2, <4>3
    <3>2. QED BY <1>1, <2>1, <3>1 DEF TailInv, TornOrListed, DeletingLists
  <2>6. QED BY <2>3, <2>4, <2>5
<1>7. ASSUME ManualPush PROVE StoreTyped' /\ IdsTrue' /\ TornOrListed'
  <2>1. /\ manual.at = "lPush" /\ UNCHANGED <<resources, details, runs, faults, torn>>
        /\ others' = others \cup {manual.of} /\ manual' = Idle
    BY <1>7 DEF ManualPush
  <2>2. manual.of \in Existing
    BY <2>1 DEF TailInv, IdsTrue
  <2>3. StoreTyped'
    BY <1>1, <1>3, <2>1, <2>2 DEF TailInv, StoreTyped
  <2>4. IdsTrue' /\ TornOrListed'
    BY <1>1, <1>3, <2>1 DEF TailInv, IdsTrue, TrueId, TornOrListed, Listed, DeletingLists
  <2>5. QED BY <2>3, <2>4
<1>8. ASSUME ManualFails PROVE StoreTyped' /\ IdsTrue' /\ TornOrListed'
  <2>1. UNCHANGED <<resources, details, others, runs, torn>> /\ manual' = Idle
          /\ faults' \in 0..MaxFaults
    BY <1>8, Constants DEF ManualFails, redis, Fault, TailInv, StoreTyped
  <2>2. StoreTyped'
    BY <1>1, <1>3, <2>1 DEF TailInv, StoreTyped
  <2>3. IdsTrue' /\ TornOrListed'
    BY <1>1, <1>3, <2>1 DEF TailInv, IdsTrue, TrueId, TornOrListed, Listed, DeletingLists
  <2>4. QED BY <2>2, <2>3
<1>9. StoreTyped' /\ IdsTrue' /\ TornOrListed'
  BY <1>4, <1>5, <1>6, <1>7, <1>8 DEF Manual
<1>10. QED BY <1>2, <1>9, BystandersKeep DEF TailInv

\* A reset deletes the members before the lists, beside whatever else runs.
LEMMA ResettingKeeps ==
    ASSUME TailInv, Resetting, UNCHANGED procVars, UNCHANGED starts, UNCHANGED history
    PROVE  TailInv'
<1>1. /\ UNCHANGED <<height, manual, stale, lost, done, unread>> /\ height \in Heights /\ height \in Nat
      /\ Existing' = Existing
      /\ faults' \in 0..MaxFaults /\ runs' \in 0..MaxScripts
  BY Constants DEF Resetting, ResetStart, ResetPattern, ResetFails, ResetCrashes, Fault, history,
                   TailInv, StoreTyped, Existing, InBlock
<1>2. /\ Patterns \in Remaining /\ <<>> \in Remaining /\ Head(Patterns) = "errors"
      /\ reset # <<>> =>
           /\ Tail(reset) \in Remaining
           /\ Head(reset) # "errors" =>
                Tail(reset) = <<>> \/ Head(Tail(reset)) \in {"resources", "others", "details"}
           /\ Head(reset) \in {"errors", "indexed"} \/ Head(reset) \in {"resources", "others", "details"}
           /\ Head(reset) = "errors" => Tail(reset) # <<>> /\ Head(Tail(reset)) = "indexed"
  BY ResetOrder DEF TailInv, StoreTyped
<1>3. \A i \in indexed \cup errored : i \in Inscriptions
  BY <1>1, ExistingInscriptions DEF TailInv, StoreTyped
<1>4. ASSUME ResetStart PROVE Accounted \subseteq Accounted' /\ StoreTyped' /\ IdsTrue' /\ TornOrListed'
  <2>1. /\ UNCHANGED <<indexed, errored, resources, details, others, torn, wiped>> /\ reset' = Patterns
    BY <1>4 DEF ResetStart, redis
  <2>2. StoreTyped' /\ IdsTrue' /\ Accounted \subseteq Accounted'
    BY <1>1, <1>2, <2>1 DEF TailInv, StoreTyped, IdsTrue, TrueId, Accounted
  <2>3. ~DeletingLists'
    BY <1>2, <2>1 DEF DeletingLists
  <2>4. QED BY <2>1, <2>2, <2>3 DEF TailInv, TornOrListed, Listed
<1>5. ASSUME ResetPattern PROVE Accounted \subseteq Accounted' /\ StoreTyped' /\ IdsTrue' /\ TornOrListed'
  <2>1. /\ reset # <<>> /\ Delete(Head(reset)) /\ reset' = Tail(reset)
        /\ torn' = IF Head(reset) = "indexed" THEN {} ELSE torn
        /\ wiped' = wiped \cup (errored \ errored') \cup (indexed \ indexed')
    BY <1>5 DEF ResetPattern
  <2>2. /\ indexed' \subseteq indexed /\ errored' \subseteq errored
        /\ resources' \subseteq resources /\ others' \subseteq others
        /\ details' = <<>> \/ details' = details
        /\ DOMAIN <<>> = {}
    BY <2>1 DEF Delete
  <2>3. StoreTyped'
    BY <1>1, <1>2, <1>3, <2>1, <2>2 DEF TailInv, StoreTyped
  <2>4. IdsTrue' /\ Accounted \subseteq Accounted'
    BY <1>1, <2>1, <2>2 DEF TailInv, IdsTrue, TrueId, Accounted
  <2>5. CASE Head(reset) = "errors"
    <3>1. UNCHANGED <<indexed, resources, details, others, torn>>
      BY <2>1, <2>5 DEF Delete
    <3>2. ~DeletingLists'
      BY <1>2, <2>1, <2>5 DEF DeletingLists
    <3>3. QED BY <2>3, <2>4, <3>1, <3>2 DEF TailInv, TornOrListed, Listed
  <2>6. CASE Head(reset) # "errors"
    <3>1. indexed' \subseteq torn'
      BY <1>2, <2>1, <2>6 DEF Delete, TailInv, TornOrListed, DeletingLists
    <3>2. QED BY <2>3, <2>4, <3>1 DEF TornOrListed
  <2>7. QED BY <2>5, <2>6
<1>6. ASSUME ResetFails PROVE Accounted \subseteq Accounted' /\ StoreTyped' /\ IdsTrue' /\ TornOrListed'
  <2>1. /\ UNCHANGED <<indexed, errored, resources, details, others, wiped>>
        /\ reset # <<>> /\ reset' = Tail(reset)
        /\ torn' = IF Head(reset) = "indexed" THEN torn \cup indexed ELSE torn
    BY <1>6 DEF ResetFails, redis
  <2>2. StoreTyped' /\ IdsTrue' /\ Accounted \subseteq Accounted'
    BY <1>1, <1>2, <1>3, <2>1 DEF TailInv, StoreTyped, IdsTrue, TrueId, Accounted
  <2>3. DeletingLists' => indexed \subseteq torn'
    BY <1>2, <2>1 DEF TailInv, TornOrListed, DeletingLists
  <2>4. \A i \in indexed \ torn' : Listed(i)'
    BY <2>1 DEF TailInv, TornOrListed, Listed
  <2>5. QED BY <2>1, <2>2, <2>3, <2>4 DEF TornOrListed
<1>7. ASSUME ResetCrashes PROVE Accounted \subseteq Accounted' /\ StoreTyped' /\ IdsTrue' /\ TornOrListed'
  <2>1. /\ UNCHANGED <<indexed, errored, resources, details, others, torn, wiped>> /\ reset' = <<>>
    BY <1>7 DEF ResetCrashes, redis
  <2>2. StoreTyped' /\ IdsTrue' /\ Accounted \subseteq Accounted'
    BY <1>1, <1>2, <2>1 DEF TailInv, StoreTyped, IdsTrue, TrueId, Accounted
  <2>3. QED BY <2>1, <2>2 DEF TailInv, TornOrListed, Listed, DeletingLists
<1>8. Accounted \subseteq Accounted' /\ StoreTyped' /\ IdsTrue' /\ TornOrListed'
  BY <1>4, <1>5, <1>6, <1>7 DEF Resetting
<1>9. Grows
  BY <1>1, <1>8 DEF Grows, Passed
<1>10. QED BY <1>8, <1>9, BystandersKeep DEF TailInv

(***************************************************************************)
(* The whole.                                                              *)
(***************************************************************************)
LEMMA TailStarts == Init => TailInv
<1> SUFFICES ASSUME Init PROVE TailInv
  OBVIOUS
<1>1. /\ height = InitHeight /\ InitHeight \in Heights /\ height \in Nat
      /\ indexed = {} /\ errored = {} /\ resources = {} /\ others = {}
      /\ details = <<>> /\ faults = 0 /\ manual = Idle /\ reset = <<>> /\ runs = 0
      /\ torn = {} /\ wiped = {}
      /\ DOMAIN <<>> = {}
  BY Constants DEF Init, StoreInit
<1>2. Idle.at = "off"
      /\ Idle \in [at : {"off", "sAdd", "hSet", "lPush"}, of : Inscriptions \cup {NoInscription},
                   class : {"plus", "other"}, id : ResourceIds \cup {None}]
  BY DEF Idle, None
<1>3. StoreTyped
  BY <1>1, <1>2, Constants, ResetOrder DEF StoreTyped
<1>4. NoCache \in [Sats -> Int] /\ NoBase \in Nat /\ \A s \in Sats : NoCache[s] = NoList
  BY Constants DEF NoCache, NoList, NoBase
<1>5. <<>> \in Seq(Inscriptions)
  OBVIOUS
<1>6. Local
  BY <1>4, <1>5, Constants DEF Init, Local, Phases
<1>7. ASSUME NEW p \in Procs PROVE Placed(p) /\ Informed(p) /\ Gapless(p)
  <2>1. Placed(p)
    BY <1>1 DEF Init, Placed, Busy
  <2>2. Informed(p) /\ Gapless(p)
    BY <1>4 DEF Init, Informed, Gapless
  <2>3. QED BY <2>1, <2>2
<1>8. BlockDoneIsAccounted
  BY <1>1 DEF Init, BlockDoneIsAccounted
<1>9. IdsTrue /\ TornOrListed
  BY <1>1, <1>2 DEF IdsTrue, TornOrListed, DeletingLists
<1>10. QED BY <1>3, <1>6, <1>7, <1>8, <1>9 DEF TailInv

LEMMA TailKeeps == TailInv /\ [Next]_vars => TailInv'
<1> SUFFICES ASSUME TailInv, [Next]_vars PROVE TailInv'
  OBVIOUS
<1>1. ASSUME UNCHANGED vars PROVE TailInv'
  <2>1. /\ UNCHANGED <<height, indexed, errored, resources, details, others, faults, manual, reset,
                       runs, torn, wiped>>
        /\ UNCHANGED procVars /\ UNCHANGED history /\ UNCHANGED starts
    BY <1>1 DEF vars, storeVars, redis, scripts
  <2>2. Grows /\ Existing' = Existing /\ StoreTyped'
    <3>1. height \in Heights /\ height \in Nat
      BY Constants DEF TailInv, StoreTyped
    <3>2. Grows
      BY <2>1, <3>1 DEF Grows, Accounted, Passed, history
    <3>3. Existing' = Existing
      BY <2>1 DEF Existing, InBlock
    <3>4. StoreTyped'
      BY <2>1, <3>3 DEF TailInv, StoreTyped
    <3>5. QED BY <3>2, <3>3, <3>4
  <2>3. IdsTrue'
    BY <2>1, <2>2 DEF TailInv, IdsTrue, TrueId, history
  <2>4. /\ Local' /\ BlockDoneIsAccounted'
        /\ \A p \in Procs : Placed(p)' /\ Informed(p)' /\ Gapless(p)'
    BY <2>1, <2>2, BystandersKeep
  <2>5. TornOrListed'
    BY <2>1 DEF TailInv, TornOrListed, Listed, DeletingLists
  <2>6. QED BY <2>2, <2>3, <2>4, <2>5 DEF TailInv
<1>2. QED
  BY <1>1, ProcStepKeeps, ManualKeeps, ResettingKeeps, GrowKeeps
     DEF Next, ScriptStep, ProcStep

LEMMA TailInvariant == Spec => []TailInv
<1>1. QED BY TailStarts, TailKeeps, PTL DEF Spec

\* Every variable of the block modes and of the store keeps its type.
THEOREM TypeCorrect == Spec => []TypeOK
<1>1. TailInv => TypeOK
  <2> SUFFICES ASSUME TailInv PROVE TypeOK
    OBVIOUS
  <2>1. \E k \in 0..Len(Patterns) : reset = SubSeq(Patterns, k + 1, Len(Patterns))
    BY DEF TailInv, StoreTyped, Remaining
  <2>2. StoreTypeOK
    BY <2>1 DEF TailInv, StoreTyped, StoreTypeOK
  <2>3. height \in Nat /\ Local
    BY Constants DEF TailInv, StoreTyped
  <2>4. /\ known \in [Procs -> -1..height] /\ told \in [Procs -> -1..height]
        /\ next \in [Procs -> -1..(height + 1)]
    BY <2>3 DEF TailInv, Local, Placed
  <2>5. ASSUME NEW p \in Procs
        PROVE  /\ pc[p] \in Busy <=> todo[p] # <<>>
               /\ \A k \in DOMAIN todo[p] : todo[p][k] \in InBlock(next[p])
               /\ \A s \in Sats : satCache[p][s] \in {NoList} \cup 0..OnSat(s)
    BY DEF TailInv, Placed, Informed, InHand
  <2>6. QED BY <2>2, <2>3, <2>4, <2>5 DEF TypeOK, Local, Busy
<1>2. QED BY <1>1, TailInvariant, PTL

\* A block whose inscriptions were read counts as processed only when each of them is
\* indexed, reported, known to be given up or deleted by a reset, whatever interrupts the loop.
THEOREM BlocksAccounted == Spec => []BlockDoneIsAccounted
<1>1. QED BY TailInvariant, PTL DEF TailInv

\* The tail loop leaves no block out, however often it restarts, as long as the outage is
\* within the lookback: each is processed, or passed because its list could not be read.
THEOREM NoGap == Spec => []TailLeavesNoGap
<1>1. TailInv => TailLeavesNoGap
  BY DEF TailInv, Gapless, Passed, TailLeavesNoGap
<1>2. QED BY <1>1, TailInvariant, PTL

\* With indexers, manual-index and reset-index at work at once, a member of the dedup set is
\* in a list, unless a reset deleted that after the member was stored between its deletions or
\* survived them, or manual-index described it under an id that a reset took out meanwhile; and
\* it is listed under the id of its place on its sat, unless that was looked up in too old a list.
THEOREM MembersAreListed == Spec => []IndexedIsListed
<1>1. TailInv => IndexedIsListed
  BY DEF TailInv, IdsTrue, TornOrListed, Listed, TrueId, IndexedIsListed
<1>2. QED BY <1>1, TailInvariant, PTL

(***************************************************************************)
(* The ledger.  An inscription's number is the count of those before it,   *)
(* so the numbers of what exists are distinct and at most the newest one.  *)
(***************************************************************************)
\* Two inscriptions of the chain have an order.
LEMMA OneIsBefore ==
    ASSUME NEW h \in Heights, NEW i \in Until(h), NEW j \in Until(h), i # j
    PROVE  Before(i, j) \/ Before(j, i)
<1>1. PICK a \in 0..h, b \in 0..h : i \in InBlock(a) /\ j \in InBlock(b)
  BY BlockOfInscriptions
<1>2. /\ a \in Nat /\ b \in Nat /\ a + 1 \in DOMAIN Blocks /\ b + 1 \in DOMAIN Blocks
      /\ Blocks[a + 1] \in Seq(Inscriptions) /\ Blocks[b + 1] \in Seq(Inscriptions)
  BY BlockOfInscriptions, Constants
<1>3. PICK k \in DOMAIN Blocks[a + 1], l \in DOMAIN Blocks[b + 1] :
        Blocks[a + 1][k] = i /\ Blocks[b + 1][l] = j
  BY <1>1 DEF InBlock
<1>4. k \in Nat /\ l \in Nat
  BY <1>2, <1>3
<1>5. CASE a + 1 < b + 1 \/ (a + 1 = b + 1 /\ k < l)
  BY <1>2, <1>3, <1>5 DEF Before
<1>6. CASE b + 1 < a + 1 \/ (b + 1 = a + 1 /\ l < k)
  BY <1>2, <1>3, <1>6 DEF Before
<1>7. CASE a = b /\ k = l
  BY <1>3, <1>7
<1>8. QED BY <1>2, <1>4, <1>5, <1>6, <1>7

LEMMA BeforeIsTransitive ==
    ASSUME NEW i, NEW j, NEW k, Before(i, j), Before(j, k)
    PROVE  Before(i, k)
<1>1. PICK d \in DOMAIN Blocks, e \in DOMAIN Blocks :
        \E m \in DOMAIN Blocks[d], n \in DOMAIN Blocks[e] :
          Blocks[d][m] = i /\ Blocks[e][n] = j /\ (d < e \/ (d = e /\ m < n))
  BY DEF Before
<1>2. PICK m \in DOMAIN Blocks[d], n \in DOMAIN Blocks[e] :
          Blocks[d][m] = i /\ Blocks[e][n] = j /\ (d < e \/ (d = e /\ m < n))
  BY <1>1
<1>3. PICK f \in DOMAIN Blocks, g \in DOMAIN Blocks :
        \E r \in DOMAIN Blocks[f], t \in DOMAIN Blocks[g] :
          Blocks[f][r] = j /\ Blocks[g][t] = k /\ (f < g \/ (f = g /\ r < t))
  BY DEF Before
<1>4. PICK r \in DOMAIN Blocks[f], t \in DOMAIN Blocks[g] :
          Blocks[f][r] = j /\ Blocks[g][t] = k /\ (f < g \/ (f = g /\ r < t))
  BY <1>3
<1>5. e = f /\ n = r
  BY <1>2, <1>4, ChainAssumption
<1>6. /\ Blocks \in Seq(Seq(Inscriptions))
      /\ d \in Nat /\ e \in Nat /\ g \in Nat
  BY ChainAssumption
<1>7. m \in Nat /\ n \in Nat /\ t \in Nat
  <2>1. /\ Blocks[d] \in Seq(Inscriptions) /\ Blocks[e] \in Seq(Inscriptions)
        /\ Blocks[g] \in Seq(Inscriptions)
    BY <1>6
  <2>2. QED BY <2>1
<1>8. d < g \/ (d = g /\ m < t)
  BY <1>2, <1>4, <1>5, <1>6, <1>7
<1>9. QED BY <1>2, <1>4, <1>8 DEF Before

EarlierThan(i) == {j \in Inscriptions : Before(j, i)}

LEMMA NumbersInOrder ==
    ASSUME NEW h \in Heights, NEW i \in Until(h)
    PROVE  /\ Number[i] \in 0..Newest[h] /\ Newest[h] \in Int
           /\ \A j \in Until(h) : j # i => Number[j] # Number[i]
<1>1. /\ Until(h) \subseteq Inscriptions /\ IsFiniteSet(Inscriptions)
      /\ IsFiniteSet(Until(h)) /\ Cardinality(Until(h)) \in Nat
  BY BlockOfInscriptions, Constants, FS_Subset, FS_CardinalityType
<1>2. Newest[h] = Cardinality(Until(h)) - 1
  BY DEF Newest, Until
<1>3. ASSUME NEW j \in Until(h)
      PROVE  /\ IsFiniteSet(EarlierThan(j)) /\ Number[j] = Cardinality(EarlierThan(j))
             /\ Number[j] \in Nat
             /\ EarlierThan(j) \subseteq Until(h) \ {j} /\ EarlierThan(j) \subseteq Inscriptions
  <2>1. EarlierThan(j) \subseteq Until(h) \ {j} /\ EarlierThan(j) \subseteq Inscriptions
    BY EarlierExists DEF EarlierThan
  <2>2. Number[j] = Cardinality(EarlierThan(j))
    BY <1>1 DEF Number, EarlierThan
  <2>3. QED BY <1>1, <2>1, <2>2, FS_Subset, FS_CardinalityType
<1>4. Number[i] \in 0..Newest[h]
  <2>1. IsFiniteSet(Until(h) \ {i}) /\ Cardinality(Until(h) \ {i}) = Cardinality(Until(h)) - 1
    BY <1>1, FS_RemoveElement
  <2>2. Cardinality(EarlierThan(i)) <= Cardinality(Until(h) \ {i})
    BY <1>3, <2>1, FS_Subset
  <2>3. QED BY <1>1, <1>2, <1>3, <2>1, <2>2
<1>5. ASSUME NEW j \in Until(h), NEW k \in Until(h), Before(j, k)
      PROVE  Number[j] # Number[k]
  <2>1. EarlierThan(j) \subseteq EarlierThan(k) \ {j} /\ j \in EarlierThan(k)
    BY <1>1, <1>3, <1>5, BeforeIsTransitive DEF EarlierThan
  <2>2. /\ IsFiniteSet(EarlierThan(k) \ {j})
        /\ Cardinality(EarlierThan(k) \ {j}) = Cardinality(EarlierThan(k)) - 1
    BY <1>3, <2>1, FS_RemoveElement
  <2>3. Cardinality(EarlierThan(j)) <= Cardinality(EarlierThan(k) \ {j})
    BY <2>1, <2>2, FS_Subset
  <2>4. QED BY <1>3, <2>2, <2>3
<1>6. QED BY <1>1, <1>2, <1>4, <1>5, OneIsBefore

\* The newest number only goes up with the chain.
LEMMA NewestGrows ==
    ASSUME NEW g \in Heights, NEW h \in Heights, g <= h
    PROVE  Newest[g] \in Int /\ Newest[h] \in Int /\ Newest[g] <= Newest[h]
<1>1. /\ Until(g) \subseteq Until(h)
      /\ IsFiniteSet(Until(h)) /\ Cardinality(Until(h)) \in Nat
      /\ Cardinality(Until(g)) \in Nat /\ Cardinality(Until(g)) <= Cardinality(Until(h))
  BY ChainGrows, BlockOfInscriptions, Constants, FS_Subset, FS_CardinalityType
<1>2. Newest[g] = Cardinality(Until(g)) - 1 /\ Newest[h] = Cardinality(Until(h)) - 1
  BY DEF Newest, Until
<1>3. QED BY <1>1, <1>2

\* All that a step does to the tip and the two sets.
LEMMA StepOnLedger ==
    ASSUME TailInv, [Next]_vars
    PROVE  \/ UNCHANGED <<height, indexed, errored>>
           \/ height + 1 \in Heights /\ height' = height + 1 /\ UNCHANGED <<indexed, errored>>
           \/ \E i \in Existing : indexed' = indexed \cup {i} /\ UNCHANGED <<height, errored>>
           \/ \E i \in Existing : errored' = errored \cup {i} /\ UNCHANGED <<height, indexed>>
           \/ indexed' = {} /\ UNCHANGED <<height, errored>>
           \/ errored' = {} /\ UNCHANGED <<height, indexed>>
<1>1. ASSUME NEW p \in Procs, Store(p)
      PROVE  \E i \in Existing : indexed' = indexed \cup {i} /\ UNCHANGED <<height, errored>>
  <2>1. pc[p] \in Busy /\ indexed' = indexed \cup {Current(p)} /\ UNCHANGED <<height, errored>>
    BY <1>1 DEF Store, StoreMulti, Busy
  <2>2. Current(p) \in Existing
    BY <2>1, CurrentExists DEF TailInv, StoreTyped
  <2>3. QED BY <2>1, <2>2
<1>2. ASSUME NEW p \in Procs, Report(p)
      PROVE  \E i \in Existing : errored' = errored \cup {i} /\ UNCHANGED <<height, indexed>>
  <2>1. pc[p] \in Busy /\ errored' = errored \cup {Current(p)} /\ UNCHANGED <<height, indexed>>
    BY <1>2 DEF Report, StoreError, Busy
  <2>2. Current(p) \in Existing
    BY <2>1, CurrentExists DEF TailInv, StoreTyped
  <2>3. QED BY <2>1, <2>2
<1>3. ASSUME NEW p \in Procs, ProcStep(p), ~Store(p), ~Report(p)
      PROVE  UNCHANGED <<height, indexed, errored>>
  BY <1>3 DEF ProcStep, Step, Fails, Start, Locate, LocateFails, Poll, FetchBlock, ListBlock,
       FetchFails, ListFails, Ask, ReadSat, ReadSatFails, Test, Skip, Exit, CacheExpires, storeVars, redis
<1>4. ASSUME Manual \/ UNCHANGED vars PROVE UNCHANGED <<height, indexed, errored>>
  BY <1>4 DEF Manual, ManualStart, ManualAdd, ManualDescribe, ManualPush, ManualFails,
       vars, storeVars, redis
<1>5. ASSUME Resetting
      PROVE  \/ UNCHANGED <<height, indexed, errored>>
             \/ indexed' = {} /\ UNCHANGED <<height, errored>>
             \/ errored' = {} /\ UNCHANGED <<height, indexed>>
  BY <1>5 DEF Resetting, ResetStart, ResetPattern, ResetFails, ResetCrashes, Delete, redis
<1>6. ASSUME Grow
      PROVE  height + 1 \in Heights /\ height' = height + 1 /\ UNCHANGED <<indexed, errored>>
  BY <1>6 DEF Grow, NewBlock, redis
<1>7. QED BY <1>1, <1>2, <1>3, <1>4, <1>5, <1>6 DEF Next, ScriptStep, ProcStep

\* The block modes and their scripts keep the promise of the ledger that the replicas of the
\* batch mode keep too, with an inscription's place on the chain as its number: an entry is
\* made once and for what exists, and only a reset takes entries back, all of a kind at once.
THEOREM ImplementsLedger == Spec => LedgerSpec
<1>1. Init => Ledger!Init
  BY DEF Init, StoreInit, Ledger!Init, NumbersOf
<1>2. ASSUME TailInv, [Next]_vars PROVE [Ledger!Next]_(Ledger!ledger)
  <2>1. /\ height \in Heights /\ height \in Nat /\ Existing = Until(height)
        /\ indexed \subseteq Existing /\ errored \subseteq Existing
    BY <1>2, ExistingInscriptions DEF TailInv, StoreTyped
  <2>2. Len(Blocks) - 1 \in Heights /\ height <= Len(Blocks) - 1
    BY <2>1, Constants DEF Heights
  <2>3. /\ Newest[height] \in Int /\ Newest[Len(Blocks) - 1] \in Int
        /\ Newest[height] <= Newest[Len(Blocks) - 1]
    BY <2>1, <2>2, NewestGrows
  <2>4. ASSUME NEW i \in Existing, NEW S \in SUBSET Existing
        PROVE  /\ Number[i] \in 0..Newest[Len(Blocks) - 1] /\ Number[i] <= Newest[height]
               /\ NumbersOf(S \cup {i}) = NumbersOf(S) \cup {Number[i]}
               /\ i \notin S => Number[i] \notin NumbersOf(S)
    <3>1. /\ Number[i] \in 0..Newest[height]
          /\ \A j \in Existing : j # i => Number[j] # Number[i]
      BY <2>1, NumbersInOrder
    <3>2. NumbersOf(S \cup {i}) = NumbersOf(S) \cup {Number[i]}
      BY DEF NumbersOf
    <3>3. i \notin S => Number[i] \notin NumbersOf(S)
      BY <3>1 DEF NumbersOf
    <3>4. \A n : n \in 0..Newest[height] =>
               n \in 0..Newest[Len(Blocks) - 1] /\ n <= Newest[height]
      <4>1. \A x, y \in Int : x <= y => \A n \in 0..x : n \in 0..y /\ n <= x
        OBVIOUS
      <4>2. QED BY <2>3, <4>1
    <3>5. QED BY <3>1, <3>2, <3>3, <3>4
  <2>5. CASE UNCHANGED <<height, indexed, errored>>
    BY <2>5 DEF Ledger!ledger, NumbersOf
  <2>6. CASE height + 1 \in Heights /\ height' = height + 1 /\ UNCHANGED <<indexed, errored>>
    <3>1. UNCHANGED <<NumbersOf(indexed), NumbersOf(errored)>>
      BY <2>6 DEF NumbersOf
    <3>2. /\ Newest[height + 1] \in Int /\ Newest[height] <= Newest[height + 1]
          /\ Newest[height + 1] <= Newest[Len(Blocks) - 1]
      BY <2>1, <2>2, <2>6, NewestGrows, Constants DEF Heights
    <3>3. Newest[height]' = Newest[height + 1]
      BY <2>6 DEF Newest, InBlock, Heights
    <3>4. CASE Newest[height + 1] = Newest[height]
      BY <3>1, <3>3, <3>4 DEF Ledger!ledger
    <3>5. CASE Newest[height + 1] # Newest[height]
      <4>1. Newest[height]' \in (Newest[height] + 1)..Newest[Len(Blocks) - 1]
        BY <2>3, <3>2, <3>3, <3>5
      <4>2. QED BY <3>1, <4>1 DEF Ledger!Next, Ledger!Inscribe
    <3>6. QED BY <3>4, <3>5
  <2>7. CASE \E i \in Existing : indexed' = indexed \cup {i} /\ UNCHANGED <<height, errored>>
    <3>1. PICK i \in Existing : indexed' = indexed \cup {i} /\ UNCHANGED <<height, errored>>
      BY <2>7
    <3>2. /\ NumbersOf(indexed)' = NumbersOf(indexed) \cup {Number[i]}
          /\ UNCHANGED <<Newest[height], NumbersOf(errored)>>
      BY <2>1, <2>4, <3>1 DEF NumbersOf
    <3>3. CASE i \in indexed
      BY <3>1, <3>2, <3>3 DEF Ledger!ledger, NumbersOf
    <3>4. CASE i \notin indexed
      <4>1. Number[i] \in 0..Newest[Len(Blocks) - 1] /\ Ledger!Index(Number[i])
        BY <2>1, <2>4, <3>2, <3>4 DEF Ledger!Index
      <4>2. QED BY <4>1 DEF Ledger!Next
    <3>5. QED BY <3>3, <3>4
  <2>8. CASE \E i \in Existing : errored' = errored \cup {i} /\ UNCHANGED <<height, indexed>>
    <3>1. PICK i \in Existing : errored' = errored \cup {i} /\ UNCHANGED <<height, indexed>>
      BY <2>8
    <3>2. /\ NumbersOf(errored)' = NumbersOf(errored) \cup {Number[i]}
          /\ UNCHANGED <<Newest[height], NumbersOf(indexed)>>
      BY <2>1, <2>4, <3>1 DEF NumbersOf
    <3>3. CASE i \in errored
      BY <3>1, <3>2, <3>3 DEF Ledger!ledger, NumbersOf
    <3>4. CASE i \notin errored
      <4>1. Number[i] \in 0..Newest[Len(Blocks) - 1] /\ Ledger!Report(Number[i])
        BY <2>1, <2>4, <3>2, <3>4 DEF Ledger!Report
      <4>2. QED BY <4>1 DEF Ledger!Next
    <3>5. QED BY <3>3, <3>4
  <2>9. CASE \/ indexed' = {} /\ UNCHANGED <<height, errored>>
             \/ errored' = {} /\ UNCHANGED <<height, indexed>>
    BY <2>9 DEF Ledger!Next, Ledger!Forget, NumbersOf
  <2>10. QED BY <1>2, <2>5, <2>6, <2>7, <2>8, <2>9, StepOnLedger
<1>3. QED BY <1>1, <1>2, TailInvariant, PTL DEF Spec, LedgerSpec, Ledger!Spec
=============================================================================
