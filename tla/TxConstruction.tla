--------------------------- MODULE TxConstruction ---------------------------
(***************************************************************************)
(* Amounts of the transactions the library builds                          *)
(* (packages/ordinalsplus/src/transactions): which UTXOs a commit spends,  *)
(* what its outputs carry, what the reveal that spends it gives back and   *)
(* pays, and what becomes of both when the network refuses the fee.        *)
(*                                                                         *)
(* Amounts are satoshis, sizes virtual bytes, rates satoshis per virtual   *)
(* byte, all whole.  A transaction is its amounts; what the wallet and the *)
(* node do with it is the environment's.                                   *)
(***************************************************************************)
EXTENDS Integers, FiniteSets, FiniteSetsExt, SequencesExt

CONSTANTS
    Coins, Worth,       \* the wallet's UTXOs and their values
    Scriptless,         \* UTXOs the wallet lists without their script
    Resources,          \* UTXOs that hold a resource
    FeeRates,
    Bodies,             \* sizes of what is inscribed
    MaxItems,           \* bound: inscriptions of a batch
    Payments,           \* amounts of plain payments
    Vsize(_, _, _),     \* size of a reveal, by body, outputs and whether there is change
    NoCoin

ASSUME ConstructionAssumption ==
    /\ Worth \in [Coins -> Nat \ {0}] /\ NoCoin \notin Coins
    /\ FeeRates \subseteq Nat \ {0} /\ Bodies \subseteq Nat /\ Payments \subseteq Nat
    /\ MaxItems \in Nat \ {0}
    /\ IsFiniteSet(Coins)
    /\ \A b \in Bodies, n \in 1..MaxItems :
          /\ \A change \in BOOLEAN : Vsize(b, n, change) \in Nat \ {0}
          /\ Vsize(b, n, TRUE) >= Vsize(b, n, FALSE) + 31      \* an output is added

VARIABLES
    stage,      \* how far the inscription has come
    plan,       \* what is inscribed, and at which rate
    commit,     \* amounts of the commit transaction
    reveal,     \* amounts of the reveal transaction built last
    bumps,      \* reveals built anew because of their fee
    payment     \* the selection for a plain payment made last

constructionVars == <<stage, plan, commit, reveal, bumps, payment>>

Nothing == [of |-> "nothing"]
Larger(a, b) == IF a > b THEN a ELSE b
CeilDiv(a, b) == (a + b - 1) \div b

Dust == 546
Postage == 551
RelaySlack == 2000

\* calculateFee: never below the relay fee of 1.1 per virtual byte.
Fee(v, r) == Larger(1, Larger(v * r, CeilDiv(11 * v, 10)))

CommitSize(inputs, outputs, change) ==
    11 + 68 * inputs + 43 * outputs + IF change THEN 31 ELSE 0
PaymentSize(inputs) == 10 + 68 * inputs + 2 * 31
RevealEstimate(bytes, outputs) ==
    IF bytes = 0 THEN 200 ELSE 100 + CeilDiv(27 * bytes, 100) + 43 * (outputs - 1)

\* prepareResourceInscription takes every reveal for 200 virtual bytes, and
\* inscribeWithSatpoint adds a buffer.
SingleAmount(r) == Fee(200, r) + 1000 + Larger(600, 64 * r)
\* estimateRequiredCommitAmountForBatch
MultiAmount(items, bytes, r) ==
    Postage * items + Fee(RevealEstimate(bytes, items), r) + r * (64 + 8 * (items - 1))

ConstructionInit ==
    /\ stage = "idle"
    /\ plan = Nothing /\ commit = Nothing /\ reveal = Nothing /\ payment = Nothing
    /\ bumps = 0

(***************************************************************************)
(* Selection.  UTXOs are taken in an order until they cover what is needed,*)
(* which may grow with their number.                                       *)
(***************************************************************************)
Total(S) == MapThenSumSet(LAMBDA c : Worth[c], S)
FirstOf(s, k) == {s[j] : j \in 1..k}

TakeUntil(C, Before(_, _), Needed(_)) ==
    {S \in SUBSET C : \E s \in SetToSeqs(C) :
        /\ \A j, k \in 1..Len(s) : j < k => ~Before(s[k], s[j])
        /\ S = FirstOf(s, Cardinality(S))
        /\ S # {} /\ Total(S) >= Needed(Cardinality(S))
        /\ \A k \in 1..Cardinality(S) - 1 : Total(FirstOf(s, k)) < Needed(k)}

Larger1st(c, d) == Worth[c] > Worth[d]

\* selectUtxos: the largest first.
SelectUtxos(C, target) == TakeUntil(C, Larger1st, LAMBDA k : target)

\* selectResourceUtxos: a single UTXO that covers the amount and its fee, the
\* first in the order there is, or else as many as it takes.
Order(mode, amount, c, d) ==
    CASE mode = "closer" ->
           LET Covers(u) == Worth[u] >= amount
               Distance(u) == IF Covers(u) THEN Worth[u] - amount ELSE amount - Worth[u]
           IN  \/ Covers(c) /\ ~Covers(d)
               \/ Covers(c) = Covers(d) /\ Distance(c) < Distance(d)
      [] mode = "largest" -> Larger1st(c, d)
      [] mode = "older"   -> FALSE          \* by txid, which says nothing

SelectResourceUtxos(C, mode, amount, r) ==
    LET Needed(k) == amount + Fee(PaymentSize(k), r)
        Before(c, d) == Order(mode, amount, c, d)
        Alone == {c \in C : Worth[c] >= Needed(1)}
    IN  IF Alone # {}
        THEN {{c} : c \in {c \in Alone : \A d \in Alone : ~Before(d, c)}}
        ELSE TakeUntil(C, Before, Needed)

Pay(amount, r, mode, avoided, allowed) ==
    LET Eligible == Coins \ (avoided \cup IF allowed THEN {} ELSE Resources)
    IN  \E S \in SelectResourceUtxos(Eligible, mode, amount, r) :
          LET fee == Fee(PaymentSize(Cardinality(S)), r)
              left == Total(S) - amount - fee
              change == IF left < Dust THEN 0 ELSE left
          IN  /\ payment' = [of |-> "payment", coins |-> S, amount |-> amount, rate |-> r,
                             change |-> change, fee |-> fee + left - change,
                             allowed |-> allowed]
              /\ UNCHANGED <<stage, plan, commit, reveal, bumps>>

(***************************************************************************)
(* Commit transactions.  The UTXO to inscribe comes first, what it lacks   *)
(* is taken from the others; the fee is estimated for one input, and once  *)
(* more for the inputs there are, those without a script left out.         *)
(***************************************************************************)
Selections(selected, needed) ==
    IF selected = NoCoin THEN SelectUtxos(Coins, needed)
    ELSE IF Worth[selected] >= needed THEN {{}}
    ELSE SelectUtxos(Coins \ {selected}, needed - Worth[selected])

WorthOf(selected) == IF selected = NoCoin THEN 0 ELSE Worth[selected]
Spent(selected, S) == S \cup ({selected} \ {NoCoin})
Inputs(coins) == coins \ Scriptless

Committed(kind, selected, S, outputs, each, r) ==
    LET coins == Spent(selected, S)
        total == WorthOf(selected) + Total(S)
        fee == Fee(CommitSize(Cardinality(Inputs(coins)), outputs, TRUE), r)
        left == total - outputs * each - fee
        change == IF left >= Dust THEN left ELSE 0
    IN  [of |-> kind, coins |-> coins, outputs |-> outputs, each |-> each,
         change |-> change, fee |-> total - outputs * each - change]

Prepared(p, c) ==
    /\ plan' = p /\ commit' = c
    /\ stage' = "prepared" /\ reveal' = Nothing /\ bumps' = 0
    /\ UNCHANGED payment

\* prepareCommitTransaction, called by inscribeWithSatpoint.
PrepareSingle(selected, bytes, r) ==
    LET each == SingleAmount(r)
        needed == each + Fee(CommitSize(1, 1, TRUE), r)
    IN  /\ stage = "idle"
        /\ \E S \in Selections(selected, needed) :
             Prepared([rate |-> r, items |-> 1, bytes |-> bytes],
                      Committed("single", selected, S, 1, each, r))

\* prepareBatchCommitTransaction: an output for each inscription.
PrepareBatch(selected, items, postage, r) ==
    LET each == Larger(postage, Dust)
        needed == items * each + Fee(CommitSize(1, items, TRUE), r)
    IN  /\ stage = "idle"
        /\ \E S \in Selections(selected, needed) :
             Prepared([rate |-> r, items |-> items, bytes |-> 0],
                      Committed("batch", selected, S, items, each, r))

\* prepareMultiInscriptionCommitTransaction: one output for all.  UTXOs are
\* taken in the wallet's order until there is something over, or none is left;
\* only the commit itself must be covered.
PrepareMulti(selected, items, bytes, r) ==
    LET amount == MultiAmount(items, bytes, r)
        Rest == Coins \ {selected}
        Wanted(k) == amount + RelaySlack - WorthOf(selected)
        Taken == IF Wanted(0) <= 0 THEN {{}}
                 ELSE IF Total(Rest) < Wanted(0) THEN {Rest}
                 ELSE TakeUntil(Rest, LAMBDA c, d : FALSE, Wanted)
    IN  /\ stage = "idle"
        /\ \E S \in Taken :
             LET total == WorthOf(selected) + Total(S)
                 coins == Spent(selected, S)
                 left == total - amount - Fee(CommitSize(Cardinality(coins), 1, TRUE), r)
                 change == IF left >= Dust THEN left ELSE 0
             IN  /\ total >= amount
                 /\ Prepared([rate |-> r, items |-> items, bytes |-> bytes],
                             [of |-> "multi", coins |-> coins, outputs |-> 1, each |-> amount,
                              change |-> change, fee |-> total - amount - change])

\* The wallet signs; a transaction that spends more than its inputs hold
\* cannot be extracted.
SignCommit ==
    /\ stage = "prepared"
    /\ stage' = IF Total(Inputs(commit.coins)) >= commit.outputs * commit.each + commit.change
                THEN "signed" ELSE "failed"
    /\ UNCHANGED <<plan, commit, reveal, bumps, payment>>

CommitSent ==
    /\ stage = "signed"
    /\ stage' = IF commit.of = "batch" THEN "done" ELSE "sent"
    /\ UNCHANGED <<plan, commit, reveal, bumps, payment>>

\* The wallet declines or the node refuses: the call ends.
Abandon ==
    /\ stage \in {"prepared", "signed", "built"}
    /\ stage' = "failed"
    /\ UNCHANGED <<plan, commit, reveal, bumps, payment>>

(***************************************************************************)
(* createRevealTransaction: built without change, measured, built with the *)
(* change that leaves, measured, and built once more with what that        *)
(* measure leaves.                                                         *)
(***************************************************************************)
FirstRate == IF commit.of = "single"
             THEN Larger(plan.rate + 5, CeilDiv(115 * plan.rate, 100)) ELSE plan.rate
BumpedRate == IF commit.of = "single"
              THEN Larger(reveal.rate + 5, CeilDiv(12 * reveal.rate, 10)) ELSE plan.rate + 1
MaxBumps == IF commit.of = "single" THEN 2 ELSE 1

Allocated == commit.each - Postage * plan.items

\* (mutant of RevealChange) the change is not measured once more
ChangeUnmeasured(r) ==
    LET first == Allocated - Fee(Vsize(plan.bytes, plan.items, FALSE), r)
    IN  IF first < Postage THEN 0 ELSE first

\* The change of a reveal that pays rate r, 0 when there is none.
RevealChange(r) ==
    LET first == Allocated - Fee(Vsize(plan.bytes, plan.items, FALSE), r)
        second == Allocated - Fee(Vsize(plan.bytes, plan.items, TRUE), r)
    IN  IF first < Postage \/ second < Postage THEN 0
        ELSE IF second - first \in -1..1 THEN first ELSE second

Built(r) ==
    LET change == RevealChange(r)
    IN  [of |-> "reveal", rate |-> r, size |-> Vsize(plan.bytes, plan.items, change # 0),
         change |-> change, fee |-> Allocated - change]

\* Outputs that need more than the input holds cannot be extracted, and a
\* health check that fails ends the call before.
BuildReveal ==
    /\ stage = "sent"
    /\ \/ Allocated >= 0 /\ reveal' = Built(FirstRate) /\ stage' = "built"
       \/ stage' = "failed" /\ UNCHANGED reveal
    /\ UNCHANGED <<plan, commit, bumps, payment>>

RevealSent ==
    /\ stage = "built" /\ stage' = "done"
    /\ UNCHANGED <<plan, commit, reveal, bumps, payment>>

\* The node finds the fee too low: built anew at a higher rate, if once more.
RevealRefused ==
    /\ stage = "built"
    /\ IF bumps = MaxBumps THEN stage' = "failed" /\ UNCHANGED <<reveal, bumps>>
       ELSE bumps' = bumps + 1 /\ reveal' = Built(BumpedRate) /\ UNCHANGED stage
    /\ UNCHANGED <<plan, commit, payment>>

\* The result is shown, or the error; the next inscription is another call.
Finish ==
    /\ stage \in {"done", "failed"}
    /\ stage' = "idle" /\ plan' = Nothing /\ commit' = Nothing /\ reveal' = Nothing
    /\ bumps' = 0
    /\ UNCHANGED payment

ConstructionNext ==
    \/ \E selected \in Coins \cup {NoCoin}, r \in FeeRates :
         \/ \E bytes \in Bodies : selected # NoCoin /\ PrepareSingle(selected, bytes, r)
         \/ \E items \in 1..MaxItems :
              \/ \E postage \in {Postage, 1000} : PrepareBatch(selected, items, postage, r)
              \/ \E bytes \in Bodies : PrepareMulti(selected, items, bytes, r)
    \/ SignCommit \/ CommitSent \/ Abandon
    \/ BuildReveal \/ RevealSent \/ RevealRefused
    \/ Finish
    \/ \E amount \in Payments, r \in FeeRates, mode \in {"closer", "largest", "older"},
          avoided \in SUBSET Coins, allowed \in BOOLEAN :
         payment = Nothing /\ Pay(amount, r, mode, avoided, allowed)

ConstructionSpec == ConstructionInit /\ [][ConstructionNext]_constructionVars

-----------------------------------------------------------------------------
ConstructionTypeOK ==
    /\ stage \in {"idle", "prepared", "signed", "sent", "built", "done", "failed"}
    /\ commit # Nothing => commit.coins \subseteq Coins /\ commit.change \in Nat
    /\ reveal # Nothing => reveal.size \in Nat \ {0} /\ reveal.change \in Nat
    /\ bumps \in 0..2

\* A reveal pays for its size whatever it gives back: with change it pays the
\* rate it was built for; without, the reveal of a single inscription of up to
\* 264 virtual bytes pays at least the rate the user chose, on its first build
\* and on every bumped one, and that of a batch does when its size was not
\* underestimated (reveal-transaction.ts:444-476, inscribe-with-satpoint.ts:130).
RevealPays ==
    reveal # Nothing =>
        /\ reveal.change > 0 => reveal.fee >= Fee(reveal.size, reveal.rate)
        /\ commit.of = "single" /\ reveal.size <= 264 =>
              reveal.fee >= Fee(reveal.size, plan.rate)
        /\ commit.of = "multi" /\ reveal.size <= RevealEstimate(plan.bytes, plan.items) =>
              reveal.fee >= Fee(reveal.size, plan.rate)

\* A selection for a payment balances, pays for the inputs it has, leaves no
\* dust, and takes no UTXO that holds a resource unless it may
\* (utxo-selection.ts:175-294); a commit that can be extracted pays for at
\* least one input, unless it is a batch's with one output.
SpendingBalances ==
    /\ payment # Nothing =>
        /\ Total(payment.coins) = payment.amount + payment.change + payment.fee
        /\ payment.fee >= Fee(PaymentSize(Cardinality(payment.coins)), payment.rate)
        /\ payment.change = 0 \/ payment.change >= Dust
        /\ payment.allowed \/ payment.coins \cap Resources = {}
    /\ stage = "signed" /\ commit.coins \cap Scriptless = {} /\ commit.of # "multi" =>
        /\ Total(commit.coins) = commit.outputs * commit.each + commit.change + commit.fee
        /\ commit.fee >= Fee(CommitSize(1, commit.outputs, TRUE), plan.rate)

\* What is selected, committed and revealed adds up at every stage: a reveal
\* of the size the code measured pays its rate out of what its commit put
\* aside, after any bumps, and coins, change and fee balance.
AmountsBalance == RevealPays /\ SpendingBalances
=============================================================================
