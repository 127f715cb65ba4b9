--------------------------- MODULE InputSelection ---------------------------
(***************************************************************************)
(* selectInputs (src/api/mempool_api.go), one action per step of its loop. *)
(* It takes the UTXOs of all the wallet's addresses, sorts them by value   *)
(* and takes them one by one until they cover the amount and the fee of    *)
(* the transaction built so far. The caller builds the transaction from    *)
(* selectedInputs, amount and change: what is not change is the miners'.   *)
(***************************************************************************)
EXTENDS CoinSelection

CONSTANTS
  Pools,     \* Sequences of UTXOs that collectUTXOs may return.
  Amounts,   \* Amounts the user may ask to send: the callers refuse amount <= 0.
  FeeRates   \* FastestFee as the server may report it, in satoshi per vbyte.

ASSUME InputsAssumption ==
  /\ Pools \subseteq Seq(UTXOs)
  /\ Amounts \subseteq 1 .. MaxInt
  /\ FeeRates \subseteq Nat

(***************************************************************************)
(* No fee in the loop exceeds an int by itself: the size of a transaction  *)
(* times the rate is far from 2^63. It may do so added to the amount,      *)
(* which the command line does not bound.                                  *)
(***************************************************************************)
ASSUME FeesAssumption ==
  \A p \in Pools, r \in FeeRates :
    (currentSize(Len(p), 0) + changeOutputSize) * r <= MaxInt

(***************************************************************************)
(* An int holds all the satoshi there are (2.1e15 of 2^63), so what a pool *)
(* is worth, and the largest fee on top of it: accumulated itself never    *)
(* wraps around.                                                           *)
(***************************************************************************)
ASSUME SupplyAssumption ==
  \A p \in Pools, r \in FeeRates :
    ValueOf(p) + (currentSize(Len(p), 0) + changeOutputSize) * r <= MaxInt

VARIABLES
  pool,             \* The UTXOs, sorted once status has left "sorting".
  amount, feeRate,  \* The arguments: never assigned.
  status,           \* Where the function is, and how it returned.
  next,             \* Position in pool of the next UTXO of the loop.
  selectedInputs, accumulated, countUtxoLegacy, countUtxoSegwit, fee, change

args == <<amount, feeRate>>
counters == <<selectedInputs, accumulated, countUtxoLegacy, countUtxoSegwit>>
vars == <<pool, args, status, next, counters, fee, change>>

Returned == {"nil", "insufficient", "badTxId"}

TypeOK ==
  /\ pool \in Seq(UTXOs)
  /\ amount \in 1 .. MaxInt /\ feeRate \in Nat
  /\ status \in {"sorting", "looping", "leaving"} \cup Returned
  /\ next \in Nat \ {0} /\ next <= Len(pool) + 1
  /\ selectedInputs \in Seq(UTXOs)
  /\ accumulated \in Ints
  /\ countUtxoLegacy \in Nat /\ countUtxoSegwit \in Nat
  /\ fee \in Nat /\ change \in Int

Init ==
  /\ pool \in Pools /\ amount \in Amounts /\ feeRate \in FeeRates
  /\ status = "sorting" /\ next = 1
  /\ selectedInputs = <<>> /\ accumulated = 0
  /\ countUtxoLegacy = 0 /\ countUtxoSegwit = 0
  /\ fee = 0 /\ change = 0

(* sort.Sort(types.UtxoByValue(pool)) *)
SortPool ==
  /\ status = "sorting"
  /\ pool' \in SortedPools(pool)
  /\ status' = "looping"
  /\ UNCHANGED <<args, next, counters, fee, change>>

(* Mutant of Take: every other UTXO is passed over. *)
TakeSkippingOne(utxo) ==
  /\ accumulated' = Wrap(accumulated + utxo.value)
  /\ selectedInputs' = Append(selectedInputs, utxo)
  /\ IF isSegwitUTXO(utxo)
     THEN countUtxoSegwit' = countUtxoSegwit + 1 /\ UNCHANGED countUtxoLegacy
     ELSE countUtxoLegacy' = countUtxoLegacy + 1 /\ UNCHANGED countUtxoSegwit
  /\ next' = next + 2

(* The part of an iteration that adds pool[next] to the selection. *)
Take(utxo) ==
  /\ accumulated' = Wrap(accumulated + utxo.value)
  /\ selectedInputs' = Append(selectedInputs, utxo)
  /\ IF isSegwitUTXO(utxo)
     THEN countUtxoSegwit' = countUtxoSegwit + 1 /\ UNCHANGED countUtxoLegacy
     ELSE countUtxoLegacy' = countUtxoLegacy + 1 /\ UNCHANGED countUtxoSegwit
  /\ next' = next + 1

(* Mutant of RejectTxId: a UTXO with a malformed id is passed over. *)
RejectTxIdAndGoOn ==
  /\ status = "looping" /\ next <= Len(pool)
  /\ ~pool[next].validTxId
  /\ next' = next + 1
  /\ UNCHANGED <<pool, args, status, counters, fee, change>>

(* NewTxIn refuses the transaction id: the whole selection fails. *)
RejectTxId ==
  /\ status = "looping" /\ next <= Len(pool)
  /\ ~pool[next].validTxId
  /\ status' = "badTxId"
  /\ UNCHANGED <<pool, args, next, counters, fee, change>>

(* The inputs do not suffice yet: on to the next UTXO. *)
KeepLooking ==
  /\ status = "looping" /\ next <= Len(pool)
  /\ pool[next].validTxId
  /\ Take(pool[next])
  /\ fee' = currentSize(countUtxoLegacy', countUtxoSegwit') * feeRate
  /\ accumulated' < Needed(amount, fee')
  /\ UNCHANGED <<pool, args, status, change>>

(* They do: fee and change are settled and the loop is left. *)
StopLooking ==
  /\ status = "looping" /\ next <= Len(pool)
  /\ pool[next].validTxId
  /\ Take(pool[next])
  /\ LET size == currentSize(countUtxoLegacy', countUtxoSegwit')
         settled == Settle(accumulated', amount, size, feeRate)
     IN  /\ accumulated' >= Needed(amount, size * feeRate)
         /\ fee' = settled.fee
         /\ change' = settled.change
  /\ status' = "leaving"
  /\ UNCHANGED <<pool, args>>

(* The pool is exhausted. *)
LeaveLoop ==
  /\ status = "looping" /\ next > Len(pool)
  /\ status' = "leaving"
  /\ UNCHANGED <<pool, args, next, counters, fee, change>>

(* Mutant of Return: inputs that suffice exactly are refused. *)
ReturnUnlessMore ==
  /\ status = "leaving"
  /\ status' = IF accumulated <= Needed(amount, fee) THEN "insufficient" ELSE "nil"
  /\ UNCHANGED <<pool, args, next, counters, fee, change>>

(* The final test decides between the error and the result. *)
Return ==
  /\ status = "leaving"
  /\ status' = IF accumulated < Needed(amount, fee) THEN "insufficient" ELSE "nil"
  /\ UNCHANGED <<pool, args, next, counters, fee, change>>

Step == SortPool \/ RejectTxId \/ KeepLooking \/ StopLooking \/ LeaveLoop \/ Return

(* The function has returned. *)
Done == status \in Returned /\ UNCHANGED vars

Next == Step \/ Done

Spec == Init /\ [][Next]_vars
-----------------------------------------------------------------------------
(***************************************************************************)
(* Properties. In a request "in range" the amount and the largest fee the  *)
(* pool can lead to fit an int together, so that no sum wraps around. The  *)
(* command line admits larger amounts: OverflowUnspendable is about them.  *)
(***************************************************************************)
LargestFee == (currentSize(Len(pool), 0) + changeOutputSize) * feeRate

InRange == amount + LargestFee <= MaxInt

(* What the transaction built from the result leaves to the miners. *)
paid == accumulated - amount - change

(* Its estimated size, with the change output if it gets one. *)
builtSize ==
  currentSize(countUtxoLegacy, countUtxoSegwit)
    + (IF change > 0 THEN changeOutputSize ELSE 0)

(* Spending the UTXOs at these positions covers the amount and its own fee. *)
Covers(choice) ==
  LET segwit == {i \in choice : isSegwitUTXO(pool[i])}
  IN  MapThenSumSet(LAMBDA i : pool[i].value, choice)
        >= amount + feeRate * currentSize(Cardinality(choice \ segwit), Cardinality(segwit))

(* All UTXOs of the pool cost the same to spend. *)
OneKind == \A i, j \in DOMAIN pool : isSegwitUTXO(pool[i]) <=> isSegwitUTXO(pool[j])

(***************************************************************************)
(* The transaction the caller builds pays at least feeRate for every       *)
(* vbyte of its own estimated size, whether or not it got a change output, *)
(* and no output is negative.                                              *)
(***************************************************************************)
FeeRateHonoured ==
  status = "nil" /\ InRange => change >= 0 /\ paid >= builtSize * feeRate

(***************************************************************************)
(* Dropping a change output that does not pay for itself costs the user at *)
(* most the price of that output; with a change output nothing is lost and *)
(* the fee returned is the fee paid.                                       *)
(***************************************************************************)
WasteBounded ==
  status = "nil" /\ InRange =>
    /\ paid - builtSize * feeRate <= changeOutputSize * feeRate
    /\ change > 0 => paid = builtSize * feeRate /\ paid = fee

(***************************************************************************)
(* An amount near the largest int wraps around with its fee, so that the   *)
(* test lets inputs pass that do not suffice and the change is anything.   *)
(* Even then no such result can cost the user anything: it pays the fee of *)
(* its own size or its outputs are worth more than its inputs, which no    *)
(* node accepts.                                                           *)
(***************************************************************************)
OverflowUnspendable ==
  status = "nil" =>
    LET left == accumulated - amount - (IF change > 0 THEN change ELSE 0)
    IN  left < 0 \/ left >= builtSize * feeRate

(***************************************************************************)
(* "insufficient funds" is returned only if spending the whole pool does   *)
(* not cover the amount and the fee of doing so.                           *)
(***************************************************************************)
RefusalJustified == status = "insufficient" /\ InRange => ~Covers(DOMAIN pool)

(***************************************************************************)
(* On a pool of one kind of UTXO the greedy choice is optimal: a refusal   *)
(* means that no choice of inputs would do, and a selection that none with *)
(* fewer inputs would.                                                     *)
(***************************************************************************)
OptimalForOneKind ==
  InRange /\ OneKind =>
    /\ status = "insufficient" => \A c \in SUBSET DOMAIN pool : ~Covers(c)
    /\ status = "nil" =>
         \A c \in SUBSET DOMAIN pool :
           Covers(c) => Cardinality(c) >= Len(selectedInputs)

(***************************************************************************)
(* What the text of the error says of every pool: the amount cannot be     *)
(* sent with the funds there are. A pool that mixes both kinds refutes it: *)
(* a legacy UTXO worth less than its own fee comes first and stays in.     *)
(***************************************************************************)
RefusalMeansInsufficient ==
  status = "insufficient" /\ InRange => \A c \in SUBSET DOMAIN pool : ~Covers(c)

(* The loop computes selectInputs, the function the other modules use. *)
AgreesWithFunction ==
  status \in Returned =>
    LET f == selectInputs(pool, amount, feeRate)
    IN  /\ f.err = status
        /\ status = "nil" =>
             f.result = [inputs |-> selectedInputs, fee |-> fee, change |-> change]
=============================================================================
