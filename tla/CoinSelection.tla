--------------------------- MODULE CoinSelection ---------------------------
(***************************************************************************)
(* The arithmetic of coin selection (src/api/mempool_api.go): how large a  *)
(* transaction is estimated to be, what it has to pay, what comes back as  *)
(* change, and selectInputs as one function of its arguments.              *)
(* InputSelection runs the loop of selectInputs step by step and is        *)
(* checked against the function given here; Spending uses the function.    *)
(*                                                                         *)
(* A UTXO is a record with at least the fields value (satoshi), scriptType *)
(* and validTxId: whether TxId is the 64 hex digits NewTxIn wants.         *)
(***************************************************************************)
EXTENDS Integers, Sequences, FiniteSetsExt

CONSTANT
  MaxInt  \* Largest value of Go's int: 2^63 - 1 in the program.

ASSUME MaxIntAssumption == MaxInt \in Nat \ {0}

(* "none" is the empty script of an output GetUTXOSetForAddress did not find. *)
ScriptTypes == {"v0_p2wpkh", "p2pkh", "p2sh", "none"}

UTXOs == [value : 0 .. MaxInt, scriptType : ScriptTypes, validTxId : BOOLEAN]

Ints == -(MaxInt + 1) .. MaxInt

(* A sum of two ints, kept in int's width (two's complement). *)
Wrap(n) ==
  IF n > MaxInt THEN n - 2 * (MaxInt + 1)
  ELSE IF n < -(MaxInt + 1) THEN n + 2 * (MaxInt + 1)
  ELSE n

(* Mutant of baseSize: the header is forgotten. *)
baseSizeHeaderless == 34

baseSize == 44           \* header (10) and the destination output (34)
legacyInputSize == 148
segwitInputSize == 68
changeOutputSize == 34

isSegwitUTXO(utxo) == utxo.scriptType = "v0_p2wpkh"

currentSize(countUtxoLegacy, countUtxoSegwit) ==
  baseSize + countUtxoLegacy * legacyInputSize + countUtxoSegwit * segwitInputSize

(* Mutant of Needed: the fee is left out of the comparison. *)
NeededWithoutFee(amount, fee) == amount

(* What must come in for amount to go out at this fee. *)
Needed(amount, fee) == Wrap(amount + fee)

(* Mutant of Remainder: the fee is not taken off. *)
RemainderWithFee(accumulated, amount, fee) == Wrap(accumulated - amount)

(* What is left over once amount and fee are paid. *)
Remainder(accumulated, amount, fee) == Wrap(Wrap(accumulated - amount) - fee)

(* Mutant of Settle: the change output is not paid for. *)
SettleWithoutResizing(accumulated, amount, size, feeRate) ==
  [fee    |-> size * feeRate,
   change |-> Remainder(accumulated, amount, size * feeRate)]

(* Mutant of Settle: change is never given. *)
SettleWithoutChange(accumulated, amount, size, feeRate) ==
  [fee |-> size * feeRate, change |-> 0]

(* Mutant of Settle: a change that does not pay for its output is kept. *)
SettleUnguarded(accumulated, amount, size, feeRate) ==
  LET fee == (size + changeOutputSize) * feeRate
  IN  [fee |-> fee, change |-> Remainder(accumulated, amount, fee)]

(***************************************************************************)
(* Fee and change once the inputs suffice: a remainder becomes a change    *)
(* output if it also pays for that output, and is left to the miners       *)
(* otherwise.                                                              *)
(***************************************************************************)
Settle(accumulated, amount, size, feeRate) ==
  LET fee           == size * feeRate
      change        == Remainder(accumulated, amount, fee)
      feeWithChange == (size + changeOutputSize) * feeRate
      newChange     == Remainder(accumulated, amount, feeWithChange)
  IN  IF change <= 0 THEN [fee |-> fee, change |-> change]
      ELSE IF newChange < 0 THEN [fee |-> fee, change |-> 0]
      ELSE [fee |-> feeWithChange, change |-> newChange]

(* Mutant of Less: the smallest value comes first. *)
LessAscending(u, v) == u.value < v.value

(* UtxoByValue.Less: the larger value comes first. *)
Less(u, v) == u.value > v.value

(***************************************************************************)
(* Every order sort.Sort may leave the pool in: descending values, in any  *)
(* order among equal ones, as sort.Sort is not stable.                     *)
(***************************************************************************)
SortedPools(pool) ==
  LET orders == {p \in [DOMAIN pool -> DOMAIN pool] : IsInjective(p)}
      moved(p) == [i \in DOMAIN pool |-> pool[p[i]]]
  IN  {moved(p) : p \in {q \in orders :
        \A i, j \in DOMAIN pool : i < j => ~Less(moved(q)[j], moved(q)[i])}}

(* Value and estimated size of a sequence of UTXOs. *)
ValueOf(utxos) == SumFunction([i \in DOMAIN utxos |-> utxos[i].value])

CountSegwit(utxos) == Cardinality({i \in DOMAIN utxos : isSegwitUTXO(utxos[i])})

SizeOf(utxos) == currentSize(Len(utxos) - CountSegwit(utxos), CountSegwit(utxos))

(***************************************************************************)
(* selectInputs on a sorted pool: the shortest prefix that covers amount   *)
(* and its own fee, or an error.                                           *)
(***************************************************************************)
selectInputs(pool, amount, feeRate) ==
  LET first(k)  == SubSeq(pool, 1, k)
      covers(k) == ValueOf(first(k)) >= Needed(amount, SizeOf(first(k)) * feeRate)
      badIds    == {k \in DOMAIN pool : ~pool[k].validTxId}
      stops     == {k \in DOMAIN pool : covers(k)} \cup badIds
      none      == [inputs |-> <<>>, fee |-> 0, change |-> 0]
  IN  IF stops = {} THEN [err |-> "insufficient", result |-> none]
      ELSE LET k == Min(stops)
               s == Settle(ValueOf(first(k)), amount, SizeOf(first(k)), feeRate)
           IN  IF ~pool[k].validTxId THEN [err |-> "badTxId", result |-> none]
               ELSE [err |-> "nil",
                     result |-> [inputs |-> first(k), fee |-> s.fee, change |-> s.change]]
=============================================================================
