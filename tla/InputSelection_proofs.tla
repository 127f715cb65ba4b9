------------------------ MODULE InputSelection_proofs ------------------------
(***************************************************************************)
(* What InputSelection promises of the fee, of the choice of inputs and of *)
(* a refusal, proved for every pool, every amount, every rate and every    *)
(* width of int.                                                           *)
(***************************************************************************)
EXTENDS InputSelection, CoinSelection_proofs

(***************************************************************************)
(* The inductive invariant. The counters count the UTXOs passed, which     *)
(* bounds the size by that of LargestFee; the loop goes on only while the  *)
(* inputs do not suffice; and once it is left, either they still do not or *)
(* fee and change are settled.                                             *)
(***************************************************************************)
CountsInv ==
  /\ countUtxoLegacy + countUtxoSegwit = next - 1
  /\ (currentSize(Len(pool), 0) + changeOutputSize) * feeRate <= MaxInt

LoopInv ==
  status \in {"sorting", "looping"} => accumulated < Needed(amount, fee)

Settled ==
  /\ change >= 0
  /\ paid >= builtSize * feeRate
  /\ paid - builtSize * feeRate <= changeOutputSize * feeRate
  /\ change > 0 => paid = builtSize * feeRate /\ paid = fee

LeftInv ==
  /\ status = "leaving" /\ InRange => accumulated < Needed(amount, fee) \/ Settled
  /\ status = "nil" /\ InRange => Settled

IInv == TypeOK /\ CountsInv /\ LoopInv /\ LeftInv

(* The initial states satisfy the invariant. *)
LEMMA InitIInv == Init => IInv
<1> SUFFICES ASSUME Init PROVE IInv
  OBVIOUS
<1>1. pool \in Seq(UTXOs) /\ amount \in 1 .. MaxInt /\ feeRate \in Nat
  BY InputsAssumption DEF Init
<1>2. TypeOK
  BY <1>1, MaxIntAssumption DEF Init, TypeOK, Ints
<1>3. CountsInv
  BY FeesAssumption DEF Init, CountsInv
<1>4. LoopInv
  <2>1. Needed(amount, 0) = amount
    BY <1>1, MaxIntAssumption, WrapInRange DEF Needed, Ints
  <2> QED
    BY <1>1, <2>1 DEF Init, LoopInv
<1> QED
  BY <1>2, <1>3, <1>4 DEF IInv, LeftInv, Init

(***************************************************************************)
(* Taking a UTXO keeps the types and the count, and the fees the loop can  *)
(* compute next stay below LargestFee.                                     *)
(***************************************************************************)
LEMMA TakeStep ==
  ASSUME IInv, next <= Len(pool), Take(pool[next])
  PROVE  /\ next' \in Nat \ {0} /\ next' <= Len(pool) + 1
         /\ selectedInputs' \in Seq(UTXOs)
         /\ accumulated' \in Ints
         /\ countUtxoLegacy' \in Nat /\ countUtxoSegwit' \in Nat
         /\ countUtxoLegacy' + countUtxoSegwit' = next' - 1
         /\ next' - 1 <= Len(pool)
<1>1. pool[next] \in UTXOs
  BY DEF IInv, TypeOK
<1>2. accumulated' \in Ints
  <2>1. pool[next].value \in Ints
    BY <1>1, MaxIntAssumption DEF UTXOs, Ints
  <2> QED
    BY <2>1, WrapType DEF Take, IInv, TypeOK
<1>3. selectedInputs' \in Seq(UTXOs)
  BY <1>1 DEF Take, IInv, TypeOK
<1>4. /\ next \in Nat \ {0} /\ Len(pool) \in Nat
      /\ countUtxoLegacy \in Nat /\ countUtxoSegwit \in Nat
      /\ countUtxoLegacy + countUtxoSegwit = next - 1
  BY DEF IInv, TypeOK, CountsInv
<1>5. /\ next' = next + 1
      /\ \/ countUtxoSegwit' = countUtxoSegwit + 1 /\ countUtxoLegacy' = countUtxoLegacy
         \/ countUtxoLegacy' = countUtxoLegacy + 1 /\ countUtxoSegwit' = countUtxoSegwit
  BY DEF Take
<1> QED
  BY <1>2, <1>3, <1>4, <1>5

(* Every step keeps the invariant. *)
LEMMA NextIInv == IInv /\ [Next]_vars => IInv'
<1> SUFFICES ASSUME IInv, [Next]_vars PROVE IInv'
  OBVIOUS
<1> USE DEF IInv
<1>1. CASE SortPool
  <2>1. pool' \in Seq(UTXOs) /\ Len(pool') = Len(pool)
    BY <1>1, SortedPoolsType DEF SortPool, TypeOK
  <2>2. TypeOK'
    BY <1>1, <2>1 DEF SortPool, TypeOK, args, counters
  <2>3. CountsInv'
    BY <1>1, <2>1 DEF SortPool, CountsInv, args, counters
  <2>4. LoopInv' /\ LeftInv'
    BY <1>1 DEF SortPool, LoopInv, LeftInv, args, counters
  <2> QED
    BY <2>2, <2>3, <2>4
<1>2. CASE RejectTxId
  BY <1>2 DEF RejectTxId, TypeOK, CountsInv, LoopInv, LeftInv, Returned, args, counters
<1>3. CASE KeepLooking
  <2>1. /\ status = "looping" /\ status' = "looping" /\ next <= Len(pool) /\ Take(pool[next])
        /\ UNCHANGED <<pool, amount, feeRate, change>>
        /\ fee' = currentSize(countUtxoLegacy', countUtxoSegwit') * feeRate
        /\ accumulated' < Needed(amount, fee')
    BY <1>3 DEF KeepLooking, args
  <2>2. /\ next' \in Nat \ {0} /\ next' <= Len(pool) + 1
        /\ selectedInputs' \in Seq(UTXOs)
        /\ accumulated' \in Ints
        /\ countUtxoLegacy' \in Nat /\ countUtxoSegwit' \in Nat
        /\ countUtxoLegacy' + countUtxoSegwit' = next' - 1
    BY <2>1, TakeStep
  <2>3. fee' \in Nat
    <3> DEFINE size == currentSize(countUtxoLegacy', countUtxoSegwit')
    <3>1. size \in Nat /\ feeRate \in Nat
      BY <2>2, SizeType DEF TypeOK
    <3> HIDE DEF size
    <3>2. size * feeRate \in Nat
      BY <3>1
    <3> QED
      BY <2>1, <3>2 DEF size
  <2>4. TypeOK'
    BY <2>1, <2>2, <2>3 DEF TypeOK
  <2>5. CountsInv'
    BY <2>1, <2>2 DEF CountsInv
  <2>6. LoopInv' /\ LeftInv'
    BY <2>1 DEF LoopInv, LeftInv
  <2> QED
    BY <2>4, <2>5, <2>6
<1>4. CASE StopLooking
  <2> DEFINE size == currentSize(countUtxoLegacy', countUtxoSegwit')
             settled == Settle(accumulated', amount, size, feeRate)
  <2>1. /\ status = "looping" /\ status' = "leaving" /\ next <= Len(pool) /\ Take(pool[next])
        /\ UNCHANGED <<pool, amount, feeRate>>
        /\ accumulated' >= Needed(amount, size * feeRate)
        /\ fee' = settled.fee /\ change' = settled.change
    BY <1>4 DEF StopLooking, args
  <2>2. /\ next' \in Nat \ {0} /\ next' <= Len(pool) + 1
        /\ selectedInputs' \in Seq(UTXOs)
        /\ accumulated' \in Ints
        /\ countUtxoLegacy' \in Nat /\ countUtxoSegwit' \in Nat
        /\ countUtxoLegacy' + countUtxoSegwit' = next' - 1
        /\ next' - 1 <= Len(pool)
    BY <2>1, TakeStep
  <2>3. /\ size \in Nat /\ feeRate \in Nat /\ amount \in 1 .. MaxInt
        /\ size * feeRate <= LargestFee
        /\ (size + changeOutputSize) * feeRate <= LargestFee
        /\ (size + changeOutputSize) * feeRate = size * feeRate + changeOutputSize * feeRate
        /\ size * feeRate \in Nat
        /\ (size + changeOutputSize) * feeRate \in Nat
        /\ LargestFee \in Nat
    <3>1. /\ size \in Nat /\ feeRate \in Nat /\ amount \in 1 .. MaxInt
          /\ Len(pool) \in Nat /\ countUtxoLegacy' + countUtxoSegwit' <= Len(pool)
      BY <2>2, SizeType DEF TypeOK
    <3>2. /\ size * feeRate <= LargestFee
          /\ (size + changeOutputSize) * feeRate <= LargestFee
          /\ (size + changeOutputSize) * feeRate = size * feeRate + changeOutputSize * feeRate
          /\ size * feeRate \in Nat
          /\ (size + changeOutputSize) * feeRate \in Nat
          /\ LargestFee \in Nat
      BY ONLY <2>2, <3>1, SizeBound DEF LargestFee
    <3> QED
      BY <3>1, <3>2
  <2>4. TypeOK'
    <3>1. fee' \in Nat /\ change' \in Int
      <4>1. Remainder(accumulated', amount, size * feeRate) \in Int
              /\ Remainder(accumulated', amount, (size + changeOutputSize) * feeRate) \in Int
        <5> HIDE DEF size
        <5> QED
          BY <2>2, <2>3, MaxIntAssumption, RemainderType
      <4> HIDE DEF size
      <4> QED
        BY <2>1, <2>3, <4>1 DEF Settle
    <3> QED
      BY <2>1, <2>2, <3>1 DEF TypeOK
  <2>5. CountsInv'
    BY <2>1, <2>2 DEF CountsInv
  <2>6. LeftInv'
    <3> SUFFICES ASSUME InRange' PROVE Settled'
      BY <2>1 DEF LeftInv
    <3>1. amount + LargestFee <= MaxInt
      BY <2>1 DEF InRange, LargestFee
    <3>3. amount + (size + changeOutputSize) * feeRate <= MaxInt
      <4> HIDE DEF size
      <4> QED
        BY <2>3, <3>1, MaxIntAssumption
    <3>4. /\ change' \in Nat
          /\ change' > 0 =>
               /\ accumulated' - amount - change' = (size + changeOutputSize) * feeRate
               /\ accumulated' - amount - change' = fee'
          /\ change' = 0 =>
               /\ accumulated' - amount - change' >= size * feeRate
               /\ accumulated' - amount - change' - size * feeRate
                    <= changeOutputSize * feeRate
      <4> HIDE DEF size
      <4>1. /\ accumulated' \in Ints /\ amount \in 1 .. MaxInt /\ size \in Nat /\ feeRate \in Nat
            /\ accumulated' >= Needed(amount, size * feeRate)
        BY <2>1, <2>2, <2>3
      <4>2. LET s == Settle(accumulated', amount, size, feeRate)
                p == accumulated' - amount - s.change
            IN  /\ s.fee \in Nat /\ s.change \in Nat
                /\ s.change > 0 => p = (size + changeOutputSize) * feeRate /\ p = s.fee
                /\ s.change = 0 => /\ p >= size * feeRate
                                   /\ p - size * feeRate <= changeOutputSize * feeRate
        BY ONLY <2>3, <3>3, <4>1, SettleCorrect
      <4> QED
        BY <2>1, <4>2
    <3>5. changeOutputSize * feeRate \in Nat /\ accumulated' \in Int
      BY <2>2, <2>3, MaxIntAssumption DEF changeOutputSize, Ints
    <3>6. CASE change' = 0
      <4>1. builtSize' = size
        BY <2>3, <3>6 DEF builtSize
      <4>2. paid' = accumulated' - amount - change'
        BY <2>1 DEF paid
      <4> HIDE DEF size
      <4> QED
        BY <2>1, <3>4, <3>6, <4>1, <4>2 DEF Settled
    <3>7. CASE change' > 0
      <4>1. builtSize' = size + changeOutputSize
        BY <3>7 DEF builtSize
      <4>2. paid' = accumulated' - amount - change'
        BY <2>1 DEF paid
      <4>3. paid' = builtSize' * feeRate /\ paid' = fee'
        BY <3>4, <3>7, <4>1, <4>2
      <4>4. builtSize' * feeRate \in Nat
        BY <2>3, <4>1
      <4> HIDE DEF size
      <4> QED
        BY <2>1, <3>4, <3>5, <4>3, <4>4 DEF Settled
    <3> QED
      BY <3>4, <3>6, <3>7
  <2>7. LoopInv'
    BY <2>1 DEF LoopInv
  <2> QED
    BY <2>4, <2>5, <2>6, <2>7
<1>5. CASE LeaveLoop
  BY <1>5 DEF LeaveLoop, TypeOK, CountsInv, LoopInv, LeftInv, args, counters
<1>6. CASE Return
  <2>1. /\ status = "leaving"
        /\ status' = IF accumulated < Needed(amount, fee) THEN "insufficient" ELSE "nil"
        /\ UNCHANGED <<pool, amount, feeRate, next, selectedInputs, accumulated,
                       countUtxoLegacy, countUtxoSegwit, fee, change>>
    BY <1>6 DEF Return, args, counters
  <2>2. TypeOK' /\ CountsInv' /\ LoopInv'
    BY <2>1 DEF TypeOK, CountsInv, LoopInv, Returned
  <2>3. LeftInv'
    BY <2>1 DEF LeftInv, Settled, InRange, LargestFee, paid, builtSize
  <2> QED
    BY <2>2, <2>3
<1>7. CASE UNCHANGED vars
  BY <1>7 DEF vars, args, counters, TypeOK, CountsInv, LoopInv, LeftInv, Settled, InRange,
              LargestFee, paid, builtSize
<1> QED
  BY <1>1, <1>2, <1>3, <1>4, <1>5, <1>6, <1>7 DEF Next, Step, Done

(* The invariant holds in every reachable state. *)
THEOREM Invariance == Spec => []IInv
BY InitIInv, NextIInv, PTL DEF Spec

(* Every variable keeps its type: fee and change never leave the integers. *)
THEOREM TypeCorrect == Spec => []TypeOK
<1>1. IInv => TypeOK
  BY DEF IInv
<1> QED
  BY <1>1, Invariance, PTL

(***************************************************************************)
(* Whatever the pool, the amount and the rate, a transaction built from a  *)
(* result in range pays the fee of its own size.                           *)
(***************************************************************************)
THEOREM FeeHonoured == Spec => []FeeRateHonoured
<1>1. IInv => FeeRateHonoured
  BY DEF IInv, LeftInv, Settled, FeeRateHonoured
<1> QED
  BY <1>1, Invariance, PTL

(* It pays at most the price of one change output more, and that only *)
(* when it has none.                                                   *)
THEOREM Waste == Spec => []WasteBounded
<1>1. IInv => WasteBounded
  BY DEF IInv, LeftInv, Settled, WasteBounded
<1> QED
  BY <1>1, Invariance, PTL
-----------------------------------------------------------------------------
(***************************************************************************)
(* What the loop has computed so far, against selectInputs: the selection  *)
(* is the prefix before next, the counters measure it, no shorter prefix   *)
(* covers the amount and its fee, and the loop was left either with the    *)
(* pool exhausted or at a prefix that does.                                *)
(***************************************************************************)
First(k) == SubSeq(pool, 1, k)

Enough(k) == ValueOf(First(k)) >= Needed(amount, SizeOf(First(k)) * feeRate)

Selected ==
  /\ selectedInputs = First(next - 1)
  /\ accumulated = ValueOf(First(next - 1))
  /\ countUtxoSegwit = CountSegwit(First(next - 1))

Passed ==
  /\ \A k \in 1 .. next - 1 : pool[k].validTxId
  /\ \A k \in 1 .. next - 2 : ~Enough(k)

NotYet ==
  /\ fee = IF next = 1 THEN 0 ELSE SizeOf(First(next - 1)) * feeRate
  /\ change = 0
  /\ ~(accumulated >= Needed(amount, fee))

Exhausted == NotYet /\ next = Len(pool) + 1

Stopped ==
  /\ next > 1 /\ Enough(next - 1)
  /\ [fee |-> fee, change |-> change] =
       Settle(ValueOf(First(next - 1)), amount, SizeOf(First(next - 1)), feeRate)
  /\ accumulated >= Needed(amount, fee)

WhereInv ==
  /\ status \in {"sorting", "looping", "badTxId"} => NotYet
  /\ status = "sorting" => next = 1
  /\ status = "badTxId" => next <= Len(pool) /\ ~pool[next].validTxId
  /\ status = "leaving" => Exhausted \/ Stopped
  /\ status = "insufficient" => Exhausted
  /\ status = "nil" => Stopped
  /\ status # "sorting" => Descending(pool)

SelInv == ValueOf(pool) <= MaxInt /\ Selected /\ Passed /\ WhereInv

(* What is needed is an integer, whether or not the sum has wrapped around. *)
LEMMA NeededType ==
  ASSUME NEW a \in Int, NEW f \in Int
  PROVE  Needed(a, f) \in Int
<1>1. a + f \in Int /\ MaxInt \in Int
  BY MaxIntAssumption
<1> QED
  BY <1>1 DEF Needed, Wrap

(* UTXOs have values, and a pool is made of UTXOs. *)
LEMMA PoolValued ==
  ASSUME TypeOK
  PROVE  /\ Valued(UTXOs) /\ pool \in Seq(UTXOs) /\ Len(pool) \in Nat
         /\ next \in Nat /\ next - 1 \in 0 .. Len(pool)
BY MaxIntAssumption DEF TypeOK, Valued, UTXOs

(***************************************************************************)
(* After a UTXO is taken the selection is the prefix that ends with it,    *)
(* and the counters are its measures: no sum has wrapped around.           *)
(***************************************************************************)
LEMMA Taken ==
  ASSUME IInv, SelInv, next <= Len(pool), Take(pool[next])
  PROVE  /\ next' = next + 1
         /\ selectedInputs' = First(next)
         /\ accumulated' = ValueOf(First(next)) /\ accumulated' \in 0 .. MaxInt
         /\ countUtxoSegwit' = CountSegwit(First(next))
         /\ currentSize(countUtxoLegacy', countUtxoSegwit') = SizeOf(First(next))
         /\ SizeOf(First(next)) \in Nat
<1> DEFINE k == next - 1
<1>1. /\ Valued(UTXOs) /\ pool \in Seq(UTXOs) /\ Len(pool) \in Nat
      /\ k \in Nat /\ k + 1 = next /\ k + 1 <= Len(pool) /\ next \in 0 .. Len(pool)
  BY PoolValued DEF IInv, TypeOK
<1>2. /\ SubSeq(pool, 1, next) = Append(SubSeq(pool, 1, k), pool[next])
      /\ ValueOf(SubSeq(pool, 1, next)) = ValueOf(SubSeq(pool, 1, k)) + pool[next].value
      /\ CountSegwit(SubSeq(pool, 1, next)) =
           CountSegwit(SubSeq(pool, 1, k)) + (IF isSegwitUTXO(pool[next]) THEN 1 ELSE 0)
  <2> HIDE DEF k
  <2> QED
    BY <1>1, PrefixStep
<1>3. /\ selectedInputs = SubSeq(pool, 1, k) /\ accumulated = ValueOf(SubSeq(pool, 1, k))
      /\ countUtxoSegwit = CountSegwit(SubSeq(pool, 1, k))
  BY DEF SelInv, Selected, First
<1>4. /\ ValueOf(SubSeq(pool, 1, next)) <= ValueOf(pool) /\ ValueOf(pool) <= MaxInt
      /\ ValueOf(SubSeq(pool, 1, next)) \in Nat
      /\ Len(SubSeq(pool, 1, next)) = next
      /\ CountSegwit(SubSeq(pool, 1, next)) \in 0 .. next
      /\ ValueOf(pool) \in Int
  <2>1. ValueOf(pool) \in Int
    BY <1>1, WholeMeasures
  <2> QED
    BY <1>1, <2>1, PrefixOfWhole, PrefixMeasures DEF SelInv
<1>5. /\ accumulated' = Wrap(accumulated + pool[next].value)
      /\ selectedInputs' = Append(selectedInputs, pool[next])
      /\ countUtxoSegwit' = countUtxoSegwit + (IF isSegwitUTXO(pool[next]) THEN 1 ELSE 0)
      /\ countUtxoLegacy' = countUtxoLegacy + (IF isSegwitUTXO(pool[next]) THEN 0 ELSE 1)
      /\ next' = next + 1
  BY DEF Take, IInv, TypeOK
<1>6. accumulated' = ValueOf(SubSeq(pool, 1, next)) /\ accumulated' \in 0 .. MaxInt
  <2>1. ValueOf(SubSeq(pool, 1, next)) \in Ints /\ ValueOf(SubSeq(pool, 1, next)) \in 0 .. MaxInt
    BY <1>4, MaxIntAssumption DEF Ints
  <2> HIDE DEF k
  <2>2. accumulated' = Wrap(ValueOf(SubSeq(pool, 1, next)))
    BY <1>2, <1>3, <1>5
  <2> QED
    BY <2>1, <2>2, WrapInRange
<1>7. countUtxoSegwit' = CountSegwit(SubSeq(pool, 1, next))
  <2> HIDE DEF k
  <2> QED
    BY <1>2, <1>3, <1>5
<1>8. countUtxoLegacy' = next - CountSegwit(SubSeq(pool, 1, next)) /\ countUtxoLegacy' \in Nat
  BY <1>1, <1>5, <1>7 DEF IInv, TypeOK, CountsInv
<1>9. currentSize(countUtxoLegacy', countUtxoSegwit') = SizeOf(SubSeq(pool, 1, next))
  BY <1>4, <1>7, <1>8 DEF SizeOf
<1>10. SizeOf(SubSeq(pool, 1, next)) \in Nat
  <2>1. countUtxoSegwit' \in Nat
    BY <1>4, <1>7
  <2> QED
    BY <1>8, <1>9, <2>1, SizeType
<1>11. selectedInputs' = SubSeq(pool, 1, next)
  BY <1>2, <1>3, <1>5
<1> QED
  BY <1>5, <1>6, <1>7, <1>9, <1>10, <1>11 DEF First

(***************************************************************************)
(* The pool and the largest fee on top of it fit an int: they do at first, *)
(* and sorting changes neither.                                            *)
(***************************************************************************)
WorthInv == ValueOf(pool) + LargestFee <= MaxInt

(* What a pool is worth and the fee it can lead to are natural numbers. *)
LEMMA WorthType == TypeOK => ValueOf(pool) \in Nat /\ LargestFee \in Nat
<1> SUFFICES ASSUME TypeOK PROVE ValueOf(pool) \in Nat /\ LargestFee \in Nat
  OBVIOUS
<1>1. Valued(UTXOs) /\ pool \in Seq(UTXOs) /\ Len(pool) \in Nat /\ feeRate \in Nat
  BY PoolValued DEF TypeOK
<1>2. ValueOf(pool) \in Nat
  BY <1>1, WholeMeasures
<1>3. LargestFee \in Nat
  <2>1. (currentSize(Len(pool), 0) + changeOutputSize) * feeRate \in Nat
    <3>1. Len(pool) + 0 <= Len(pool)
      BY <1>1
    <3> QED
      BY <1>1, <3>1, SizeBound
  <2> QED
    BY <2>1 DEF LargestFee
<1> QED
  BY <1>2, <1>3

(* The initial states satisfy it, by what the supply allows. *)
LEMMA InitWorth == Init => WorthInv
<1> SUFFICES ASSUME Init PROVE WorthInv
  OBVIOUS
<1>1. pool \in Pools /\ feeRate \in FeeRates
  BY DEF Init
<1> QED
  BY <1>1, SupplyAssumption DEF WorthInv, LargestFee

(* Every step keeps it. *)
LEMMA NextWorth == IInv /\ WorthInv /\ [Next]_vars => WorthInv'
<1> SUFFICES ASSUME IInv, WorthInv, [Next]_vars PROVE WorthInv'
  OBVIOUS
<1>1. CASE SortPool
  <2>1. pool' \in SortedPools(pool) /\ feeRate' = feeRate
    BY <1>1 DEF SortPool, args
  <2>2. Valued(UTXOs) /\ pool \in Seq(UTXOs)
    BY PoolValued DEF IInv
  <2>3. ValueOf(pool') = ValueOf(pool) /\ Len(pool') = Len(pool)
    BY <2>1, <2>2, SortedPoolsValue, SortedPoolsType
  <2> QED
    BY <2>1, <2>3 DEF WorthInv, LargestFee
<1>2. CASE UNCHANGED <<pool, feeRate>>
  BY <1>2 DEF WorthInv, LargestFee
<1> QED
  BY <1>1, <1>2 DEF Next, Step, Done, RejectTxId, KeepLooking, StopLooking, LeaveLoop, Return,
                    vars, args

(* Nothing is selected at first. *)
LEMMA InitSelInv == Init => SelInv
<1> SUFFICES ASSUME Init PROVE SelInv
  OBVIOUS
<1>0. IInv /\ TypeOK
  BY InitIInv DEF IInv
<1>1. pool \in Pools /\ next = 1 /\ ValueOf(pool) <= MaxInt
  <2>1. ValueOf(pool) + LargestFee <= MaxInt
    BY InitWorth DEF WorthInv
  <2>2. ValueOf(pool) \in Nat /\ LargestFee \in Nat
    BY <1>0, WorthType
  <2> QED
    BY <2>1, <2>2, MaxIntAssumption DEF Init
<1>2. First(0) = <<>> /\ ValueOf(First(0)) = 0 /\ CountSegwit(First(0)) = 0
  <2>1. 0 \in 0 .. Len(pool) /\ 1 .. 0 = {}
    BY <1>0, PoolValued
  <2>2. /\ SubSeq(pool, 1, 0) \in Seq(UTXOs) /\ Len(SubSeq(pool, 1, 0)) = 0
        /\ ValueOf(SubSeq(pool, 1, 0)) = SumOver(ValuesOf(pool), 1 .. 0)
        /\ CountSegwit(SubSeq(pool, 1, 0)) \in 0 .. 0
    BY <1>0, <2>1, PoolValued, PrefixMeasures
  <2>3. SumOver(ValuesOf(pool), {}) = 0
    BY SumEmpty
  <2> QED
    BY <2>1, <2>2, <2>3 DEF First
<1>3. Selected /\ Passed
  BY <1>1, <1>2 DEF Init, Selected, Passed
<1>4. NotYet
  <2>1. accumulated < Needed(amount, fee)
    BY <1>0 DEF IInv, LoopInv, Init
  <2>2. Needed(amount, fee) \in Int
    <3>1. amount \in Int /\ fee \in Int
      BY <1>0, MaxIntAssumption DEF TypeOK
    <3> QED
      BY <3>1, NeededType
  <2> QED
    BY <1>1, <2>1, <2>2 DEF Init, NotYet
<1> QED
  BY <1>1, <1>3, <1>4 DEF SelInv, WhereInv, Init

(* Every step keeps the comparison. *)
LEMMA NextSelInv == IInv /\ IInv' /\ SelInv /\ [Next]_vars => SelInv'
<1> SUFFICES ASSUME IInv, IInv', SelInv, [Next]_vars PROVE SelInv'
  OBVIOUS
<1> USE DEF args, counters
<1>0. next \in Nat /\ next > 0 /\ amount \in 1 .. MaxInt /\ feeRate \in Nat
  BY DEF IInv, TypeOK
<1>1. CASE SortPool
  <2>1. /\ status = "sorting" /\ status' = "looping" /\ next = 1 /\ pool' \in SortedPools(pool)
        /\ UNCHANGED <<amount, feeRate, next, selectedInputs, accumulated, countUtxoLegacy,
                       countUtxoSegwit, fee, change>>
    BY <1>1 DEF SortPool, SelInv, WhereInv
  <2>2. Valued(UTXOs) /\ pool \in Seq(UTXOs)
    BY PoolValued DEF IInv
  <2>3. ValueOf(pool') = ValueOf(pool) /\ Descending(pool')
    BY <2>1, <2>2, SortedPoolsValue
  <2>4. First(0)' = First(0)
    BY <2>1, <2>2, SortedPoolsValue DEF First
  <2>5. Selected' /\ Passed'
    BY <2>1, <2>4 DEF SelInv, Selected, Passed
  <2>6. NotYet'
    BY <2>1 DEF SelInv, WhereInv, NotYet
  <2> QED
    BY <2>1, <2>3, <2>5, <2>6 DEF SelInv, WhereInv
<1>2. CASE RejectTxId
  BY <1>2 DEF RejectTxId, SelInv, Selected, Passed, WhereInv, NotYet, Exhausted, Stopped, First, Enough
<1>3. CASE KeepLooking
  <2>1. /\ status = "looping" /\ status' = "looping" /\ next <= Len(pool) /\ Take(pool[next])
        /\ pool[next].validTxId
        /\ UNCHANGED <<pool, amount, feeRate, change>>
        /\ fee' = currentSize(countUtxoLegacy', countUtxoSegwit') * feeRate
        /\ accumulated' < Needed(amount, fee')
    BY <1>3 DEF KeepLooking
  <2>2. /\ next' = next + 1 /\ selectedInputs' = First(next)
        /\ accumulated' = ValueOf(First(next))
        /\ accumulated' \in Int
        /\ countUtxoSegwit' = CountSegwit(First(next))
        /\ fee' = SizeOf(First(next)) * feeRate
    BY <2>1, Taken
  <2>3. next' - 1 = next /\ next' - 2 = next - 1 /\ next \in Nat /\ next > 0
    BY <1>0, <2>2
  <2>4. First(next - 1)' = First(next) /\ \A k : Enough(k)' <=> Enough(k)
    <3>1. First(next - 1)' = First(next)
      BY <2>1, <2>3 DEF First
    <3>2. \A k : Enough(k)' <=> Enough(k)
      BY <2>1 DEF First, Enough
    <3> QED
      BY <3>1, <3>2
  <2>5. Selected'
    BY <2>2, <2>3, <2>4 DEF Selected
  <2>6. NotYet
    BY <2>1 DEF SelInv, WhereInv
  <2>7. next > 1 => ~Enough(next - 1)
    BY <2>6 DEF NotYet, Enough, SelInv, Selected
  <2>8. Passed'
    <3>1. \A k \in 1 .. next : pool[k].validTxId
      BY <2>1, <2>3 DEF SelInv, Passed
    <3>2. \A k \in 1 .. next - 1 : ~Enough(k)
      BY <2>3, <2>7 DEF SelInv, Passed
    <3> QED
      BY <2>1, <2>3, <2>4, <3>1, <3>2 DEF Passed
  <2>9. NotYet'
    <3>1. change = 0
      BY <2>6 DEF NotYet
    <3>2. Needed(amount, fee') \in Int
      <4>1. amount \in Int /\ fee' \in Int
        BY <2>1, MaxIntAssumption DEF IInv, TypeOK
      <4> QED
        BY <4>1, NeededType
    <3>3. ~(accumulated' >= Needed(amount, fee'))
      BY <2>1, <2>2, <3>2
    <3>4. next' # 1
      BY <2>2, <2>3
    <3> QED
      BY <2>1, <2>2, <2>4, <3>1, <3>3, <3>4 DEF NotYet
  <2> QED
    BY <2>1, <2>5, <2>8, <2>9 DEF SelInv, WhereInv
<1>4. CASE StopLooking
  <2> DEFINE size == SizeOf(First(next))
  <2>1. /\ status = "looping" /\ status' = "leaving" /\ next <= Len(pool) /\ Take(pool[next])
        /\ pool[next].validTxId
        /\ UNCHANGED <<pool, amount, feeRate>>
    BY <1>4 DEF StopLooking
  <2>2. /\ next' = next + 1 /\ selectedInputs' = First(next)
        /\ accumulated' = ValueOf(First(next))
        /\ accumulated' \in 0 .. MaxInt
        /\ countUtxoSegwit' = CountSegwit(First(next))
        /\ currentSize(countUtxoLegacy', countUtxoSegwit') = size
        /\ size \in Nat
    BY <2>1, Taken
  <2>a. /\ accumulated' >= Needed(amount, size * feeRate)
        /\ fee' = Settle(accumulated', amount, size, feeRate).fee
        /\ change' = Settle(accumulated', amount, size, feeRate).change
    BY <1>4, <2>2 DEF StopLooking
  <2>3. next' - 1 = next /\ next' - 2 = next - 1 /\ next \in Nat /\ next > 0
    BY <1>0, <2>2
  <2>4. First(next - 1)' = First(next) /\ \A k : Enough(k)' <=> Enough(k)
    <3>1. First(next - 1)' = First(next)
      BY <2>1, <2>3 DEF First
    <3>2. \A k : Enough(k)' <=> Enough(k)
      BY <2>1 DEF First, Enough
    <3> QED
      BY <3>1, <3>2
  <2>5. Selected'
    BY <2>2, <2>3, <2>4 DEF Selected
  <2>6. NotYet
    BY <2>1 DEF SelInv, WhereInv
  <2>7. next > 1 => ~Enough(next - 1)
    BY <2>6 DEF NotYet, Enough, SelInv, Selected
  <2>8. Passed'
    <3>1. \A k \in 1 .. next : pool[k].validTxId
      BY <2>1, <2>3 DEF SelInv, Passed
    <3>2. \A k \in 1 .. next - 1 : ~Enough(k)
      BY <2>3, <2>7 DEF SelInv, Passed
    <3> QED
      BY <2>1, <2>3, <2>4, <3>1, <3>2 DEF Passed
  <2>9. Stopped'
    <3>1. next' > 1
      BY <2>2, <2>3
    <3>2. Enough(next)
      BY <2>2, <2>a DEF Enough
    <3>3. [fee |-> fee', change |-> change'] = Settle(accumulated', amount, size, feeRate)
      <4>1. \E f, g : Settle(accumulated', amount, size, feeRate) = [fee |-> f, change |-> g]
        BY DEF Settle
      <4> HIDE DEF size
      <4> QED
        BY <2>a, <4>1
    <3>4. accumulated' >= Needed(amount, fee')
      <4>1. amount \in 1 .. MaxInt /\ feeRate \in Nat
        BY DEF IInv, TypeOK
      <4>2. (size + changeOutputSize) * feeRate <= MaxInt
        <5>1. /\ countUtxoLegacy' \in Nat /\ countUtxoSegwit' \in Nat /\ Len(pool) \in Nat
              /\ countUtxoLegacy' + countUtxoSegwit' <= Len(pool)
          BY <2>1, <2>2, <2>3, PoolValued DEF IInv, TypeOK, CountsInv
        <5>2. LargestFee <= MaxInt /\ LargestFee \in Nat
          BY <4>1, <5>1, SizeBound DEF IInv, CountsInv, LargestFee
        <5>3. (currentSize(countUtxoLegacy', countUtxoSegwit') + changeOutputSize) * feeRate
                <= LargestFee
          BY <4>1, <5>1, SizeBound DEF LargestFee
        <5>4. (size + changeOutputSize) * feeRate <= LargestFee
          BY <2>2, <5>3
        <5>5. (size + changeOutputSize) * feeRate \in Int
          BY <2>2, <4>1 DEF changeOutputSize
        <5> HIDE DEF size
        <5> QED
          BY <5>2, <5>4, <5>5, MaxIntAssumption
      <4> HIDE DEF size
      <4> QED
        BY ONLY <2>2, <2>a, <4>1, <4>2, SettleCovers
    <3> QED
      BY <2>1, <2>2, <2>3, <2>4, <3>1, <3>2, <3>3, <3>4 DEF Stopped
  <2> QED
    BY <2>1, <2>5, <2>8, <2>9 DEF SelInv, WhereInv
<1>5. CASE LeaveLoop
  <2>1. /\ status = "looping" /\ next > Len(pool) /\ status' = "leaving"
        /\ UNCHANGED <<pool, amount, feeRate, next, selectedInputs, accumulated, countUtxoLegacy,
                       countUtxoSegwit, fee, change>>
    BY <1>5 DEF LeaveLoop
  <2>2. Exhausted
    BY <2>1, PoolValued DEF SelInv, WhereInv, Exhausted, IInv
  <2> QED
    BY <2>1, <2>2 DEF SelInv, Selected, Passed, WhereInv, NotYet, Exhausted, First, Enough
<1>6. CASE Return
  <2>1. /\ status = "leaving"
        /\ status' = IF accumulated < Needed(amount, fee) THEN "insufficient" ELSE "nil"
        /\ UNCHANGED <<pool, amount, feeRate, next, selectedInputs, accumulated, countUtxoLegacy,
                       countUtxoSegwit, fee, change>>
    BY <1>6 DEF Return
  <2>2. Exhausted \/ Stopped
    BY <2>1 DEF SelInv, WhereInv
  <2>3. accumulated \in Int /\ Needed(amount, fee) \in Int
    <3>1. amount \in Int /\ fee \in Int /\ accumulated \in Int
      BY MaxIntAssumption DEF IInv, TypeOK, Ints
    <3> QED
      BY <3>1, NeededType
  <2>4. status' = "insufficient" => Exhausted
    BY <2>1, <2>2, <2>3 DEF Stopped
  <2>5. status' = "nil" => Stopped
    BY <2>1, <2>2, <2>3 DEF Exhausted, NotYet
  <2>6. Selected' /\ Passed'
    BY <2>1 DEF SelInv, Selected, Passed, First, Enough
  <2>7. (Exhausted => Exhausted') /\ (Stopped => Stopped')
    BY <2>1 DEF Exhausted, NotYet, Stopped, First, Enough
  <2> QED
    BY <2>1, <2>4, <2>5, <2>6, <2>7 DEF SelInv, WhereInv
<1>7. CASE UNCHANGED vars
  BY <1>7 DEF vars, SelInv, Selected, Passed, WhereInv, NotYet, Exhausted, Stopped, First, Enough
<1> QED
  BY <1>1, <1>2, <1>3, <1>4, <1>5, <1>6, <1>7 DEF Next, Step, Done

(* The comparison holds in every reachable state. *)
LEMMA SelectionInvariance == Spec => [](IInv /\ SelInv)
<1>1. Init => IInv /\ SelInv
  BY InitIInv, InitSelInv
<1>2. (IInv /\ SelInv) /\ [Next]_vars => (IInv /\ SelInv)'
  BY NextIInv, NextSelInv
<1> QED
  BY <1>1, <1>2, PTL DEF Spec

(***************************************************************************)
(* The loop returns what selectInputs, the function the sends use, is said *)
(* to return: the same error or the same inputs, fee and change, also for  *)
(* amounts that do not fit an int together with their fee.                 *)
(***************************************************************************)
THEOREM LoopComputesFunction == Spec => []AgreesWithFunction
<1>1. IInv /\ SelInv => AgreesWithFunction
  <2> SUFFICES ASSUME IInv, SelInv, status \in Returned PROVE AgreesWithFunction
    BY DEF AgreesWithFunction
  <2>1. /\ pool \in Seq(UTXOs) /\ Len(pool) \in Nat /\ next \in Nat /\ next > 0 /\ next <= Len(pool) + 1
    BY DEF IInv, TypeOK
  <2>2. \A k : CoversAt(pool, amount, feeRate, k) <=> Enough(k)
    BY DEF CoversAt, Enough, First
  <2>3. NotYet => (next > 1 => ~Enough(next - 1))
    BY DEF NotYet, Enough, SelInv, Selected
  <2>4. NotYet => PassedBy(pool, amount, feeRate, next)
    <3> SUFFICES ASSUME NotYet, NEW j \in 1 .. next - 1
                 PROVE  pool[j].validTxId /\ ~Enough(j)
      BY <2>2 DEF PassedBy
    <3>1. pool[j].validTxId
      BY DEF SelInv, Passed
    <3>2. CASE j = next - 1
      BY <2>1, <2>3, <3>1, <3>2
    <3>3. CASE j # next - 1
      <4>1. j \in 1 .. next - 2
        BY <2>1, <3>3
      <4> QED
        BY <3>1, <4>1 DEF SelInv, Passed
    <3> QED
      BY <3>2, <3>3
  <2>5. CASE status = "insufficient"
    <3>1. PassedBy(pool, amount, feeRate, Len(pool) + 1)
      BY <2>4, <2>5 DEF SelInv, WhereInv, Exhausted
    <3> QED
      BY <2>1, <2>5, <3>1, SelectNothing DEF AgreesWithFunction
  <2>6. CASE status = "badTxId"
    <3>1. PassedBy(pool, amount, feeRate, next) /\ ~pool[next].validTxId /\ next \in 1 .. Len(pool)
      BY <2>1, <2>4, <2>6 DEF SelInv, WhereInv
    <3> QED
      BY <2>1, <2>6, <3>1, SelectAt DEF AgreesWithFunction
  <2>7. CASE status = "nil"
    <3> DEFINE k == next - 1
               q == SubSeq(pool, 1, k)
               s == Settle(ValueOf(q), amount, SizeOf(q), feeRate)
    <3>1. Stopped /\ k \in 1 .. Len(pool) /\ pool[k].validTxId
      BY <2>1, <2>7 DEF SelInv, WhereInv, Stopped, Passed
    <3>2. PassedBy(pool, amount, feeRate, k) /\ CoversAt(pool, amount, feeRate, k)
      <4>1. CoversAt(pool, amount, feeRate, k)
        BY <2>2, <3>1 DEF Stopped
      <4>2. \A j \in 1 .. k - 1 : j \in 1 .. next - 1 /\ j \in 1 .. next - 2
        BY <2>1
      <4> QED
        BY <2>2, <4>1, <4>2 DEF PassedBy, SelInv, Passed
    <3>3. [fee |-> fee, change |-> change] = s /\ selectedInputs = q
      BY <3>1 DEF Stopped, SelInv, Selected, First
    <3>4. fee = s.fee /\ change = s.change
      BY <3>3
    <3> HIDE DEF k
    <3>5. selectInputs(pool, amount, feeRate) =
            [err |-> "nil", result |-> [inputs |-> q, fee |-> s.fee, change |-> s.change]]
      BY <2>1, <3>1, <3>2, SelectAt
    <3> QED
      BY <2>7, <3>3, <3>4, <3>5 DEF AgreesWithFunction
  <2> QED
    BY <2>5, <2>6, <2>7 DEF Returned
<1> QED
  BY <1>1, SelectionInvariance, PTL

(***************************************************************************)
(* Whatever the amount, in range or not: a result that would be sent pays  *)
(* the fee of its own size, or asks for more than its inputs are worth.    *)
(***************************************************************************)
THEOREM OverflowIsUnspendable == Spec => []OverflowUnspendable
<1>1. IInv /\ SelInv /\ WorthInv => OverflowUnspendable
  <2> SUFFICES ASSUME IInv, SelInv, WorthInv, status = "nil"
               PROVE  LET left == accumulated - amount - (IF change > 0 THEN change ELSE 0)
                      IN  left < 0 \/ left >= builtSize * feeRate
    BY DEF OverflowUnspendable
  <2> DEFINE k == next - 1
             q == First(k)
             size == SizeOf(q)
             acc == ValueOf(q)
  <2>1. TypeOK /\ Stopped /\ Selected /\ amount \in 1 .. MaxInt /\ feeRate \in Nat
        /\ Len(pool) \in Nat /\ k \in 0 .. Len(pool) /\ change \in Int
        /\ countUtxoLegacy \in Nat /\ countUtxoLegacy + countUtxoSegwit = k
    BY PoolValued DEF IInv, TypeOK, CountsInv, SelInv, WhereInv
  <2>2. /\ Len(q) = k /\ CountSegwit(q) \in 0 .. k
        /\ acc \in Nat /\ acc <= ValueOf(pool) /\ ValueOf(pool) \in Nat
    <3>1. Valued(UTXOs) /\ pool \in Seq(UTXOs)
      BY PoolValued DEF IInv
    <3>2. ValueOf(pool) \in Nat
      BY <2>1, WorthType
    <3>3. k \in 0 .. Len(pool)
      BY <2>1
    <3> HIDE DEF k
    <3> QED
      BY <3>1, <3>2, <3>3, PrefixMeasures, PrefixOfWhole DEF First
  <2>3. size = currentSize(countUtxoLegacy, countUtxoSegwit)
        /\ countUtxoLegacy \in Nat /\ countUtxoSegwit \in Nat /\ size \in Nat
    <3>1. countUtxoSegwit = CountSegwit(q) /\ countUtxoSegwit \in Nat
      BY <2>1, <2>2 DEF Selected
    <3>2. countUtxoLegacy = Len(q) - CountSegwit(q)
      BY <2>1, <2>2, <3>1
    <3>3. currentSize(countUtxoLegacy, countUtxoSegwit) \in Nat
      BY <2>1, <3>1, SizeType
    <3> QED
      BY <2>1, <3>1, <3>2, <3>3 DEF SizeOf
  <2>4. /\ size * feeRate \in Nat /\ (size + changeOutputSize) * feeRate \in Nat
        /\ (size + changeOutputSize) * feeRate = size * feeRate + changeOutputSize * feeRate
        /\ (size + changeOutputSize) * feeRate <= LargestFee /\ LargestFee \in Nat
    <3>1. LargestFee \in Nat
      BY <2>1, WorthType
    <3>2. /\ countUtxoLegacy + countUtxoSegwit <= Len(pool)
          /\ Len(pool) \in Nat /\ feeRate \in Nat
          /\ countUtxoLegacy \in Nat /\ countUtxoSegwit \in Nat
      BY <2>1, <2>3
    <3> HIDE DEF k, q, size
    <3>3. /\ currentSize(countUtxoLegacy, countUtxoSegwit) * feeRate \in Nat
          /\ (currentSize(countUtxoLegacy, countUtxoSegwit) + changeOutputSize) * feeRate \in Nat
          /\ (currentSize(countUtxoLegacy, countUtxoSegwit) + changeOutputSize) * feeRate
               <= (currentSize(Len(pool), 0) + changeOutputSize) * feeRate
      BY ONLY <3>2, SizeBound
    <3>4. (size + changeOutputSize) * feeRate = size * feeRate + changeOutputSize * feeRate
      BY ONLY <2>3, <3>2 DEF changeOutputSize
    <3> QED
      BY <2>3, <3>1, <3>3, <3>4 DEF LargestFee
  <2>5. acc + (size + changeOutputSize) * feeRate <= MaxInt
    <3> HIDE DEF q, size, acc
    <3> QED
      BY <2>2, <2>4, MaxIntAssumption DEF WorthInv
  <2>6. change = Settle(acc, amount, size, feeRate).change /\ accumulated = acc
        /\ acc >= Needed(amount, size * feeRate)
    <3>1. [fee |-> fee, change |-> change] = Settle(acc, amount, size, feeRate)
          /\ accumulated = acc /\ Enough(k)
      BY <2>1 DEF Stopped, Selected
    <3>2. change = Settle(acc, amount, size, feeRate).change
      <4>1. [fee |-> fee, change |-> change].change = change
        OBVIOUS
      <4> HIDE DEF acc, size
      <4> QED
        BY <3>1, <4>1
    <3> QED
      BY <3>1, <3>2 DEF Enough
  <2>7. builtSize = size + (IF change > 0 THEN changeOutputSize ELSE 0)
    BY <2>3 DEF builtSize
  <2> HIDE DEF k, q, size, acc
  <2> QED
    BY <2>1, <2>2, <2>3, <2>4, <2>5, <2>6, <2>7, SettleEitherWay
<1>2. Spec => []WorthInv
  <2>1. (IInv /\ WorthInv) /\ [Next]_vars => WorthInv'
    BY NextWorth
  <2> QED
    BY <2>1, InitWorth, Invariance, PTL DEF Spec
<1> QED
  BY <1>1, <1>2, SelectionInvariance, PTL

(***************************************************************************)
(* In range nothing wraps around: a prefix that does not suffice is worth  *)
(* less than the amount and its own fee, as integers.                      *)
(***************************************************************************)
LEMMA ShortInRange ==
  ASSUME IInv, SelInv, InRange, NEW k \in 1 .. Len(pool), ~Enough(k)
  PROVE  ValueOf(First(k)) < amount + SizeOf(First(k)) * feeRate
<1> DEFINE l == Len(First(k)) - CountSegwit(First(k))
           g == CountSegwit(First(k))
<1>1. amount \in 1 .. MaxInt /\ feeRate \in Nat /\ Len(pool) \in Nat /\ k \in 0 .. Len(pool)
  BY DEF IInv, TypeOK
<1>2. Len(First(k)) = k /\ CountSegwit(First(k)) \in 0 .. k /\ ValueOf(First(k)) \in Nat
  <2>1. Valued(UTXOs) /\ pool \in Seq(UTXOs)
    BY PoolValued DEF IInv
  <2> QED
    BY <1>1, <2>1, PrefixMeasures DEF First
<1>3. l \in Nat /\ g \in Nat /\ l + g <= Len(pool) /\ SizeOf(First(k)) = currentSize(l, g)
  BY <1>1, <1>2 DEF SizeOf
<1> HIDE DEF l, g
<1>4. SizeOf(First(k)) * feeRate <= LargestFee /\ SizeOf(First(k)) * feeRate \in Nat
      /\ LargestFee \in Nat
  <2>1. /\ currentSize(l, g) * feeRate <= LargestFee /\ currentSize(l, g) * feeRate \in Nat
        /\ LargestFee \in Nat
    BY <1>1, <1>3, SizeBound DEF LargestFee
  <2> QED
    BY <1>3, <2>1
<1>5. amount + SizeOf(First(k)) * feeRate \in Ints
  <2>1. amount + LargestFee <= MaxInt
    BY DEF InRange
  <2> QED
    BY <1>1, <1>4, <2>1, MaxIntAssumption DEF Ints
<1>6. Needed(amount, SizeOf(First(k)) * feeRate) = amount + SizeOf(First(k)) * feeRate
  BY <1>5, WrapInRange DEF Needed
<1> QED
  BY <1>1, <1>2, <1>4, <1>6 DEF Enough

(* What Covers says, in terms of the sums the other facts are about. *)
LEMMA CoversMeans ==
  ASSUME TypeOK, NEW c \in SUBSET DOMAIN pool
  PROVE  Covers(c) <=> SumOver(ValuesOf(pool), c) >= amount + CostOf(pool, c, feeRate)
<1> DEFINE segwit == {i \in c : isSegwitUTXO(pool[i])}
<1>1. c \ segwit = {i \in c : ~isSegwitUTXO(pool[i])}
  OBVIOUS
<1>2. MapThenSumSet(LAMBDA i : pool[i].value, c) = SumOver(ValuesOf(pool), c)
  <2>1. \A s \in SUBSET c : s # {} => ValuesOf(pool)[pick(s)] = pool[pick(s)].value
    BY PickType DEF ValuesOf
  <2> DEFINE body(g) == [s \in SUBSET c |->
                          IF s = {} THEN 0 ELSE pool[pick(s)].value + g[s \ {pick(s)}]]
  <2>2. MapThenSumSet(LAMBDA i : pool[i].value, c) = (CHOOSE g : g = body(g))[c]
    BY DEF MapThenSumSet, MapThenFoldSet, pick
  <2>3. \A g : g = body(g) <=> Sums(ValuesOf(pool), c, g)
    BY <2>1 DEF Sums
  <2> HIDE DEF body
  <2> QED
    BY <2>2, <2>3 DEF SumOver
<1> QED
  BY <1>1, <1>2 DEF Covers, CostOf

(***************************************************************************)
(* In range, no prefix of an exhausted pool covers the amount and its fee. *)
(***************************************************************************)
LEMMA ExhaustedShort ==
  ASSUME IInv, SelInv, InRange, Exhausted
  PROVE  \A k \in 1 .. Len(pool) : ValueOf(First(k)) < amount + SizeOf(First(k)) * feeRate
<1> SUFFICES ASSUME NEW k \in 1 .. Len(pool) PROVE ~Enough(k)
  BY ShortInRange
<1>1. next = Len(pool) + 1 /\ Len(pool) \in Nat
  BY DEF Exhausted, IInv, TypeOK
<1>2. CASE k = Len(pool)
  <2>1. next - 1 = k /\ next # 1
    BY <1>1, <1>2
  <2> QED
    BY <2>1 DEF Exhausted, NotYet, Enough, SelInv, Selected
<1>3. CASE k # Len(pool)
  <2>1. k \in 1 .. next - 2
    BY <1>1, <1>3
  <2> QED
    BY <2>1 DEF SelInv, Passed
<1> QED
  BY <1>2, <1>3

(***************************************************************************)
(* Whatever the pool, mixed or not: "insufficient funds" is returned only  *)
(* if spending the whole pool does not cover the amount and its fee.       *)
(***************************************************************************)
THEOREM RefusalIsJustified == Spec => []RefusalJustified
<1>1. IInv /\ SelInv => RefusalJustified
  <2> SUFFICES ASSUME IInv, SelInv, status = "insufficient", InRange PROVE ~Covers(DOMAIN pool)
    BY DEF RefusalJustified
  <2> DEFINE n == Len(pool)
  <2>1. TypeOK /\ pool \in Seq(UTXOs) /\ n \in Nat /\ DOMAIN pool = 1 .. n /\ Valued(UTXOs)
        /\ amount \in Nat /\ amount > 0 /\ feeRate \in Nat
    BY PoolValued, MaxIntAssumption DEF IInv, TypeOK
  <2>2. Exhausted
    BY DEF SelInv, WhereInv
  <2>3. CASE n = 0
    <3>1. DOMAIN pool = {}
      BY <2>1, <2>3
    <3>2. SumOver(ValuesOf(pool), DOMAIN pool) = 0
      BY <3>1, SumEmpty
    <3>3. CostOf(pool, DOMAIN pool, feeRate) \in Nat
      BY <2>1, Positions, CostType
    <3> QED
      BY <2>1, <3>2, <3>3, CoversMeans
  <2>4. CASE n # 0
    <3> DEFINE g == Cardinality({i \in 1 .. n : isSegwitUTXO(pool[i])})
               l == Cardinality({i \in 1 .. n : ~isSegwitUTXO(pool[i])})
    <3>1. ValueOf(First(n)) < amount + SizeOf(First(n)) * feeRate
      BY <2>1, <2>2, <2>4, ExhaustedShort
    <3>2. /\ ValueOf(First(n)) = SumOver(ValuesOf(pool), 1 .. n)
          /\ Len(First(n)) = n /\ CountSegwit(First(n)) = g /\ g \in 0 .. n
          /\ ValueOf(First(n)) \in Nat
      <4>1. n \in 0 .. Len(pool)
        BY <2>1
      <4>2. Valued(UTXOs) /\ pool \in Seq(UTXOs)
        BY <2>1
      <4> HIDE DEF n
      <4>3. /\ ValueOf(SubSeq(pool, 1, n)) = SumOver(ValuesOf(pool), 1 .. n)
            /\ ValueOf(SubSeq(pool, 1, n)) \in Nat
            /\ Len(SubSeq(pool, 1, n)) = n
            /\ CountSegwit(SubSeq(pool, 1, n)) = Cardinality({i \in 1 .. n : isSegwitUTXO(pool[i])})
            /\ CountSegwit(SubSeq(pool, 1, n)) \in 0 .. n
        BY <4>1, <4>2, PrefixMeasures
      <4> QED
        BY <4>3 DEF First
    <3>3. l = n - g
      <4> DEFINE D == 1 .. n
                 T == {i \in D : isSegwitUTXO(pool[i])}
      <4>1. IsFiniteSet(D) /\ Cardinality(D) = n /\ T \in SUBSET D
            /\ {i \in D : ~isSegwitUTXO(pool[i])} = D \ T /\ D \cap T = T
        BY <2>1, Positions
      <4> HIDE DEF D, T
      <4>2. Cardinality(D \ T) = Cardinality(D) - Cardinality(D \cap T)
        BY <4>1, FS_Difference
      <4> QED
        BY <4>1, <4>2 DEF D, T
    <3>4. CostOf(pool, DOMAIN pool, feeRate) = feeRate * SizeOf(First(n))
      BY <2>1, <3>2, <3>3 DEF CostOf, SizeOf
    <3>5. feeRate * SizeOf(First(n)) = SizeOf(First(n)) * feeRate
          /\ SizeOf(First(n)) * feeRate \in Nat
      <4>1. SizeOf(First(n)) \in Nat
        <5>1. n - g \in Nat /\ g \in Nat
          BY <2>1, <3>2
        <5> HIDE DEF g, n
        <5> QED
          BY <3>2, <5>1, SizeType DEF SizeOf
      <4> QED
        BY <2>1, <4>1
    <3> QED
      BY <2>1, <3>1, <3>2, <3>4, <3>5, CoversMeans
  <2> QED
    BY <2>3, <2>4
<1> QED
  BY <1>1, SelectionInvariance, PTL

(***************************************************************************)
(* On a pool of one kind of UTXO, however many there are, the greedy       *)
(* choice is optimal: a refusal means that no choice of inputs would do,   *)
(* and a selection that none with fewer inputs would.                      *)
(***************************************************************************)
THEOREM GreedyIsOptimal == Spec => []OptimalForOneKind
<1>1. IInv /\ SelInv => OptimalForOneKind
  <2> SUFFICES ASSUME IInv, SelInv, InRange, OneKind
               PROVE  /\ status = "insufficient" => \A c \in SUBSET DOMAIN pool : ~Covers(c)
                      /\ status = "nil" =>
                           \A c \in SUBSET DOMAIN pool :
                             Covers(c) => Cardinality(c) >= Len(selectedInputs)
    BY DEF OptimalForOneKind
  <2>1. TypeOK /\ pool \in Seq(UTXOs) /\ Len(pool) \in Nat /\ Valued(UTXOs)
        /\ amount \in Nat /\ amount > 0 /\ feeRate \in Nat
        /\ next \in Nat /\ next > 0 /\ next <= Len(pool) + 1
    BY PoolValued, MaxIntAssumption DEF IInv, TypeOK
  <2>2. status \in {"insufficient", "nil"} => Descending(pool)
    BY DEF SelInv, WhereInv
  <2>3. \A i, j \in DOMAIN pool : isSegwitUTXO(pool[i]) <=> isSegwitUTXO(pool[j])
    BY DEF OneKind
  <2>4. ASSUME NEW n \in 0 .. Len(pool), Descending(pool), NEW c \in SUBSET DOMAIN pool,
               Cardinality(c) <= n,
               \A k \in 1 .. n : ValueOf(First(k)) < amount + SizeOf(First(k)) * feeRate
        PROVE  ~Covers(c)
    <3>1. Short(pool, amount, feeRate, n) /\ Uniform(pool)
      BY <2>3, <2>4 DEF First, Short, Uniform
    <3>2. SumOver(ValuesOf(pool), c) < amount + CostOf(pool, c, feeRate)
      BY <2>1, <2>4, <3>1, NoChoiceCovers
    <3>3. SumOver(ValuesOf(pool), c) \in Int
      <4>1. IsFiniteSet(c)
        BY <2>1, <2>4, PrefixIsBest
      <4>2. \A i \in c : ValuesOf(pool)[i] \in Int
        BY <2>1 DEF ValuesOf, Valued
      <4> QED
        BY <4>1, <4>2, SumType
    <3>4. CostOf(pool, c, feeRate) \in Int
      <4>1. IsFiniteSet(c)
        BY <2>1, <2>4, PrefixIsBest
      <4> QED
        BY <2>1, <4>1, CostType
    <3> QED
      BY <2>1, <3>2, <3>3, <3>4, CoversMeans
  <2>5. ASSUME status = "insufficient", NEW c \in SUBSET DOMAIN pool PROVE ~Covers(c)
    <3>1. Exhausted /\ Descending(pool)
      BY <2>2, <2>5 DEF SelInv, WhereInv
    <3>2. Cardinality(c) <= Len(pool)
      BY <2>1, <3>1, PrefixIsBest
    <3>3. Len(pool) \in 0 .. Len(pool)
      BY <2>1
    <3> QED
      BY <2>4, <3>1, <3>2, <3>3, ExhaustedShort
  <2>6. ASSUME status = "nil", NEW c \in SUBSET DOMAIN pool, ~(Cardinality(c) >= Len(selectedInputs))
        PROVE  ~Covers(c)
    <3>1. Stopped /\ Descending(pool)
      BY <2>2, <2>6 DEF SelInv, WhereInv
    <3>2. Len(selectedInputs) = next - 1
      BY <2>1, PoolValued, PrefixMeasures DEF SelInv, Selected, First
    <3>3. Cardinality(c) \in 0 .. Len(pool)
      BY <2>1, <3>1, PrefixIsBest
    <3>4. next - 2 \in 0 .. Len(pool) /\ Cardinality(c) <= next - 2
      BY <2>1, <2>6, <3>2, <3>3
    <3>5. \A k \in 1 .. next - 2 : ValueOf(First(k)) < amount + SizeOf(First(k)) * feeRate
      <4>1. \A k \in 1 .. next - 2 : k \in 1 .. Len(pool)
        BY <2>1
      <4> QED
        BY <4>1, ShortInRange DEF SelInv, Passed
    <3> QED
      BY <2>4, <3>1, <3>4, <3>5
  <2> QED
    BY <2>5, <2>6
<1> QED
  BY <1>1, SelectionInvariance, PTL
=============================================================================
