------------------------- MODULE Transactions_proofs -------------------------
(***************************************************************************)
(* For every selection and payment, in both kinds of send:                 *)
(*                                                                         *)
(*   - the signing of an input leaves the signatures made before it good,  *)
(*     since signing changes nothing but scripts and witnesses, and no     *)
(*     message that is signed depends on them (SignedForGood);             *)
(*   - the hand-written code signs what the library would have it sign     *)
(*     (PostedIsSigned) and writes what the library would write            *)
(*     (PostedIsUnderstood);                                               *)
(*   - what is written names the coins selected and pays what was asked    *)
(*     (SelectionIsSpent), and the parser gives it back (PostedReadsBack). *)
(*                                                                         *)
(* All but the first rest on what numbers are in bytes, which comes first. *)
(***************************************************************************)
EXTENDS Transactions, Powers, SequenceTheorems

(***************************************************************************)
(* Numbers as bytes.                                                       *)
(***************************************************************************)

(* What numbers of w bytes are bounded by. *)
LEMMA Capacities ==
  /\ Base \in Nat /\ Base >= 4
  /\ capacity(0) = 1 /\ capacity(1) = Base
  /\ \A w \in Nat : /\ capacity(w) \in Nat /\ capacity(w) > 0
                    /\ capacity(w + 1) = capacity(w) * Base
  /\ \A v, w \in Nat : v <= w => capacity(v) <= capacity(w)
<1> USE FormatAssumption
<1>1. \A w \in Nat : ByteBits * w \in Nat
  OBVIOUS
<1>2. \A w \in Nat : capacity(w) \in Nat /\ capacity(w) > 0
  <2>1. \A n \in Nat : 2 ^ n \in Nat /\ 2 ^ n > 0
    BY PowerOfSubsets
  <2> QED
    BY <1>1, <2>1 DEF capacity
<1>3. \A v, w \in Nat : v <= w => capacity(v) <= capacity(w)
  <2>1. \A v, w \in Nat : v <= w => ByteBits * v <= ByteBits * w
    OBVIOUS
  <2>2. \A m, n \in Nat : m <= n => 2 ^ m <= 2 ^ n
    BY PowerGrows
  <2> QED
    BY <1>1, <2>1, <2>2 DEF capacity
<1>4. capacity(0) = 1 /\ capacity(1) = Base
  <2>1. ByteBits * 0 = 0 /\ ByteBits * 1 = ByteBits /\ 2 ^ 0 = 1
    OBVIOUS
  <2> QED
    BY <2>1 DEF capacity, Base
<1>5. ASSUME NEW w \in Nat PROVE capacity(w + 1) = capacity(w) * Base
  <2>1. ByteBits * (w + 1) = ByteBits * w + ByteBits
    OBVIOUS
  <2> DEFINE m == ByteBits * w
  <2>2. m \in Nat /\ ByteBits \in Nat
    BY <1>1
  <2> HIDE DEF m
  <2>3. 2 ^ (m + ByteBits) = 2 ^ m * 2 ^ ByteBits
    BY <2>2, PowerSum
  <2> QED
    BY <2>1, <2>3 DEF capacity, Base, m
<1>6. Base \in Nat /\ Base >= 4
  <2>1. 2 ^ 2 <= 2 ^ ByteBits /\ 2 ^ ByteBits \in Nat
    BY PowerGrows, PowerOfSubsets
  <2>2. 2 ^ 2 = 4
    OBVIOUS
  <2> QED
    BY <2>1, <2>2 DEF Base
<1> QED
  BY <1>2, <1>3, <1>4, <1>5, <1>6

(* The bytes of a number, either way round. *)
LEMMA BytesOf ==
  ASSUME NEW n \in Nat, NEW w \in Nat
  PROVE  /\ LittleEndian(n, w) \in Seq(Bytes) /\ BigEndian(n, w) \in Seq(Bytes)
         /\ Len(LittleEndian(n, w)) = w /\ Len(BigEndian(n, w)) = w
         /\ \A i \in 1 .. w :
              /\ LittleEndian(n, w)[i] = (n \div capacity(i - 1)) % Base
              /\ BigEndian(n, w)[i] = (n \div capacity(w - i)) % Base
         /\ Reverse(BigEndian(n, w)) = LittleEndian(n, w)
<1> DEFINE l == LittleEndian(n, w)
           b == BigEndian(n, w)
<1>1. ASSUME NEW i \in 1 .. w
      PROVE  (n \div capacity(i - 1)) % Base \in Bytes
  <2> DEFINE k == i - 1
  <2>0. k \in Nat
    OBVIOUS
  <2> HIDE DEF k
  <2>1. capacity(k) \in Nat /\ capacity(k) > 0 /\ Base \in Nat /\ Base > 0
    BY <2>0, Capacities
  <2>2. n \div capacity(k) \in Nat
    BY <2>1, Quotient
  <2>3. (n \div capacity(k)) % Base \in Nat /\ (n \div capacity(k)) % Base < Base
    BY <2>1, <2>2, Quotient
  <2> QED
    BY <2>1, <2>3 DEF Bytes, k
<1>2. l \in [1 .. w -> Bytes] /\ \A i \in 1 .. w : l[i] = (n \div capacity(i - 1)) % Base
  BY <1>1 DEF LittleEndian
<1>3. l \in Seq(Bytes) /\ Len(l) = w
  BY <1>2
<1>4. b = [i \in 1 .. w |-> l[(w - i) + 1]]
  BY <1>3 DEF BigEndian, Reverse
<1>5. b \in [1 .. w -> Bytes]
  BY <1>2, <1>4
<1>6. b \in Seq(Bytes) /\ Len(b) = w
  BY <1>5
<1>7. \A i \in 1 .. w : b[i] = (n \div capacity(w - i)) % Base
  <2>1. \A i \in 1 .. w : (w - i) + 1 \in 1 .. w /\ ((w - i) + 1) - 1 = w - i
    OBVIOUS
  <2> HIDE DEF b, l
  <2> QED
    BY <1>2, <1>4, <2>1
<1>8. Reverse(b) = l
  <2>1. Reverse(b) = [i \in 1 .. w |-> b[(w - i) + 1]]
    BY <1>6 DEF Reverse
  <2>2. \A i \in 1 .. w : (w - i) + 1 \in 1 .. w /\ (w - ((w - i) + 1)) + 1 = i
    OBVIOUS
  <2> HIDE DEF b, l
  <2>3. \A i \in 1 .. w : b[(w - i) + 1] = l[i]
    BY <1>4, <2>2
  <2>4. l = [i \in 1 .. w |-> l[i]]
    BY <1>2
  <2> QED
    BY <2>1, <2>3, <2>4
<1> QED
  BY <1>2, <1>3, <1>6, <1>7, <1>8

(***************************************************************************)
(* The recursion that reading a number is: g is its solution for bytes.    *)
(***************************************************************************)
Reads(bytes, D, g) ==
  g = [s \in SUBSET D |-> IF s = {} THEN 0 ELSE g[s \ {Max(s)}] * Base + bytes[Max(s)]]

(* Reading a number from bytes is that recursion. *)
LEMMA BigEndianIsFold ==
  ASSUME NEW bytes
  PROVE  fromBigEndian(bytes) = (CHOOSE g : Reads(bytes, DOMAIN bytes, g))[DOMAIN bytes]
BY DEF fromBigEndian, FoldLeft, MapThenFoldSet, Reads

(* The greatest of the positions up to the next one. *)
LEMMA MaxOfPositions ==
  ASSUME NEW n \in Nat
  PROVE  /\ \A s \in SUBSET (1 .. n + 1) : n + 1 \in s => Max(s) = n + 1
         /\ \A s \in SUBSET (1 .. n) : s # {} => Max(s) \in s
<1>1. ASSUME NEW s \in SUBSET (1 .. n + 1), n + 1 \in s PROVE Max(s) = n + 1
  <2>1. \A x \in s : x \in Nat /\ x <= n + 1
    OBVIOUS
  <2>2. n + 1 \in s /\ \A y \in s : n + 1 >= y
    BY <1>1, <2>1
  <2>3. Max(s) \in s /\ \A y \in s : Max(s) >= y
    BY <2>2 DEF Max
  <2> DEFINE m == Max(s)
  <2>4. m \in Nat /\ m <= n + 1 /\ m >= n + 1
    BY <2>1, <2>2, <2>3
  <2> HIDE DEF m
  <2>5. m = n + 1
    BY <2>4
  <2> QED
    BY <2>5 DEF m
<1>2. ASSUME NEW s \in SUBSET (1 .. n), s # {} PROVE Max(s) \in s
  <2> DEFINE below == {n - x : x \in s}
  <2>0. \A x \in s : n - x \in Nat
    OBVIOUS
  <2>1. below \in SUBSET Nat /\ below # {}
    BY <1>2, <2>0
  <2>2. PICK m \in below : \A k \in below : m <= k
    <3> HIDE DEF below
    <3> QED
      BY <2>1, LeastNumber
  <2>3. PICK x \in s : m = n - x
    OBVIOUS
  <2>4. \A y \in s : n - x <= n - y /\ x \in Nat /\ y \in Nat
    BY <2>2, <2>3
  <2>5. \A y \in s : x >= y
    BY <2>4
  <2> QED
    BY <2>5 DEF Max
<1> QED
  BY <1>1, <1>2

(* It has a solution. *)
LEMMA ReadsExist ==
  ASSUME NEW bytes, NEW n \in Nat
  PROVE  \E g : Reads(bytes, 1 .. n, g)
<1> DEFINE S == {k \in Nat : \E g : Reads(bytes, 1 .. k, g)}
<1>1. 0 \in S
  <2>1. 1 .. 0 = {} /\ SUBSET {} = {{}}
    OBVIOUS
  <2> DEFINE g == [s \in SUBSET {} |-> 0]
  <2>2. g = [s \in SUBSET {} |-> IF s = {} THEN 0 ELSE g[s \ {Max(s)}] * Base + bytes[Max(s)]]
    BY <2>1
  <2>3. Reads(bytes, {}, g)
    BY <2>2 DEF Reads
  <2> HIDE DEF g
  <2> QED
    BY <2>1, <2>3
<1>2. ASSUME NEW k \in S PROVE k + 1 \in S
  <2>1. PICK g : Reads(bytes, 1 .. k, g)
    OBVIOUS
  <2> DEFINE D == 1 .. k + 1
             h == [s \in SUBSET D |-> IF k + 1 \in s THEN g[s \ {k + 1}] * Base + bytes[k + 1]
                                                     ELSE g[s]]
             val(s) == IF s = {} THEN 0 ELSE h[s \ {Max(s)}] * Base + bytes[Max(s)]
  <2>2. k \in Nat /\ D = (1 .. k) \cup {k + 1}
    OBVIOUS
  <2>3. ASSUME NEW s \in SUBSET (1 .. k) PROVE s \in SUBSET D /\ k + 1 \notin s /\ h[s] = g[s]
    <3>1. k + 1 \notin s /\ s \in SUBSET D
      BY <2>2
    <3> QED
      BY <3>1
  <2> HIDE DEF h
  <2>4. ASSUME NEW s \in SUBSET D, k + 1 \in s PROVE h[s] = val(s)
    <3>1. s # {} /\ Max(s) = k + 1 /\ s \ {k + 1} \in SUBSET (1 .. k)
      BY <2>2, <2>4, MaxOfPositions
    <3>2. h[s] = g[s \ {k + 1}] * Base + bytes[k + 1]
      BY <2>4 DEF h
    <3>3. h[s \ {k + 1}] = g[s \ {k + 1}]
      BY <2>3, <3>1
    <3> QED
      BY <3>1, <3>2, <3>3
  <2>5. ASSUME NEW s \in SUBSET D, k + 1 \notin s PROVE h[s] = val(s)
    <3>1. s \in SUBSET (1 .. k)
      BY <2>2, <2>5
    <3>2. h[s] = g[s] /\ (s \ {Max(s)} \in SUBSET (1 .. k))
          /\ h[s \ {Max(s)}] = g[s \ {Max(s)}]
      BY <3>1, <2>3
    <3>3. g[s] = IF s = {} THEN 0 ELSE g[s \ {Max(s)}] * Base + bytes[Max(s)]
      BY <2>1, <3>1 DEF Reads
    <3> QED
      BY <3>2, <3>3
  <2>6. h = [s \in SUBSET D |-> h[s]]
    BY DEF h
  <2>7. h = [s \in SUBSET D |-> val(s)]
    <3>1. \A s \in SUBSET D : h[s] = val(s)
      BY <2>4, <2>5
    <3> HIDE DEF val, D
    <3> QED
      BY <2>6, <3>1
  <2>8. Reads(bytes, D, h)
    BY <2>7 DEF Reads
  <2> QED
    BY <2>2, <2>8
<1> HIDE DEF S
<1>3. S = Nat
  <2>1. S \in SUBSET Nat
    BY DEF S
  <2> QED
    BY <1>1, <1>2, <2>1, AllNumbers
<1> QED
  BY <1>3 DEF S

(* What was written is read again. *)
LEMMA NumberReadsBack ==
  ASSUME NEW w \in Nat, NEW n \in Nat, n < capacity(w)
  PROVE  fromBigEndian(BigEndian(n, w)) = n
<1> DEFINE bytes == BigEndian(n, w)
           D == 1 .. w
           g == CHOOSE g : Reads(bytes, D, g)
<1>1. DOMAIN bytes = D /\ \A i \in D : bytes[i] = (n \div capacity(w - i)) % Base
  BY BytesOf
<1>2. fromBigEndian(bytes) = g[D]
  BY <1>1, BigEndianIsFold
<1> HIDE DEF bytes
<1>3. Reads(bytes, D, g)
  BY ReadsExist
<1> HIDE DEF g
<1> DEFINE S == {k \in Nat : k <= w => g[1 .. k] = n \div capacity(w - k)}
<1>4. 0 \in S
  <2>1. 1 .. 0 = {} /\ {} \in SUBSET D /\ w - 0 = w
    OBVIOUS
  <2>2. g[{}] = 0
    BY <1>3, <2>1 DEF Reads
  <2>3. n \div capacity(w) = 0
    <3>1. capacity(w) \in Nat /\ capacity(w) > 0
      BY Capacities
    <3>2. n = capacity(w) * 0 + n
      BY <3>1
    <3> QED
      BY <3>1, <3>2, DivisionIs
  <2> QED
    BY <2>1, <2>2, <2>3
<1>5. ASSUME NEW k \in S PROVE k + 1 \in S
  <2> SUFFICES ASSUME k + 1 <= w PROVE g[1 .. k + 1] = n \div capacity(w - (k + 1))
    OBVIOUS
  <2> DEFINE d == w - (k + 1)
             q == n \div capacity(d)
             s == 1 .. k + 1
  <2>1. k \in Nat /\ d \in Nat /\ w - k = d + 1 /\ k + 1 \in D
    OBVIOUS
  <2>2. s \in SUBSET D /\ s # {} /\ k + 1 \in s /\ s \ {k + 1} = 1 .. k
    BY <2>1
  <2>3. Max(s) = k + 1
    BY <2>1, MaxOfPositions
  <2>4. g[s] = g[1 .. k] * Base + bytes[k + 1]
    <3>1. g[s] = IF s = {} THEN 0 ELSE g[s \ {Max(s)}] * Base + bytes[Max(s)]
      BY <1>3, <2>2 DEF Reads
    <3> HIDE DEF s
    <3> QED
      BY <2>2, <2>3, <3>1
  <2>5. g[1 .. k] = n \div capacity(d + 1)
    BY <2>1
  <2>6. bytes[k + 1] = q % Base
    BY <1>1, <2>1
  <2> HIDE DEF d
  <2>7. /\ capacity(d) \in Nat /\ capacity(d) > 0 /\ Base \in Nat /\ Base > 0
        /\ capacity(d + 1) = capacity(d) * Base
    BY <2>1, Capacities
  <2>8. q \div Base = n \div capacity(d + 1)
    BY <2>7, QuotientTwice
  <2>9. q \in Nat
    BY <2>7, Quotient
  <2> HIDE DEF q, s
  <2>10. q = Base * (q \div Base) + (q % Base) /\ q \div Base \in Nat /\ q % Base \in Nat
    BY <2>7, <2>9, Quotient
  <2>11. (q \div Base) * Base = Base * (q \div Base)
    BY <2>7, <2>10
  <2>12. g[s] = q
    BY <2>4, <2>5, <2>6, <2>8, <2>10, <2>11
  <2> QED
    BY <2>12 DEF d, q, s
<1> HIDE DEF S
<1>6. S = Nat
  <2>1. S \in SUBSET Nat
    BY DEF S
  <2> QED
    BY <1>4, <1>5, <2>1, AllNumbers
<1>7. g[D] = n \div capacity(w - w)
  BY <1>6 DEF S
<1>8. n \div capacity(w - w) = n
  <2>1. w - w = 0 /\ capacity(0) = 1
    BY Capacities
  <2> QED
    BY <2>1
<1> QED
  BY <1>2, <1>7, <1>8 DEF bytes

(* The same, and the way it goes on the wire. *)
LEMMA NumberReversed ==
  ASSUME NEW w \in Nat, NEW n \in Nat
  PROVE  /\ ReverseBytes(BigEndian(n, w)) = LittleEndian(n, w)
         /\ ReverseBytes(LittleEndian(n, w)) = BigEndian(n, w)
  BY BytesOf DEF ReverseBytes, BigEndian

(* The two codes agree on the shortest form of a number. *)
LEMMA VarIntIsCompactSize ==
  ASSUME NEW n \in Nat, n < capacity(8)
  PROVE  WriteVarInt(n) = CompactSize(n)
<1> DEFINE bound(v) == IF v = 1 THEN Base - 3 ELSE capacity(v)
           W == {v \in {1, 2, 4, 8} : n < bound(v)}
           w == Min(W)
<1>1. /\ Base \in Nat /\ Base >= 4 /\ capacity(1) = Base
      /\ \A k \in {2, 4, 8} : capacity(k) \in Nat /\ Base <= capacity(k)
      /\ capacity(2) <= capacity(4) /\ capacity(4) <= capacity(8)
  <2>1. \A k \in {2, 4, 8} : k \in Nat /\ 1 <= k
    OBVIOUS
  <2> QED
    BY Capacities, <2>1
<1>2. ASSUME NEW v \in {1, 2, 4, 8}, n < bound(v),
             \A u \in {1, 2, 4, 8} : u < v => ~(n < bound(u))
      PROVE  w = v
  <2>1. v \in W /\ \A u \in W : v <= u
    BY <1>2
  <2>2. w \in W /\ \A u \in W : w <= u
    <3> HIDE DEF W
    <3> QED
      BY <2>1 DEF Min
  <2> HIDE DEF w
  <2> QED
    BY <2>1, <2>2
<1>3. CompactSize(n) = (CASE w = 1 -> <<>> [] w = 2 -> <<Base - 3>> [] w = 4 -> <<Base - 2>>
                          [] w = 8 -> <<Base - 1>>) \o LittleEndian(n, w)
  BY DEF CompactSize
<1> HIDE DEF W, w
<1>4. CASE n < Base - 3
  <2>1. w = 1
    BY <1>2, <1>4
  <2>2. CompactSize(n) = <<>> \o LittleEndian(n, 1)
    BY <1>3, <2>1
  <2>3. LittleEndian(n, 1) = <<n>>
    <3>1. LittleEndian(n, 1) \in Seq(Bytes) /\ Len(LittleEndian(n, 1)) = 1
          /\ LittleEndian(n, 1)[1] = (n \div capacity(1 - 1)) % Base
      <4>1. 1 \in Nat /\ 1 \in 1 .. 1
        OBVIOUS
      <4> QED
        BY <4>1, BytesOf
    <3>2. (n \div capacity(1 - 1)) % Base = n
      <4>1. capacity(1 - 1) = 1 /\ n < Base
        BY Capacities, <1>1, <1>4
      <4>2. n \div 1 = n
        OBVIOUS
      <4>3. n = Base * 0 + n
        BY <1>1
      <4>4. n % Base = n
        BY <1>1, <4>1, <4>3, DivisionIs
      <4> QED
        BY <4>1, <4>2, <4>4
    <3> QED
      BY <3>1, <3>2
  <2>4. <<>> \o <<n>> = <<n>>
    OBVIOUS
  <2> QED
    BY <1>4, <2>2, <2>3, <2>4 DEF WriteVarInt
<1>5. CASE n >= Base - 3 /\ n < capacity(2)
  <2>1. w = 2
    BY <1>1, <1>2, <1>5
  <2>2. CompactSize(n) = <<Base - 3>> \o LittleEndian(n, 2)
    BY <1>3, <2>1
  <2>3. ~(n < Base - 3) /\ n <= capacity(2) - 1
    BY <1>1, <1>5
  <2> QED
    BY <2>2, <2>3 DEF WriteVarInt
<1>6. CASE n >= capacity(2) /\ n < capacity(4)
  <2>1. w = 4
    BY <1>1, <1>2, <1>6
  <2>2. CompactSize(n) = <<Base - 2>> \o LittleEndian(n, 4)
    BY <1>3, <2>1
  <2>3. ~(n < Base - 3) /\ ~(n <= capacity(2) - 1) /\ n <= capacity(4) - 1
    BY <1>1, <1>6
  <2> QED
    BY <2>2, <2>3 DEF WriteVarInt
<1>7. CASE n >= capacity(4)
  <2>1. w = 8
    BY <1>1, <1>2, <1>7
  <2>2. CompactSize(n) = <<Base - 1>> \o LittleEndian(n, 8)
    BY <1>3, <2>1
  <2>3. ~(n < Base - 3) /\ ~(n <= capacity(2) - 1) /\ ~(n <= capacity(4) - 1)
    BY <1>1, <1>7
  <2> QED
    BY <2>2, <2>3 DEF WriteVarInt
<1> QED
  BY <1>1, <1>4, <1>5, <1>6, <1>7
------------------------------------------------------------------------------
(* The transaction that BuildTx makes, with the scripts s. *)
Built(s) ==
  NewTx([i \in Inputs |->
           [NewTxIn(coins[i].txid, coins[i].vout, MaxSequence) EXCEPT !.scriptSig = s[i]]],
        Outputs)

(* The transaction that ToWire makes, with the scripts s and the witnesses w. *)
Wired(t, s, w) ==
  [version |-> 2,
   txIn |-> [i \in Inputs |->
     [hash |-> ReverseBytes(t.inputs[i].previousTxHash),
      index |-> fromBigEndian(t.inputs[i].previousTxIndex),
      signatureScript |-> s[i], witness |-> w[i],
      sequence |-> fromBigEndian(t.inputs[i].sequence)]],
   txOut |-> toWireMsgTx(t).txOut,
   lockTime |-> 0]

(***************************************************************************)
(* The inductive invariant: apart from its scripts and witnesses the       *)
(* transaction is the one that was built, and every input behind next has  *)
(* the signature it would have been given at the start.                    *)
(***************************************************************************)
Unsigned == Built([i \in Inputs |-> <<>>])
UnsignedWire == Wired(Unsigned, [i \in Inputs |-> <<>>], [i \in Inputs |-> <<>>])

Started == pc # "building"
IsBuilt == Started => tx = Built([i \in Inputs |-> tx.inputs[i].scriptSig])
SegwitIsUnsigned == Started /\ segwit => tx = Unsigned
IsWired ==
  pc \in {"signing", "posted"} /\ segwit =>
    msgTx = Wired(Unsigned, [i \in Inputs |-> msgTx.txIn[i].signatureScript],
                            [i \in Inputs |-> msgTx.txIn[i].witness])
NextOK == next \in 1 .. Len(coins) + 1
AllGiven == /\ segwit \in BOOLEAN /\ coins \in Selections /\ payment \in Payments
            /\ ~segwit => \A i \in Inputs : coins[i].type # "p2wpkh"
PcOK == /\ pc \in {"building", "converting", "signing", "posted", "failed"}
        /\ pc = "converting" => segwit
        /\ pc \in {"building", "converting"} => next = 1
        /\ pc = "posted" => next \notin Inputs
SignedAtStart ==
  pc \in {"signing", "posted"} =>
    \A i \in Inputs : i < next =>
      IF ~segwit THEN tx.inputs[i].scriptSig = signedBy(Unsigned, i)
      ELSE /\ coins[i].type = "p2pkh" =>
                msgTx.txIn[i].signatureScript = signatureScript(UnsignedWire, i)
           /\ coins[i].type = "p2wpkh" => msgTx.txIn[i].witness = witnessStack(UnsignedWire, i)

IInv == /\ AllGiven /\ PcOK /\ NextOK
        /\ IsBuilt /\ SegwitIsUnsigned /\ IsWired /\ SignedAtStart
------------------------------------------------------------------------------
(* The inputs are as many as the coins. *)
LEMMA InputsAre == ASSUME AllGiven PROVE Inputs = 1 .. Len(coins) /\ Len(coins) \in Nat
  BY SelectionsAssumption DEF AllGiven, Inputs

(* A built transaction has the inputs that were selected, and their scripts. *)
LEMMA BuiltInputs ==
  ASSUME NEW s
  PROVE  /\ DOMAIN Built(s).inputs = Inputs
         /\ \A i \in Inputs : Built(s).inputs[i].scriptSig = s[i]
  BY DEF Built, NewTx, NewTxIn

(* What is copied for the signature of an input does not depend on scripts. *)
LEMMA OtherInputs ==
  ASSUME NEW xs, NEW ys, NEW outs
  PROVE  [NewTx(xs, outs) EXCEPT !.inputs = ys] = NewTx(ys, outs)
<1> DEFINE v == BigEndian(1, 4)
           l == BigEndian(0, 4)
<1>1. NewTx(xs, outs) = [version |-> v, inputs |-> xs, outputs |-> outs, locktime |-> l]
  BY DEF NewTx
<1>2. NewTx(ys, outs) = [version |-> v, inputs |-> ys, outputs |-> outs, locktime |-> l]
  BY DEF NewTx
<1> HIDE DEF v, l
<1>3. [[version |-> v, inputs |-> xs, outputs |-> outs, locktime |-> l] EXCEPT !.inputs = ys]
        = [version |-> v, inputs |-> ys, outputs |-> outs, locktime |-> l]
  OBVIOUS
<1>4. QED
  BY <1>1, <1>2, <1>3

(* The copy that is signed has none of the scripts that were there. *)
LEMMA CopyIgnoresScripts ==
  ASSUME NEW s, NEW k \in Inputs, NEW p
  PROVE  copyForSigning(Built(s), k, p) = copyForSigning(Unsigned, k, p)
<1> DEFINE copied == [i \in Inputs |-> [NewTxIn(coins[i].txid, coins[i].vout, MaxSequence)
                                        EXCEPT !.scriptSig = IF i = k THEN p ELSE <<>>]]
<1>1. ASSUME NEW t
      PROVE  copyForSigning(Built(t), k, p) = NewTx(copied, Outputs)
  <2> DEFINE emptied == [i \in DOMAIN Built(t).inputs |->
                           [Built(t).inputs[i] EXCEPT !.scriptSig = IF i = k THEN p ELSE <<>>]]
  <2>1. emptied = copied
    <3>1. ASSUME NEW i \in Inputs PROVE emptied[i] = copied[i]
      BY BuiltInputs DEF Built, NewTx, NewTxIn
    <3>2. DOMAIN emptied = DOMAIN copied
      BY BuiltInputs
    <3>3. QED
      BY <3>1, <3>2, BuiltInputs
  <2>2. copyForSigning(Built(t), k, p) = [Built(t) EXCEPT !.inputs = emptied]
    BY DEF copyForSigning
  <2> HIDE DEF emptied, copied
  <2>3. [Built(t) EXCEPT !.inputs = copied] = NewTx(copied, Outputs)
    BY OtherInputs DEF Built
  <2>4. QED
    BY <2>1, <2>2, <2>3
<1>2. QED
  BY <1>1 DEF Unsigned

(* Nor has the signature. *)
LEMMA SignedByIgnoresScripts ==
  ASSUME NEW s, NEW k \in Inputs
  PROVE  signedBy(Built(s), k) = signedBy(Unsigned, k)
  BY CopyIgnoresScripts DEF signedBy, LegacySigHash

(* The same for the messages of the library. *)
LEMMA WiredFields ==
  ASSUME NEW s, NEW w
  PROVE  /\ Wired(Unsigned, s, w).version = 2
         /\ Wired(Unsigned, s, w).lockTime = 0
         /\ Wired(Unsigned, s, w).txOut = toWireMsgTx(Unsigned).txOut
         /\ DOMAIN Wired(Unsigned, s, w).txIn = Inputs
         /\ \A i \in Inputs :
              Wired(Unsigned, s, w).txIn[i] =
                  [hash |-> ReverseBytes(Unsigned.inputs[i].previousTxHash),
                   index |-> fromBigEndian(Unsigned.inputs[i].previousTxIndex),
                   signatureScript |-> s[i], witness |-> w[i],
                   sequence |-> fromBigEndian(Unsigned.inputs[i].sequence)]
  BY DEF Wired, toWireMsgTx

(* The scripts and witnesses of the transaction of btcd are those it was given. *)
LEMMA WiredScripts ==
  ASSUME NEW s, NEW w, NEW i \in Inputs
  PROVE  /\ Wired(Unsigned, s, w).txIn[i].signatureScript = s[i]
         /\ Wired(Unsigned, s, w).txIn[i].witness = w[i]
<1> DEFINE m == Wired(Unsigned, s, w)
           hash == ReverseBytes(Unsigned.inputs[i].previousTxHash)
           index == fromBigEndian(Unsigned.inputs[i].previousTxIndex)
           sequence == fromBigEndian(Unsigned.inputs[i].sequence)
<1>1. m.txIn[i] = [hash |-> hash, index |-> index, signatureScript |-> s[i],
                   witness |-> w[i], sequence |-> sequence]
  BY WiredFields
<1> HIDE DEF m, hash, index, sequence
<1>2. m.txIn[i].signatureScript = s[i] /\ m.txIn[i].witness = w[i]
  BY <1>1
<1>3. QED
  BY <1>2 DEF m

(* All the rest of it does not depend on them. *)
LEMMA UnsignedWireFields ==
  ASSUME NEW s, NEW w
  PROVE  LET m == Wired(Unsigned, s, w)
         IN  /\ m.version = UnsignedWire.version /\ m.lockTime = UnsignedWire.lockTime
             /\ m.txOut = UnsignedWire.txOut
             /\ DOMAIN UnsignedWire.txIn = Inputs
             /\ \A i \in Inputs : /\ m.txIn[i].hash = UnsignedWire.txIn[i].hash
                                  /\ m.txIn[i].index = UnsignedWire.txIn[i].index
                                  /\ m.txIn[i].sequence = UnsignedWire.txIn[i].sequence
<1> DEFINE m == Wired(Unsigned, s, w)
<1>0. PICK u, v : UnsignedWire = Wired(Unsigned, u, v)
  BY DEF UnsignedWire
<1>1. /\ m.version = UnsignedWire.version /\ m.lockTime = UnsignedWire.lockTime
      /\ m.txOut = UnsignedWire.txOut
      /\ DOMAIN UnsignedWire.txIn = Inputs
  BY <1>0, WiredFields
<1>2. ASSUME NEW i \in Inputs
      PROVE  /\ m.txIn[i].hash = UnsignedWire.txIn[i].hash
             /\ m.txIn[i].index = UnsignedWire.txIn[i].index
             /\ m.txIn[i].sequence = UnsignedWire.txIn[i].sequence
  <2> DEFINE hash == ReverseBytes(Unsigned.inputs[i].previousTxHash)
             index == fromBigEndian(Unsigned.inputs[i].previousTxIndex)
             sequence == fromBigEndian(Unsigned.inputs[i].sequence)
  <2>1. m.txIn[i] = [hash |-> hash, index |-> index, signatureScript |-> s[i],
                     witness |-> w[i], sequence |-> sequence]
    BY WiredFields
  <2>2. UnsignedWire.txIn[i] = [hash |-> hash, index |-> index, signatureScript |-> u[i],
                                witness |-> v[i], sequence |-> sequence]
    BY <1>0, WiredFields
  <2> HIDE DEF m, hash, index, sequence
  <2>3. QED
    BY <2>1, <2>2
<1>3. QED
  BY <1>1, <1>2

(* The message of BIP143 has no script or witness of an input in it. *)
LEMMA WitnessMessageIgnoresScripts ==
  ASSUME NEW s, NEW w, NEW k \in Inputs, NEW p, NEW amount
  PROVE  WitnessMessage(Wired(Unsigned, s, w), k, p, amount)
           = WitnessMessage(UnsignedWire, k, p, amount)
<1> DEFINE outpoint(in) == in.hash \o LittleEndian(in.index, 4)
           number(in) == LittleEndian(in.sequence, 4)
           m == Wired(Unsigned, s, w)
<1>1. /\ m.version = UnsignedWire.version /\ m.lockTime = UnsignedWire.lockTime
      /\ m.txOut = UnsignedWire.txOut
      /\ DOMAIN m.txIn = Inputs /\ DOMAIN UnsignedWire.txIn = Inputs
  BY UnsignedWireFields, WiredFields
<1>2. ASSUME NEW i \in Inputs
      PROVE  outpoint(m.txIn[i]) = outpoint(UnsignedWire.txIn[i])
             /\ number(m.txIn[i]) = number(UnsignedWire.txIn[i])
  <2>1. /\ m.txIn[i].hash = UnsignedWire.txIn[i].hash
        /\ m.txIn[i].index = UnsignedWire.txIn[i].index
        /\ m.txIn[i].sequence = UnsignedWire.txIn[i].sequence
    BY UnsignedWireFields
  <2> HIDE DEF m
  <2>2. QED
    BY <2>1
<1> HIDE DEF m
<1>3. [i \in DOMAIN m.txIn |-> outpoint(m.txIn[i])]
        = [i \in DOMAIN UnsignedWire.txIn |-> outpoint(UnsignedWire.txIn[i])]
  BY <1>1, <1>2
<1>4. [i \in DOMAIN m.txIn |-> number(m.txIn[i])]
        = [i \in DOMAIN UnsignedWire.txIn |-> number(UnsignedWire.txIn[i])]
  BY <1>1, <1>2
<1>5. WitnessMessage(m, k, p, amount) = WitnessMessage(UnsignedWire, k, p, amount)
  BY <1>1, <1>2, <1>3, <1>4 DEF WitnessMessage
<1>6. QED
  BY <1>5 DEF m

(* Nor has the other message of txscript. *)
LEMMA LegacyMessageIgnoresScripts ==
  ASSUME NEW s, NEW w, NEW k \in Inputs, NEW p
  PROVE  LegacyMessage(Wired(Unsigned, s, w), k, p) = LegacyMessage(UnsignedWire, k, p)
<1> DEFINE covered(in, script) ==
             [hash |-> in.hash, index |-> in.index, sequence |-> in.sequence,
              signatureScript |-> script, witness |-> <<>>]
           all(m) == [i \in DOMAIN m.txIn |-> covered(m.txIn[i], IF i = k THEN p ELSE <<>>)]
           m == Wired(Unsigned, s, w)
<1>1. /\ m.version = UnsignedWire.version /\ m.lockTime = UnsignedWire.lockTime
      /\ m.txOut = UnsignedWire.txOut
      /\ DOMAIN m.txIn = Inputs /\ DOMAIN UnsignedWire.txIn = Inputs
  BY UnsignedWireFields, WiredFields
<1>2. ASSUME NEW i \in Inputs
      PROVE  /\ m.txIn[i].hash = UnsignedWire.txIn[i].hash
             /\ m.txIn[i].index = UnsignedWire.txIn[i].index
             /\ m.txIn[i].sequence = UnsignedWire.txIn[i].sequence
  BY UnsignedWireFields
<1> HIDE DEF m
<1>3. all(m) = all(UnsignedWire)
  BY <1>1, <1>2
<1>4. LegacyMessage(m, k, p) = LegacyMessage(UnsignedWire, k, p)
  BY <1>1, <1>3 DEF LegacyMessage
<1>5. QED
  BY <1>4 DEF m

(* Hence the signatures do not. *)
LEMMA SegwitSignaturesIgnoreScripts ==
  ASSUME NEW s, NEW w, NEW k \in Inputs
  PROVE  /\ signatureScript(Wired(Unsigned, s, w), k) = signatureScript(UnsignedWire, k)
         /\ witnessStack(Wired(Unsigned, s, w), k) = witnessStack(UnsignedWire, k)
  BY LegacyMessageIgnoresScripts, WitnessMessageIgnoresScripts
  DEF signatureScript, witnessStack

(* To write a script or a witness is to write nothing else. *)
Replaced(f, k, x) == [i \in Inputs |-> IF i = k THEN x ELSE f[i]]

(* What SignInput writes. *)
LEMMA WriteScript ==
  ASSUME NEW s, NEW k \in Inputs, NEW x
  PROVE  [Built(s) EXCEPT !.inputs[k].scriptSig = x]
           = Built(Replaced(s, k, x))
<1> DEFINE n(i) == NewTxIn(coins[i].txid, coins[i].vout, MaxSequence)
           ins == [i \in Inputs |-> [n(i) EXCEPT !.scriptSig = s[i]]]
           t == Replaced(s, k, x)
           new == [i \in Inputs |-> [n(i) EXCEPT !.scriptSig = t[i]]]
<1>1. Built(s) = NewTx(ins, Outputs) /\ Built(t) = NewTx(new, Outputs)
  BY DEF Built
<1>2. Built(s).inputs = ins
  BY DEF Built, NewTx
<1>3. [Built(s) EXCEPT !.inputs[k].scriptSig = x]
        = [Built(s) EXCEPT !.inputs = [Built(s).inputs EXCEPT ![k].scriptSig = x]]
  OBVIOUS
<1>4. [ins EXCEPT ![k].scriptSig = x] = new
  <2>1. ASSUME NEW i \in Inputs PROVE [ins EXCEPT ![k].scriptSig = x][i] = new[i]
    BY DEF NewTxIn, Replaced
  <2>2. QED
    BY <2>1
<1> HIDE DEF ins, new, t
<1>5. [NewTx(ins, Outputs) EXCEPT !.inputs = new] = NewTx(new, Outputs)
  BY OtherInputs
<1>6. [Built(s) EXCEPT !.inputs[k].scriptSig = x] = Built(t)
  BY <1>1, <1>2, <1>3, <1>4, <1>5, Zenon
<1>7. QED
  BY <1>6 DEF t

(* Inputs with the hashes h, indices n, scripts t, witnesses v and sequences q. *)
WireInputs(h, n, t, v, q) ==
  [i \in Inputs |-> [hash |-> h[i], index |-> n[i],
                     signatureScript |-> t[i], witness |-> v[i], sequence |-> q[i]]]

(* What signInputsSegwit writes of an input. *)
LEMMA WriteInput ==
  ASSUME NEW h, NEW n, NEW q, NEW s, NEW w, NEW k \in Inputs, NEW x
  PROVE  /\ [WireInputs(h, n, s, w, q) EXCEPT ![k].witness = x]
              = WireInputs(h, n, s, Replaced(w, k, x), q)
         /\ [WireInputs(h, n, s, w, q) EXCEPT ![k].signatureScript = x]
              = WireInputs(h, n, Replaced(s, k, x), w, q)
<1> USE DEF WireInputs, Replaced
<1>1. ASSUME NEW i \in Inputs
      PROVE  [WireInputs(h, n, s, w, q) EXCEPT ![k].witness = x][i]
               = WireInputs(h, n, s, Replaced(w, k, x), q)[i]
  OBVIOUS
<1>2. ASSUME NEW i \in Inputs
      PROVE  [WireInputs(h, n, s, w, q) EXCEPT ![k].signatureScript = x][i]
               = WireInputs(h, n, Replaced(s, k, x), w, q)[i]
  OBVIOUS
<1>3. QED
  BY <1>1, <1>2

(* What a step of signInputsSegwit writes. *)
setWitness(m, k, x) == [m EXCEPT !.txIn[k].witness = x]
setScript(m, k, x) == [m EXCEPT !.txIn[k].signatureScript = x]

(* And of the transaction. *)
LEMMA WriteWire ==
  ASSUME NEW s, NEW w, NEW k \in Inputs, NEW x
  PROVE  /\ setWitness(Wired(Unsigned, s, w), k, x) = Wired(Unsigned, s, Replaced(w, k, x))
         /\ setScript(Wired(Unsigned, s, w), k, x) = Wired(Unsigned, Replaced(s, k, x), w)
<1> DEFINE h == [i \in Inputs |-> ReverseBytes(Unsigned.inputs[i].previousTxHash)]
           n == [i \in Inputs |-> fromBigEndian(Unsigned.inputs[i].previousTxIndex)]
           q == [i \in Inputs |-> fromBigEndian(Unsigned.inputs[i].sequence)]
           outs == toWireMsgTx(Unsigned).txOut
           msg(ins) == [version |-> 2, txIn |-> ins, txOut |-> outs, lockTime |-> 0]
           ins == WireInputs(h, n, s, w, q)
           witnessed == WireInputs(h, n, s, Replaced(w, k, x), q)
           scripted == WireInputs(h, n, Replaced(s, k, x), w, q)
           m == Wired(Unsigned, s, w)
<1>1. /\ m = msg(ins)
      /\ Wired(Unsigned, s, Replaced(w, k, x)) = msg(witnessed)
      /\ Wired(Unsigned, Replaced(s, k, x), w) = msg(scripted)
  BY DEF Wired, WireInputs, Replaced
<1>2. /\ [m EXCEPT !.txIn[k].witness = x]
           = [m EXCEPT !.txIn = [m.txIn EXCEPT ![k].witness = x]]
      /\ [m EXCEPT !.txIn[k].signatureScript = x]
           = [m EXCEPT !.txIn = [m.txIn EXCEPT ![k].signatureScript = x]]
  OBVIOUS
<1>3. m.txIn = ins
  BY <1>1
<1>4. /\ [ins EXCEPT ![k].witness = x] = witnessed
      /\ [ins EXCEPT ![k].signatureScript = x] = scripted
  <2> HIDE DEF h, n, q
  <2>1. QED
    BY WriteInput
<1>6. ASSUME NEW ys PROVE [msg(ins) EXCEPT !.txIn = ys] = msg(ys)
  <2> HIDE DEF ins, outs
  <2>1. QED
    OBVIOUS
<1> HIDE DEF m, msg, ins, witnessed, scripted
<1>7. /\ [m EXCEPT !.txIn[k].witness = x] = msg(witnessed)
      /\ [m EXCEPT !.txIn[k].signatureScript = x] = msg(scripted)
  BY <1>1, <1>2, <1>3, <1>4, <1>6, Zenon
<1>8. QED
  BY <1>1, <1>7 DEF m, setWitness, setScript

------------------------------------------------------------------------------
(* A step that leaves what was given alone leaves the references alone. *)
LEMMA References ==
  ASSUME UNCHANGED given
  PROVE  /\ Inputs' = Inputs /\ Outputs' = Outputs
         /\ \A s : Built(s)' = Built(s)
         /\ Unsigned' = Unsigned /\ UnsignedWire' = UnsignedWire
         /\ \A k : signedBy(Unsigned, k)' = signedBy(Unsigned, k)
         /\ \A k : signatureScript(UnsignedWire, k)' = signatureScript(UnsignedWire, k)
         /\ \A k : witnessStack(UnsignedWire, k)' = witnessStack(UnsignedWire, k)
<1>1. Inputs' = Inputs /\ Outputs' = Outputs
  BY DEF given, Inputs, Outputs
<1>2. \A s : Built(s)' = Built(s)
  BY <1>1 DEF given, Built
<1>3. Unsigned' = Unsigned
  BY <1>1, <1>2 DEF Unsigned
<1>4. UnsignedWire' = UnsignedWire
  BY <1>1, <1>3 DEF UnsignedWire, Wired
<1>5. \A k : signedBy(Unsigned, k)' = signedBy(Unsigned, k)
  BY <1>3 DEF given, signedBy, LegacySigHash, scriptOfCoin
<1>6. \A k : signatureScript(UnsignedWire, k)' = signatureScript(UnsignedWire, k)
  BY <1>4 DEF given, signatureScript, scriptOfCoin
<1>7. \A k : witnessStack(UnsignedWire, k)' = witnessStack(UnsignedWire, k)
  BY <1>4 DEF given, witnessStack, scriptOfCoin
<1>8. QED
  BY <1>1, <1>2, <1>3, <1>4, <1>5, <1>6, <1>7

------------------------------------------------------------------------------
(* The coins, their number and the numbers they carry. *)
LEMMA CoinsAre ==
  ASSUME AllGiven
  PROVE  /\ Inputs = 1 .. Len(coins) /\ Len(coins) \in Nat /\ Len(coins) < capacity(8)
         /\ \A i \in Inputs :
              /\ coins[i].txid \in [1 .. HashSize -> Bytes]
              /\ coins[i].vout \in Nat /\ coins[i].vout < capacity(4)
              /\ coins[i].key \in Bytes
<1>1. coins \in Seq(Coin) /\ Len(coins) < capacity(8)
      /\ \A i \in DOMAIN coins : coins[i].vout < capacity(4)
  BY SelectionsAssumption DEF AllGiven
<1>2. Inputs = 1 .. Len(coins) /\ Len(coins) \in Nat
  BY <1>1 DEF Inputs
<1>3. ASSUME NEW i \in Inputs
      PROVE  /\ coins[i].txid \in [1 .. HashSize -> Bytes]
             /\ coins[i].vout \in Nat /\ coins[i].vout < capacity(4)
             /\ coins[i].key \in Bytes
  <2>1. coins[i] \in Coin
    BY <1>1, <1>2
  <2>2. i \in DOMAIN coins
    BY DEF Inputs
  <2> QED
    BY <1>1, <2>1, <2>2 DEF Coin
<1> QED
  BY <1>1, <1>2, <1>3

(* A sequence of two, from one and one. *)
LEMMA PairIsConcat ==
  ASSUME NEW x, NEW y
  PROVE  <<x>> \o <<y>> = <<x, y>>
<1> DEFINE s == <<x>> \o <<y>>
           t == <<x, y>>
           S == {x, y}
<1>1. s \in Seq(S) /\ t \in Seq(S)
  OBVIOUS
<1>2. Len(s) = 2 /\ Len(t) = 2 /\ s[1] = t[1] /\ s[2] = t[2]
  OBVIOUS
<1> HIDE DEF s, t, S
<1>3. \A i \in 1 .. 2 : s[i] = t[i]
  <2>1. \A i \in 1 .. 2 : i = 1 \/ i = 2
    OBVIOUS
  <2> QED
    BY <1>2, <2>1
<1>4. s = t
  BY <1>1, <1>2, <1>3, SeqEqual
<1> QED
  BY <1>4 DEF s, t

(* The payment, and the change if there is any: amounts that fit their bytes. *)
LEMMA OutputsAre ==
  ASSUME AllGiven
  PROVE  /\ Len(Outputs) = IF payment.change > 0 THEN 2 ELSE 1
         /\ DOMAIN Outputs = 1 .. Len(Outputs)
         /\ Outputs[1] = NewTxOut(payment.amount, payment.dest)
         /\ payment.change > 0 => Outputs[2] = NewTxOut(payment.change, payment.changeScript)
         /\ \A j \in 1 .. Len(Outputs) : \E a \in Nat, p \in Script :
              Outputs[j] = NewTxOut(a, p) /\ a < capacity(8)
<1> DEFINE x == NewTxOut(payment.amount, payment.dest)
           y == NewTxOut(payment.change, payment.changeScript)
<1>1. /\ payment.amount \in Nat /\ payment.amount < capacity(8) /\ payment.dest \in Script
      /\ payment.change \in Int /\ payment.change < capacity(8)
      /\ payment.changeScript \in Script
  BY PaymentsAssumption DEF AllGiven
<1>2. Outputs = <<x>> \o (IF payment.change > 0 THEN <<y>> ELSE <<>>)
  BY DEF Outputs
<1>3. CASE payment.change > 0
  <2> HIDE DEF x, y
  <2>1. Outputs = <<x, y>>
    <3>1. Outputs = <<x>> \o <<y>>
      BY <1>2, <1>3, Zenon
    <3>2. <<x>> \o <<y>> = <<x, y>>
      BY PairIsConcat
    <3> QED
      BY <3>1, <3>2
  <2>2. payment.change \in Nat
    BY <1>1, <1>3
  <2>3. /\ Len(Outputs) = 2 /\ DOMAIN Outputs = 1 .. 2 /\ Outputs[1] = x /\ Outputs[2] = y
    BY <2>1
  <2>4. \A j \in 1 .. 2 : j = 1 \/ j = 2
    OBVIOUS
  <2>5. \A j \in 1 .. 2 : \E a \in Nat, p \in Script :
              Outputs[j] = NewTxOut(a, p) /\ a < capacity(8)
    BY <1>1, <2>2, <2>3, <2>4 DEF x, y
  <2> QED
    BY <1>3, <2>3, <2>5 DEF x, y
<1>4. CASE ~(payment.change > 0)
  <2> HIDE DEF x, y
  <2>1. Outputs = <<x>>
    <3>1. Outputs = <<x>> \o <<>>
      BY <1>2, <1>4, Zenon
    <3>2. <<x>> \o <<>> = <<x>>
      OBVIOUS
    <3> QED
      BY <3>1, <3>2
  <2>3. /\ Len(Outputs) = 1 /\ DOMAIN Outputs = 1 .. 1 /\ Outputs[1] = x
    BY <2>1
  <2>4. \A j \in 1 .. 1 : j = 1
    OBVIOUS
  <2>5. \A j \in 1 .. 1 : \E a \in Nat, p \in Script :
              Outputs[j] = NewTxOut(a, p) /\ a < capacity(8)
    BY <1>1, <2>3, <2>4 DEF x
  <2> QED
    BY <1>4, <2>3, <2>5 DEF x
<1> QED
  BY <1>3, <1>4

(* The capacities that matter here. *)
LEMMA Fits ==
  /\ capacity(4) \in Nat /\ capacity(8) \in Nat /\ 4 <= capacity(4) /\ 4 <= capacity(8)
  /\ MaxSequence \in Nat /\ MaxSequence < capacity(4)
<1>1. /\ capacity(1) = Base /\ Base \in Nat /\ 4 <= Base
      /\ \A w \in Nat : capacity(w) \in Nat
      /\ \A v, w \in Nat : v <= w => capacity(v) <= capacity(w)
  BY Capacities
<1>2. /\ capacity(4) \in Nat /\ capacity(8) \in Nat /\ 4 <= capacity(4) /\ 4 <= capacity(8)
  <2>1. 1 \in Nat /\ 4 \in Nat /\ 8 \in Nat /\ 1 <= 4 /\ 1 <= 8
    OBVIOUS
  <2>2. capacity(4) \in Nat /\ capacity(8) \in Nat
        /\ capacity(1) <= capacity(4) /\ capacity(1) <= capacity(8)
    BY <1>1, <2>1
  <2> QED
    BY <1>1, <2>2
<1> QED
  BY <1>2 DEF MaxSequence

(* The script of a coin is one, whatever the server made of it. *)
LEMMA ScriptOfIsScript ==
  ASSUME AllGiven, NEW i \in Inputs
  PROVE  scriptOfCoin(i) \in Script
<1> DEFINE key == coins[i].key
<1>1. key \in Bytes /\ 0 \in Bytes /\ Base - 1 \in Bytes
  <2>1. key \in Bytes
    BY CoinsAre
  <2>2. Base \in Nat /\ Base >= 4
    BY Capacities
  <2> QED
    BY <2>1, <2>2 DEF Bytes
<1>2. capacity(8) \in Nat /\ 4 <= capacity(8)
  BY Fits
<1> HIDE DEF key
<1>3. <<Base - 1, key>> \in Script /\ <<0, key>> \in Script /\ <<>> \in Script
  BY <1>1, <1>2 DEF Script
<1>4. scriptOf(coins[i].type, key) \in {<<Base - 1, key>>, <<0, key>>, <<>>}
  BY DEF scriptOf
<1> QED
  BY <1>3, <1>4 DEF scriptOfCoin, key

(***************************************************************************)
(* Both writers, on the transaction that BuildTx makes with any scripts.   *)
(***************************************************************************)
(* An input or output as a node reads it. *)
asWireIn(in) ==
  [hash |-> Reverse(in.previousTxHash), index |-> fromBigEndian(in.previousTxIndex),
   signatureScript |-> in.scriptSig, witness |-> <<>>, sequence |-> fromBigEndian(in.sequence)]
asWireOut(out) == [value |-> fromBigEndian(out.value), pkScript |-> out.pkScript]

BuiltIn(i, script) ==
  [NewTxIn(coins[i].txid, coins[i].vout, MaxSequence) EXCEPT !.scriptSig = script]

(* The fields of an input that BuildTx makes. *)
LEMMA BuiltInIs ==
  ASSUME NEW i, NEW script
  PROVE  BuiltIn(i, script) =
           [previousTxHash |-> coins[i].txid, previousTxIndex |-> BigEndian(coins[i].vout, 4),
            scriptSig |-> script, sequence |-> BigEndian(MaxSequence, 4)]
  BY DEF BuiltIn, NewTxIn

(* The fields of an input that a node reads, whatever its script. *)
LEMMA InputAsRead ==
  ASSUME AllGiven, NEW i \in Inputs, NEW script
  PROVE  asWireIn(BuiltIn(i, script)) =
           [hash |-> Reverse(coins[i].txid), index |-> coins[i].vout,
            signatureScript |-> script, witness |-> <<>>, sequence |-> MaxSequence]
<1> DEFINE in == BuiltIn(i, script)
           vout == coins[i].vout
           index == BigEndian(vout, 4)
           sequence == BigEndian(MaxSequence, 4)
<1>1. in = [previousTxHash |-> coins[i].txid, previousTxIndex |-> index,
            scriptSig |-> script, sequence |-> sequence]
  BY BuiltInIs
<1>2. vout \in Nat /\ vout < capacity(4) /\ MaxSequence \in Nat /\ MaxSequence < capacity(4)
  BY CoinsAre, Fits
<1> HIDE DEF in, vout
<1>3. fromBigEndian(index) = vout /\ fromBigEndian(sequence) = MaxSequence
  <2>1. 4 \in Nat
    OBVIOUS
  <2> QED
    BY <1>2, <2>1, NumberReadsBack
<1> HIDE DEF index, sequence
<1>4. asWireIn(in) = [hash |-> Reverse(coins[i].txid), index |-> vout,
                      signatureScript |-> script, witness |-> <<>>, sequence |-> MaxSequence]
  BY <1>1, <1>3 DEF asWireIn
<1> QED
  BY <1>4 DEF in, vout

(* Both writers write the same of an input. *)
LEMMA InputWritten ==
  ASSUME AllGiven, NEW i \in Inputs, NEW script \in Script
  PROVE  SerializeTxIn(BuiltIn(i, script)) = wireIn(asWireIn(BuiltIn(i, script)))
<1> DEFINE in == BuiltIn(i, script)
           vout == coins[i].vout
           index == BigEndian(vout, 4)
           sequence == BigEndian(MaxSequence, 4)
<1>1. in = [previousTxHash |-> coins[i].txid, previousTxIndex |-> index,
            scriptSig |-> script, sequence |-> sequence]
  BY BuiltInIs
<1>2. vout \in Nat /\ MaxSequence \in Nat
  BY CoinsAre, Fits
<1>6. asWireIn(in) = [hash |-> Reverse(coins[i].txid), index |-> vout,
                      signatureScript |-> script, witness |-> <<>>, sequence |-> MaxSequence]
  BY InputAsRead
<1> HIDE DEF in, vout
<1>3. /\ ReverseBytes(index) = LittleEndian(vout, 4)
      /\ ReverseBytes(sequence) = LittleEndian(MaxSequence, 4)
  <2>1. 4 \in Nat
    OBVIOUS
  <2> QED
    BY <1>2, <2>1, NumberReversed
<1>4. WriteVarInt(Len(script)) = CompactSize(Len(script))
  <2>1. Len(script) \in Nat /\ Len(script) < capacity(8)
    BY DEF Script
  <2> QED
    BY <2>1, VarIntIsCompactSize
<1> HIDE DEF index, sequence
<1>5. SerializeTxIn(in) = Reverse(coins[i].txid) \o LittleEndian(vout, 4)
                            \o CompactSize(Len(script)) \o script \o LittleEndian(MaxSequence, 4)
  BY <1>1, <1>3, <1>4 DEF SerializeTxIn, ReverseBytes
<1>7. wireIn(asWireIn(in)) = Reverse(coins[i].txid) \o LittleEndian(vout, 4)
                               \o CompactSize(Len(script)) \o script \o LittleEndian(MaxSequence, 4)
  BY <1>6 DEF wireIn
<1> QED
  BY <1>5, <1>7 DEF in

(* Both writers write the same of an output, and a node reads what was put in. *)
LEMMA OutputWritten ==
  ASSUME NEW a \in Nat, a < capacity(8), NEW p \in Script
  PROVE  /\ SerializeTxOut(NewTxOut(a, p)) = wireOut(asWireOut(NewTxOut(a, p)))
         /\ asWireOut(NewTxOut(a, p)) = [value |-> a, pkScript |-> p]
<1> DEFINE value == BigEndian(a, 8)
           out == NewTxOut(a, p)
<1>1. out = [value |-> value, pkScript |-> p]
  BY DEF NewTxOut
<1>2. fromBigEndian(value) = a /\ ReverseBytes(value) = LittleEndian(a, 8)
  <2>1. 8 \in Nat
    OBVIOUS
  <2> QED
    BY <2>1, NumberReadsBack, NumberReversed
<1>3. WriteVarInt(Len(p)) = CompactSize(Len(p))
  <2>1. Len(p) \in Nat /\ Len(p) < capacity(8)
    BY DEF Script
  <2> QED
    BY <2>1, VarIntIsCompactSize
<1> HIDE DEF value, out
<1>4. SerializeTxOut(out) = LittleEndian(a, 8) \o CompactSize(Len(p)) \o p
  BY <1>1, <1>2, <1>3 DEF SerializeTxOut
<1>5. asWireOut(out) = [value |-> a, pkScript |-> p]
  BY <1>1, <1>2 DEF asWireOut
<1>6. wireOut(asWireOut(out)) = LittleEndian(a, 8) \o CompactSize(Len(p)) \o p
  BY <1>5 DEF wireOut
<1> QED
  BY <1>4, <1>5, <1>6 DEF out

(* All of a transaction as a node reads it, when it has the scripts s. *)
WireIns(s) == [i \in Inputs |-> asWireIn(BuiltIn(i, s[i]))]
WireOuts == [j \in DOMAIN Outputs |-> asWireOut(Outputs[j])]

(* The transaction with the scripts s, in version v: what BuildTx makes has version 1. *)
BuiltAs(v, s) ==
  [version |-> BigEndian(v, 4), inputs |-> [i \in Inputs |-> BuiltIn(i, s[i])],
   outputs |-> Outputs, locktime |-> BigEndian(0, 4)]

(* NewTx makes version 1. *)
LEMMA BuiltIs == ASSUME NEW s PROVE Built(s) = BuiltAs(1, s)
  BY DEF Built, BuiltAs, NewTx, BuiltIn

(* What a node reads of it. *)
LEMMA AsMsgTxIs ==
  ASSUME NEW v \in Nat, v < capacity(4), NEW s
  PROVE  asMsgTx(BuiltAs(v, s))
           = [version |-> v, txIn |-> WireIns(s), txOut |-> WireOuts, lockTime |-> 0]
<1> DEFINE t == BuiltAs(v, s)
           ins == [i \in Inputs |-> BuiltIn(i, s[i])]
<1>1. t = [version |-> BigEndian(v, 4), inputs |-> ins, outputs |-> Outputs,
           locktime |-> BigEndian(0, 4)]
  BY DEF BuiltAs
<1>2. fromBigEndian(BigEndian(v, 4)) = v /\ fromBigEndian(BigEndian(0, 4)) = 0
  <2>1. 0 < capacity(4) /\ 4 \in Nat
    BY Fits
  <2> QED
    BY <2>1, NumberReadsBack
<1>3. WireIns(s) = [i \in DOMAIN ins |-> asWireIn(ins[i])]
  BY DEF WireIns
<1> HIDE DEF t, ins
<1>4. asMsgTx(t) = [version |-> fromBigEndian(t.version),
                    txIn |-> [i \in DOMAIN t.inputs |-> asWireIn(t.inputs[i])],
                    txOut |-> [j \in DOMAIN t.outputs |-> asWireOut(t.outputs[j])],
                    lockTime |-> fromBigEndian(t.locktime)]
  BY DEF asMsgTx, asWireIn, asWireOut
<1>5. /\ t.version = BigEndian(v, 4) /\ t.inputs = ins /\ t.outputs = Outputs
      /\ t.locktime = BigEndian(0, 4)
  BY <1>1
<1>6. asMsgTx(t) = [version |-> v, txIn |-> WireIns(s), txOut |-> WireOuts, lockTime |-> 0]
  BY <1>2, <1>3, <1>4, <1>5 DEF WireOuts
<1> QED
  BY <1>6 DEF t

(***************************************************************************)
(* The hand-written writer and the library's write the same bytes.         *)
(***************************************************************************)
LEMMA WritersAgree ==
  ASSUME AllGiven, NEW v \in Nat, v < capacity(4), NEW s, \A i \in Inputs : s[i] \in Script
  PROVE  Serialize(BuiltAs(v, s)) = WireBytes(asMsgTx(BuiltAs(v, s)))
<1> DEFINE t == BuiltAs(v, s)
           m == asMsgTx(t)
           ins == [i \in Inputs |-> BuiltIn(i, s[i])]
           insBytes == [i \in Inputs |-> SerializeTxIn(ins[i])]
           outsBytes == [j \in DOMAIN Outputs |-> SerializeTxOut(Outputs[j])]
<1>1. t = [version |-> BigEndian(v, 4), inputs |-> ins, outputs |-> Outputs,
           locktime |-> BigEndian(0, 4)]
  BY DEF BuiltAs
<1>2. m = [version |-> v, txIn |-> WireIns(s), txOut |-> WireOuts, lockTime |-> 0]
  BY AsMsgTxIs
<1>3. ReverseBytes(BigEndian(v, 4)) = LittleEndian(v, 4)
      /\ ReverseBytes(BigEndian(0, 4)) = LittleEndian(0, 4)
  <2>1. 0 \in Nat /\ 4 \in Nat
    OBVIOUS
  <2> QED
    BY <2>1, NumberReversed
<1>4. /\ Len(ins) = Len(coins) /\ Len(WireIns(s)) = Len(coins)
      /\ DOMAIN ins = Inputs /\ DOMAIN WireIns(s) = Inputs
      /\ WriteVarInt(Len(coins)) = CompactSize(Len(coins))
  <2>1. Inputs = 1 .. Len(coins) /\ Len(coins) \in Nat /\ Len(coins) < capacity(8)
    BY CoinsAre
  <2>2. /\ Len(ins) = Len(coins) /\ Len(WireIns(s)) = Len(coins)
        /\ DOMAIN ins = Inputs /\ DOMAIN WireIns(s) = Inputs
    BY <2>1 DEF WireIns
  <2> QED
    BY <2>1, <2>2, VarIntIsCompactSize
<1>5. insBytes = [i \in Inputs |-> wireIn(WireIns(s)[i])]
  <2>1. ASSUME NEW i \in Inputs PROVE SerializeTxIn(ins[i]) = wireIn(WireIns(s)[i])
    <3>1. s[i] \in Script
      OBVIOUS
    <3>2. SerializeTxIn(BuiltIn(i, s[i])) = wireIn(asWireIn(BuiltIn(i, s[i])))
      BY <3>1, InputWritten
    <3> QED
      BY <3>2 DEF WireIns
  <2> HIDE DEF ins
  <2> QED
    BY <2>1
<1>6. /\ Len(WireOuts) = Len(Outputs) /\ DOMAIN WireOuts = DOMAIN Outputs
      /\ WriteVarInt(Len(Outputs)) = CompactSize(Len(Outputs))
  <2>1. DOMAIN Outputs = 1 .. Len(Outputs) /\ Len(Outputs) \in {1, 2}
    BY OutputsAre
  <2>2. Len(Outputs) \in Nat /\ Len(Outputs) < capacity(8)
    BY <2>1, Fits
  <2>3. Len(WireOuts) = Len(Outputs) /\ DOMAIN WireOuts = DOMAIN Outputs
    BY <2>1, <2>2 DEF WireOuts
  <2> QED
    BY <2>2, <2>3, VarIntIsCompactSize
<1>7. outsBytes = [j \in DOMAIN Outputs |-> wireOut(WireOuts[j])]
  <2>1. ASSUME NEW j \in DOMAIN Outputs
        PROVE  SerializeTxOut(Outputs[j]) = wireOut(WireOuts[j])
    <3>1. PICK a \in Nat, p \in Script : Outputs[j] = NewTxOut(a, p) /\ a < capacity(8)
      BY OutputsAre
    <3>2. SerializeTxOut(Outputs[j]) = wireOut(asWireOut(Outputs[j]))
      BY <3>1, OutputWritten
    <3> QED
      BY <3>2 DEF WireOuts
  <2> QED
    BY <2>1
<1> DEFINE bytes == LittleEndian(v, 4)
                      \o (CompactSize(Len(coins)) \o FlattenSeq(insBytes))
                      \o (CompactSize(Len(Outputs)) \o FlattenSeq(outsBytes))
                      \o LittleEndian(0, 4)
<1>8. Serialize(t) = bytes
  <2>1. /\ t.version = BigEndian(v, 4) /\ t.inputs = ins /\ t.outputs = Outputs
        /\ t.locktime = BigEndian(0, 4)
    <3> HIDE DEF t, ins
    <3> QED
      BY <1>1
  <2>2. insBytes = [i \in DOMAIN ins |-> SerializeTxIn(ins[i])]
    BY <1>4
  <2> HIDE DEF t, ins, insBytes, outsBytes
  <2>3. serializeAll(t.inputs, SerializeTxIn) = CompactSize(Len(coins)) \o FlattenSeq(insBytes)
    BY <1>4, <2>1, <2>2 DEF serializeAll
  <2>4. serializeAll(t.outputs, SerializeTxOut) = CompactSize(Len(Outputs)) \o FlattenSeq(outsBytes)
    BY <1>6, <2>1 DEF serializeAll, outsBytes
  <2> QED
    BY <1>3, <2>1, <2>3, <2>4 DEF Serialize
<1>9. WireBytes(m) = bytes
  <2> HIDE DEF m, t, insBytes, outsBytes
  <2>1. /\ m.version = v /\ m.txIn = WireIns(s) /\ m.txOut = WireOuts /\ m.lockTime = 0
    BY <1>2
  <2>2. insBytes = [i \in DOMAIN m.txIn |-> wireIn(m.txIn[i])]
    BY <1>4, <1>5, <2>1
  <2>3. outsBytes = [j \in DOMAIN m.txOut |-> wireOut(m.txOut[j])]
    BY <1>6, <1>7, <2>1
  <2> QED
    BY <1>4, <1>6, <2>1, <2>2, <2>3 DEF WireBytes
<1> QED
  BY <1>8, <1>9
------------------------------------------------------------------------------
(***************************************************************************)
(* The invariant implies the property: signatures have not changed, and    *)
(* neither has what they are compared with.                                *)
(***************************************************************************)
LEMMA InvariantImpliesSignaturesStay == IInv => SignaturesStay
<1> SUFFICES ASSUME IInv, pc \in {"signing", "posted"}, NEW i \in Inputs, i < next
             PROVE IF ~segwit THEN tx.inputs[i].scriptSig = signedBy(tx, i)
                   ELSE /\ coins[i].type = "p2pkh" =>
                             msgTx.txIn[i].signatureScript = signatureScript(msgTx, i)
                        /\ coins[i].type = "p2wpkh" =>
                             msgTx.txIn[i].witness = witnessStack(msgTx, i)
  BY DEF SignaturesStay
<1>1. CASE ~segwit
  <2>1. PICK s : tx = Built(s)
    BY DEF IInv, IsBuilt, Started
  <2>2. signedBy(tx, i) = signedBy(Unsigned, i)
    BY <2>1, SignedByIgnoresScripts
  <2>3. QED
    BY <1>1, <2>2 DEF IInv, SignedAtStart
<1>2. CASE segwit
  <2>1. PICK s, w : msgTx = Wired(Unsigned, s, w)
    BY <1>2 DEF IInv, IsWired
  <2>2. /\ signatureScript(msgTx, i) = signatureScript(UnsignedWire, i)
        /\ witnessStack(msgTx, i) = witnessStack(UnsignedWire, i)
    BY <2>1, SegwitSignaturesIgnoreScripts
  <2>3. QED
    BY <1>2, <2>2 DEF IInv, SignedAtStart
<1>3. QED
  BY <1>1, <1>2

(* Nothing is built or signed at the start. *)
LEMMA InitInvariant == Init => IInv
<1> SUFFICES ASSUME Init PROVE IInv
  OBVIOUS
<1>1. AllGiven
  BY DEF Init, AllGiven
<1>2. NextOK
  BY <1>1, InputsAre DEF Init, NextOK
<1>3. QED
  BY <1>1, <1>2 DEF Init, IInv, PcOK, IsBuilt, SegwitIsUnsigned, IsWired, SignedAtStart, Started

(* The shape of the transactions, as the invariant has it. *)
LEMMA Shapes ==
  /\ \A s, t : t = Built(s) => t = Built([i \in Inputs |-> t.inputs[i].scriptSig])
  /\ \A s, w, m : m = Wired(Unsigned, s, w) =>
       m = Wired(Unsigned, [i \in Inputs |-> m.txIn[i].signatureScript],
                           [i \in Inputs |-> m.txIn[i].witness])
<1>1. ASSUME NEW s, NEW t, t = Built(s)
      PROVE  t = Built([i \in Inputs |-> t.inputs[i].scriptSig])
  <2> DEFINE r == [i \in Inputs |-> t.inputs[i].scriptSig]
  <2>1. \A i \in Inputs : r[i] = s[i]
    BY <1>1, BuiltInputs
  <2> HIDE DEF r
  <2>2. Built(r) = Built(s)
    BY <2>1 DEF Built
  <2>3. QED
    BY <1>1, <2>2 DEF r
<1>2. ASSUME NEW s, NEW w, NEW m, m = Wired(Unsigned, s, w)
      PROVE  m = Wired(Unsigned, [i \in Inputs |-> m.txIn[i].signatureScript],
                                 [i \in Inputs |-> m.txIn[i].witness])
  <2> DEFINE r == [i \in Inputs |-> m.txIn[i].signatureScript]
             v == [i \in Inputs |-> m.txIn[i].witness]
  <2>1. \A i \in Inputs : r[i] = s[i] /\ v[i] = w[i]
    BY <1>2, WiredScripts
  <2> HIDE DEF r, v
  <2>2. Wired(Unsigned, r, v) = Wired(Unsigned, s, w)
    BY <2>1 DEF Wired
  <2>3. QED
    BY <1>2, <2>2 DEF r, v
<1>3. QED
  BY <1>1, <1>2

(* Steps that sign nothing and convert nothing. *)
LEMMA OtherSteps ==
  ASSUME IInv, UNCHANGED <<given, tx, msgTx, next>>,
         pc' \in {pc, "failed"} \/ (pc = "signing" /\ pc' = "posted" /\ next \notin Inputs),
         pc # "building" \/ pc' = pc
  PROVE  IInv'
<1>1. /\ AllGiven' /\ Len(coins') = Len(coins)
      /\ Inputs' = Inputs /\ coins' = coins
  BY DEF IInv, AllGiven, given, Inputs
<1>2. PcOK' /\ NextOK'
  BY <1>1 DEF IInv, PcOK, NextOK, given
<1>3. IsBuilt'
  BY <1>1, References DEF IInv, IsBuilt, Started, given
<1>4. SegwitIsUnsigned'
  BY References DEF IInv, SegwitIsUnsigned, Started, given
<1>5. IsWired'
  BY <1>1, References DEF IInv, IsWired, given, Wired
<1>6. SignedAtStart'
  BY <1>1, References DEF IInv, SignedAtStart, given
<1>7. QED
  BY <1>1, <1>2, <1>3, <1>4, <1>5, <1>6 DEF IInv

(* Every action keeps the invariant: a step for each conjunct it can disturb. *)
LEMMA NextInvariant == IInv /\ [Next]_vars => IInv'
<1> SUFFICES ASSUME IInv, [Next]_vars PROVE IInv'
  OBVIOUS
<1>0. UNCHANGED given
  BY DEF Next, vars, BuildTx, SignInput, PostLegacy, ToWire, SignInputSegwit, PostSegwit, Ended
<1> USE <1>0
<1>1. /\ AllGiven' /\ Inputs' = Inputs /\ Len(coins') = Len(coins)
      /\ Inputs = 1 .. Len(coins) /\ Len(coins) \in Nat
  BY InputsAre DEF IInv, AllGiven, given, Inputs
<1>2. CASE BuildTx
  <2>1. tx' = Unsigned
    <3>1. [i \in Inputs |-> NewTxIn(coins[i].txid, coins[i].vout, MaxSequence)]
            = [i \in Inputs |->
                 [NewTxIn(coins[i].txid, coins[i].vout, MaxSequence) EXCEPT !.scriptSig = <<>>]]
      BY DEF NewTxIn
    <3>2. QED
      BY <1>2, <3>1 DEF BuildTx, Unsigned, Built
  <2>2. IsBuilt'
    <3>1. tx' = Built([i \in Inputs |-> tx'.inputs[i].scriptSig])
      BY <2>1, Shapes DEF Unsigned
    <3>2. QED
      BY <3>1, <1>1, References DEF IsBuilt
  <2>3. SegwitIsUnsigned'
    BY <2>1, References DEF SegwitIsUnsigned
  <2>4. IsWired'
    BY <1>2 DEF BuildTx, IsWired, given
  <2>5. SignedAtStart'
    BY <1>2, <1>1
    DEF BuildTx, IInv, NextOK, PcOK, SignedAtStart, given
  <2>6. PcOK' /\ NextOK'
    BY <1>2, <1>1 DEF BuildTx, IInv, PcOK, NextOK, given
  <2>7. QED
    BY <1>1, <2>2, <2>3, <2>4, <2>5, <2>6 DEF IInv
<1>3. CASE SignInput
  <2> USE <1>3 DEF SignInput
  <2>1. CASE coins[next].type = "garbled"
    BY <2>1, OtherSteps DEF IInv
  <2>2. CASE coins[next].type # "garbled"
    <3>1. PICK s : tx = Built(s)
      BY DEF IInv, IsBuilt, Started
    <3>2. signedBy(tx, next) = signedBy(Unsigned, next)
      BY <3>1, SignedByIgnoresScripts
    <3> DEFINE r == Replaced(s, next, signedBy(Unsigned, next))
    <3>3. tx' = Built(r)
      <4>1. tx' = [Built(s) EXCEPT !.inputs[next].scriptSig = signedBy(Unsigned, next)]
        BY <2>2, <3>1, <3>2
      <4>2. QED
        BY <4>1, WriteScript
    <3>4. \A i \in Inputs : /\ tx'.inputs[i].scriptSig = r[i]
                            /\ tx.inputs[i].scriptSig = s[i]
      BY <3>1, <3>3, BuiltInputs
    <3>5. IsBuilt'
      BY <1>1, <3>3, Shapes, References DEF IsBuilt
    <3>6. SegwitIsUnsigned' /\ IsWired'
      BY DEF SegwitIsUnsigned, IsWired, given
    <3>7. PcOK' /\ NextOK'
      BY <2>2, <1>1 DEF IInv, PcOK, NextOK, given
    <3>8. next \in Nat /\ next' = next + 1
      BY <2>2, <1>1
    <3>9. SignedAtStart'
      <4> SUFFICES ASSUME NEW i \in Inputs, i < next'
                   PROVE  tx'.inputs[i].scriptSig = signedBy(Unsigned, i)
        BY <1>1, References DEF SignedAtStart, given
      <4>1. CASE i = next
        BY <4>1, <3>4 DEF Replaced
      <4>2. CASE i # next
        <5>1. i < next
          BY <4>2, <3>8, <1>1
        <5>2. tx.inputs[i].scriptSig = signedBy(Unsigned, i)
          BY <5>1 DEF IInv, SignedAtStart
        <5>3. QED
          BY <5>2, <4>2, <3>4 DEF Replaced
      <4>3. QED
        BY <4>1, <4>2
    <3>10. QED
      BY <1>1, <3>5, <3>6, <3>7, <3>9 DEF IInv
  <2>3. QED
    BY <2>1, <2>2
<1>4. CASE PostLegacy
  BY <1>4, OtherSteps DEF PostLegacy
<1>5. CASE ToWire
  <2> USE <1>5 DEF ToWire
  <2>1. tx = Unsigned /\ segwit /\ next = 1
    BY DEF IInv, SegwitIsUnsigned, PcOK, Started
  <2>2. msgTx' = UnsignedWire
    <3>1. DOMAIN Unsigned.inputs = Inputs
      BY BuiltInputs DEF Unsigned
    <3>2. QED
      BY <2>1, <3>1 DEF UnsignedWire, Wired, toWireMsgTx
  <2>3. IsWired'
    <3>1. msgTx' = Wired(Unsigned, [i \in Inputs |-> msgTx'.txIn[i].signatureScript],
                                   [i \in Inputs |-> msgTx'.txIn[i].witness])
      BY <2>2, Shapes DEF UnsignedWire
    <3>2. QED
      BY <3>1, <1>1, References DEF IsWired, Wired
  <2>4. IsBuilt' /\ SegwitIsUnsigned'
    BY <2>1, <1>1, References DEF IInv, IsBuilt, SegwitIsUnsigned, Started, given
  <2>5. PcOK' /\ NextOK'
    BY <2>1, <1>1 DEF IInv, PcOK, NextOK, given
  <2>6. SignedAtStart'
    BY <2>1, <1>1 DEF SignedAtStart
  <2>7. QED
    BY <1>1, <2>3, <2>4, <2>5, <2>6 DEF IInv
<1>6. CASE SignInputSegwit
  <2> USE <1>6 DEF SignInputSegwit
  <2> DEFINE script == signatureScript(UnsignedWire, next)
             stack == witnessStack(UnsignedWire, next)
  <2>1. PICK s, w : msgTx = Wired(Unsigned, s, w)
    BY DEF IInv, IsWired
  <2>2. signatureScript(msgTx, next) = script /\ witnessStack(msgTx, next) = stack
    BY <2>1, SegwitSignaturesIgnoreScripts
  <2>3. ASSUME NEW r, NEW v, msgTx' = Wired(Unsigned, r, v),
               next' = next + 1, pc' = pc,
               \A i \in Inputs \ {next} : r[i] = s[i] /\ v[i] = w[i],
               coins[next].type = "p2pkh" => r[next] = script,
               coins[next].type = "p2wpkh" => v[next] = stack
        PROVE  IInv'
    <3>1. IsWired'
      <4>1. msgTx' = Wired(Unsigned, [i \in Inputs |-> msgTx'.txIn[i].signatureScript],
                                     [i \in Inputs |-> msgTx'.txIn[i].witness])
        BY <2>3, Shapes
      <4>2. QED
        BY <4>1, <1>1, References DEF IsWired, Wired
    <3>2. IsBuilt' /\ SegwitIsUnsigned'
      BY <1>1, References, <2>3 DEF IInv, IsBuilt, SegwitIsUnsigned, Started, given
    <3>3. PcOK' /\ NextOK'
      BY <2>3, <1>1 DEF IInv, PcOK, NextOK, given
    <3>4. \A i \in Inputs : /\ msgTx.txIn[i].signatureScript = s[i]
                            /\ msgTx.txIn[i].witness = w[i]
                            /\ msgTx'.txIn[i].signatureScript = r[i]
                            /\ msgTx'.txIn[i].witness = v[i]
      BY <2>1, <2>3, WiredScripts
    <3>5. SignedAtStart'
      <4> SUFFICES ASSUME NEW i \in Inputs, i < next'
                   PROVE  /\ coins[i].type = "p2pkh" => r[i] = signatureScript(UnsignedWire, i)
                          /\ coins[i].type = "p2wpkh" => v[i] = witnessStack(UnsignedWire, i)
        BY <1>1, <3>4, References DEF SignedAtStart, given
      <4>1. CASE i = next
        BY <4>1, <2>3
      <4>2. CASE i # next
        <5>1. i < next
          BY <4>2, <2>3, <1>1
        <5>2. /\ coins[i].type = "p2pkh" => s[i] = signatureScript(UnsignedWire, i)
              /\ coins[i].type = "p2wpkh" => w[i] = witnessStack(UnsignedWire, i)
          BY <5>1, <3>4 DEF IInv, SignedAtStart
        <5>3. QED
          BY <5>2, <4>2, <2>3
      <4>3. QED
        BY <4>1, <4>2
    <3>6. QED
      BY <1>1, <3>1, <3>2, <3>3, <3>5 DEF IInv
  <2>4. CASE coins[next].type = "p2wpkh"
    <3>1. msgTx' = Wired(Unsigned, s, Replaced(w, next, stack))
      <4>1. msgTx' = setWitness(Wired(Unsigned, s, w), next, stack)
        BY <2>1, <2>2, <2>4 DEF setWitness
      <4> HIDE DEF stack
      <4>2. QED
        BY <4>1, WriteWire
    <3>2. QED
      BY <2>3, <2>4, <3>1 DEF Replaced
  <2>5. CASE coins[next].type = "p2pkh"
    <3>1. msgTx' = Wired(Unsigned, Replaced(s, next, script), w)
      <4>1. msgTx' = setScript(Wired(Unsigned, s, w), next, script)
        BY <2>1, <2>2, <2>5 DEF setScript
      <4> HIDE DEF script
      <4>2. QED
        BY <4>1, WriteWire
    <3>2. QED
      BY <2>3, <2>5, <3>1 DEF Replaced
  <2>6. CASE coins[next].type \notin {"p2pkh", "p2wpkh"}
    BY <2>6, OtherSteps DEF IInv
  <2>7. QED
    BY <2>4, <2>5, <2>6
<1>7. CASE PostSegwit
  BY <1>7, OtherSteps DEF PostSegwit
<1>8. CASE UNCHANGED vars
  BY <1>8, OtherSteps DEF vars
<1>9. QED
  BY <1>2, <1>3, <1>4, <1>5, <1>6, <1>7, <1>8 DEF Next, Ended

(* The invariant of the specification. *)
LEMMA InvariantHolds == Spec => []IInv
  BY InitInvariant, NextInvariant, PTL DEF Spec

(***************************************************************************)
(* A signature once made stays good, whatever inputs are signed after it:  *)
(* in both kinds of send, for every selection of coins, every payment and  *)
(* every signature scheme (SignInput, signInputsSegwit, copyForSigning).   *)
(***************************************************************************)
THEOREM SignedForGood == Spec => []SignaturesStay
  BY InvariantHolds, InvariantImpliesSignaturesStay, PTL

(* The types, and that no step of a send loses or adds an input. *)
THEOREM TypeCorrect == Spec => []TypeOK
<1>1. IInv => TypeOK
  <2> SUFFICES ASSUME IInv PROVE TypeOK
    OBVIOUS
  <2>1. pc # "building" => DOMAIN tx.inputs = Inputs
    BY BuiltInputs DEF IInv, IsBuilt, Started
  <2>2. pc \in {"signing", "posted"} /\ segwit => DOMAIN msgTx.txIn = Inputs
    BY WiredFields DEF IInv, IsWired
  <2>3. QED
    BY <2>1, <2>2 DEF IInv, AllGiven, PcOK, NextOK, TypeOK
<1>2. QED
  BY <1>1, InvariantHolds, PTL

(* What is copied for a signature is a built transaction as well. *)
OnlyScript(k, p) == [i \in Inputs |-> IF i = k THEN p ELSE <<>>]

(* The copy that is signed is the transaction built with one script only. *)
LEMMA CopyIsBuilt ==
  ASSUME NEW s, NEW k \in Inputs, NEW p
  PROVE  copyForSigning(Built(s), k, p) = Built(OnlyScript(k, p))
<1> DEFINE only == OnlyScript(k, p)
           ins(t) == [i \in Inputs |-> BuiltIn(i, t[i])]
           emptied == [i \in DOMAIN Built(s).inputs |->
                         [Built(s).inputs[i] EXCEPT !.scriptSig = IF i = k THEN p ELSE <<>>]]
<1>1. \A t : Built(t) = NewTx(ins(t), Outputs)
  BY DEF Built, BuiltIn
<1>2. DOMAIN Built(s).inputs = Inputs /\ \A i \in Inputs : Built(s).inputs[i] = BuiltIn(i, s[i])
  BY DEF Built, BuiltIn, NewTx
<1>3. ASSUME NEW i \in Inputs
      PROVE  [BuiltIn(i, s[i]) EXCEPT !.scriptSig = IF i = k THEN p ELSE <<>>]
               = BuiltIn(i, only[i])
  <2> DEFINE q == IF i = k THEN p ELSE <<>>
  <2>1. only[i] = q
    BY DEF OnlyScript
  <2> HIDE DEF q, only
  <2>2. [BuiltIn(i, s[i]) EXCEPT !.scriptSig = q] = BuiltIn(i, q)
    BY BuiltInIs
  <2> QED
    BY <2>1, <2>2 DEF q
<1>4. emptied = ins(only)
  <2> HIDE DEF only
  <2> QED
    BY <1>2, <1>3
<1>5. copyForSigning(Built(s), k, p) = [Built(s) EXCEPT !.inputs = emptied]
  BY DEF copyForSigning
<1> HIDE DEF emptied, ins, only
<1>6. [NewTx(ins(s), Outputs) EXCEPT !.inputs = ins(only)] = NewTx(ins(only), Outputs)
  BY OtherInputs
<1>7. copyForSigning(Built(s), k, p) = NewTx(ins(only), Outputs)
  BY <1>1, <1>4, <1>5, <1>6
<1> QED
  BY <1>1, <1>7 DEF only

(***************************************************************************)
(* What the hand-written code signs is what the library would sign.        *)
(***************************************************************************)
LEMMA MessagesAgree ==
  ASSUME AllGiven, NEW s, NEW k \in Inputs
  PROVE  LegacySigHash(Built(s), k, scriptOfCoin(k))
           = LegacyMessage(asMsgTx(Built(s)), k, scriptOfCoin(k))
<1> DEFINE p == scriptOfCoin(k)
           only == OnlyScript(k, p)
           m == asMsgTx(Built(s))
           covered(in, script) == [hash |-> in.hash, index |-> in.index, sequence |-> in.sequence,
                                   signatureScript |-> script, witness |-> <<>>]
           ins == [i \in DOMAIN m.txIn |-> covered(m.txIn[i], IF i = k THEN p ELSE <<>>)]
           emptied == [version |-> m.version, lockTime |-> m.lockTime, txOut |-> m.txOut,
                       txIn |-> ins]
<1>1. \A i \in Inputs : only[i] \in Script
  <2>1. p \in Script
    BY ScriptOfIsScript
  <2>2. <<>> \in Script
    BY Fits DEF Script
  <2> HIDE DEF p
  <2> QED
    BY <2>1, <2>2 DEF OnlyScript
<1>2. copyForSigning(Built(s), k, p) = Built(only)
  BY CopyIsBuilt
<1>3. Serialize(Built(only)) = WireBytes(asMsgTx(Built(only)))
  <2>1. 1 \in Nat /\ 1 < capacity(4) /\ Built(only) = BuiltAs(1, only)
    BY Fits, BuiltIs
  <2> HIDE DEF only
  <2> QED
    BY <1>1, <2>1, WritersAgree
<1>4. m = [version |-> 1, txIn |-> WireIns(s), txOut |-> WireOuts, lockTime |-> 0]
  <2>1. 1 \in Nat /\ 1 < capacity(4) /\ Built(s) = BuiltAs(1, s)
    BY Fits, BuiltIs
  <2> QED
    BY <2>1, AsMsgTxIs
<1>5. asMsgTx(Built(only)) = [version |-> 1, txIn |-> WireIns(only), txOut |-> WireOuts,
                              lockTime |-> 0]
  <2>1. 1 \in Nat /\ 1 < capacity(4) /\ Built(only) = BuiltAs(1, only)
    BY Fits, BuiltIs
  <2> QED
    BY <2>1, AsMsgTxIs
<1>6. ASSUME NEW i \in Inputs
      PROVE  covered(WireIns(s)[i], IF i = k THEN p ELSE <<>>) = WireIns(only)[i]
  <2> DEFINE q == IF i = k THEN p ELSE <<>>
             hash == Reverse(coins[i].txid)
             vout == coins[i].vout
  <2>1. only[i] = q
    BY DEF OnlyScript
  <2>2. WireIns(s)[i] = [hash |-> hash, index |-> vout, signatureScript |-> s[i],
                         witness |-> <<>>, sequence |-> MaxSequence]
    BY InputAsRead DEF WireIns
  <2> HIDE DEF only, q
  <2>3. WireIns(only)[i] = [hash |-> hash, index |-> vout, signatureScript |-> q,
                            witness |-> <<>>, sequence |-> MaxSequence]
    BY <2>1, InputAsRead DEF WireIns
  <2> HIDE DEF hash, vout
  <2>4. covered(WireIns(s)[i], q) = WireIns(only)[i]
    BY <2>2, <2>3
  <2> QED
    BY <2>4 DEF q
<1>7. ins = WireIns(only)
  <2>1. m.txIn = WireIns(s)
    <3> HIDE DEF m
    <3> QED
      BY <1>4
  <2>2. DOMAIN WireIns(s) = Inputs /\ WireIns(only) = [i \in Inputs |-> WireIns(only)[i]]
    BY DEF WireIns
  <2> HIDE DEF m, only, p, covered
  <2> QED
    BY <1>6, <2>1, <2>2
<1>8. emptied = asMsgTx(Built(only))
  <2> HIDE DEF m, ins, only
  <2>1. m.version = 1 /\ m.txOut = WireOuts /\ m.lockTime = 0
    BY <1>4
  <2> QED
    BY <1>5, <1>7, <2>1
<1>9. LegacyMessage(m, k, p) = WireBytes(emptied) \o LittleEndian(SighashAll, 4)
  <2> HIDE DEF m, p
  <2> QED
    BY DEF LegacyMessage
<1>10. LegacySigHash(Built(s), k, p) = WireBytes(asMsgTx(Built(only))) \o LittleEndian(SighashAll, 4)
  BY <1>2, <1>3 DEF LegacySigHash
<1> HIDE DEF emptied, m, only, p
<1>11. LegacySigHash(Built(s), k, p) = LegacyMessage(m, k, p)
  BY <1>8, <1>9, <1>10
<1> QED
  BY <1>11 DEF m, p

(***************************************************************************)
(* Every signature that is posted verifies, in both kinds of send: no send *)
(* posts before all its inputs are signed, none of the signatures has      *)
(* become stale, and those made by hand are over the bytes that the        *)
(* library would have signed (LegacySigHash, PostLegacy, PostSegwit).      *)
(***************************************************************************)
THEOREM PostedIsSigned == Spec => []SignaturesVerify
<1>1. IInv => SignaturesVerify
  <2> SUFFICES ASSUME IInv, pc = "posted", NEW i \in Inputs
               PROVE  /\ coins[i].type = "p2pkh" =>
                           sent.txIn[i].signatureScript = signatureScript(sent, i)
                      /\ coins[i].type = "p2wpkh" =>
                           sent.txIn[i].witness = witnessStack(sent, i)
    BY DEF SignaturesVerify
  <2>1. i < next
    BY InputsAre DEF IInv, PcOK, NextOK
  <2>2. CASE segwit
    <3>1. sent = msgTx
      BY <2>2 DEF sent
    <3> QED
      BY <2>1, <2>2, <3>1, InvariantImpliesSignaturesStay DEF SignaturesStay
  <2>3. CASE ~segwit
    <3>1. PICK s : tx = Built(s)
      BY DEF IInv, IsBuilt, Started
    <3>2. AllGiven /\ coins[i].type # "p2wpkh"
      BY <2>3 DEF IInv, AllGiven
    <3>3. tx.inputs[i].scriptSig = signedBy(tx, i)
      BY <2>1, <2>3, InvariantImpliesSignaturesStay DEF SignaturesStay
    <3>4. signedBy(tx, i) = signatureScript(asMsgTx(tx), i)
      BY <3>1, <3>2, MessagesAgree DEF signedBy, signatureScript
    <3>5. asMsgTx(tx).txIn[i].signatureScript = tx.inputs[i].scriptSig
      BY <3>1, BuiltInputs DEF asMsgTx
    <3>6. sent = asMsgTx(tx)
      BY <2>3 DEF sent
    <3> QED
      BY <3>2, <3>3, <3>4, <3>5, <3>6
  <2> QED
    BY <2>2, <2>3
<1> QED
  BY <1>1, InvariantHolds, PTL

(* What is posted, and the id that is reported, are those of the transaction. *)
Posted ==
  pc = "posted" =>
    /\ posted = IF segwit THEN WireBytes(msgTx) ELSE Serialize(tx)
    /\ txId = Reverse(posted)

(* What PostLegacy and PostSegwit leave stays. *)
LEMMA PostedHolds == Spec => []Posted
<1>1. Init => Posted
  BY DEF Init, Posted
<1>2. Posted /\ [Next]_vars => Posted'
  <2> SUFFICES ASSUME Posted, [Next]_vars PROVE Posted'
    OBVIOUS
  <2>1. CASE BuildTx \/ SignInput \/ ToWire \/ SignInputSegwit
    <3>1. pc' # "posted"
      BY <2>1 DEF BuildTx, SignInput, ToWire, SignInputSegwit
    <3> QED
      BY <3>1 DEF Posted
  <2>2. CASE PostLegacy
    BY <2>2 DEF PostLegacy, Posted, given, ReverseBytes
  <2>3. CASE PostSegwit
    BY <2>3 DEF PostSegwit, Posted, given, ReverseBytes
  <2>4. CASE UNCHANGED vars
    BY <2>4 DEF vars, given, Posted
  <2> QED
    BY <2>1, <2>2, <2>3, <2>4 DEF Next, Ended
<1> QED
  BY <1>1, <1>2, PTL DEF Spec

(* A signature is some bytes and its length an int: all that is asked of the scheme. *)
ScriptsFit == pc = "posted" => \A i \in Inputs : sent.txIn[i].signatureScript \in Script

(***************************************************************************)
(* The two writers agree on what is posted, and the id that is reported is *)
(* the one the network knows, for every selection and payment (Serialize,  *)
(* ComputeTxID).                                                           *)
(***************************************************************************)
THEOREM PostedIsUnderstood == Spec => [](segwit \/ ScriptsFit => PostedAsOnTheWire)
<1>1. IInv /\ Posted => (segwit \/ ScriptsFit => PostedAsOnTheWire)
  <2> SUFFICES ASSUME IInv, Posted, segwit \/ ScriptsFit, pc = "posted"
               PROVE  posted = WireBytes(sent) /\ txId = Reverse(WireBytes(sent))
    BY DEF PostedAsOnTheWire
  <2>1. CASE segwit
    BY <2>1 DEF Posted, sent
  <2>2. CASE ~segwit
    <3> DEFINE s == [i \in Inputs |-> tx.inputs[i].scriptSig]
    <3>1. tx = Built(s) /\ AllGiven
      BY DEF IInv, IsBuilt, Started
    <3>2. \A i \in Inputs : s[i] \in Script
      <4>1. \A i \in Inputs : asMsgTx(tx).txIn[i].signatureScript = s[i]
        BY <3>1, BuiltInputs DEF asMsgTx
      <4> QED
        BY <2>2, <4>1 DEF ScriptsFit, sent
    <3> HIDE DEF s
    <3>3. Serialize(tx) = WireBytes(asMsgTx(tx))
      <4>1. 1 \in Nat /\ 1 < capacity(4) /\ tx = BuiltAs(1, s)
        BY <3>1, Fits, BuiltIs
      <4> QED
        BY <3>1, <3>2, <4>1, WritersAgree
    <3> QED
      BY <2>2, <3>3 DEF Posted, sent
  <2> QED
    BY <2>1, <2>2
<1> QED
  BY <1>1, InvariantHolds, PostedHolds, PTL

(* What a node reads of the outputs: the payment, and the change. *)
LEMMA OutputsAreRead ==
  ASSUME AllGiven
  PROVE  /\ WireOuts[1] = [value |-> payment.amount, pkScript |-> payment.dest]
         /\ Len(WireOuts) = IF payment.change > 0 THEN 2 ELSE 1
         /\ payment.change > 0 =>
              WireOuts[2] = [value |-> payment.change, pkScript |-> payment.changeScript]
<1>1. /\ Len(Outputs) = IF payment.change > 0 THEN 2 ELSE 1
      /\ DOMAIN Outputs = 1 .. Len(Outputs)
      /\ Outputs[1] = NewTxOut(payment.amount, payment.dest)
      /\ payment.change > 0 => Outputs[2] = NewTxOut(payment.change, payment.changeScript)
  BY OutputsAre
<1>2. /\ payment.amount \in Nat /\ payment.amount < capacity(8) /\ payment.dest \in Script
      /\ payment.change \in Int /\ payment.change < capacity(8)
      /\ payment.changeScript \in Script
  BY PaymentsAssumption DEF AllGiven
<1>3. Len(WireOuts) = Len(Outputs)
  BY <1>1 DEF WireOuts
<1>4. WireOuts[1] = [value |-> payment.amount, pkScript |-> payment.dest]
  <2>1. 1 \in DOMAIN Outputs
    BY <1>1
  <2> QED
    BY <1>1, <1>2, <2>1, OutputWritten DEF WireOuts
<1>5. payment.change > 0 =>
        WireOuts[2] = [value |-> payment.change, pkScript |-> payment.changeScript]
  <2> SUFFICES ASSUME payment.change > 0
               PROVE  WireOuts[2] = [value |-> payment.change, pkScript |-> payment.changeScript]
    OBVIOUS
  <2>1. 2 \in DOMAIN Outputs /\ payment.change \in Nat
    BY <1>1, <1>2
  <2> QED
    BY <1>1, <1>2, <2>1, OutputWritten DEF WireOuts
<1> QED
  BY <1>1, <1>3, <1>4, <1>5

(***************************************************************************)
(* What is posted spends the coins selected, in their order, as the        *)
(* network names them, and pays the amount and the change (NewTxIn,        *)
(* NewTxOut, toWireMsgTx): no byte is lost or misplaced on the way.        *)
(***************************************************************************)
THEOREM SelectionIsSpent == Spec => []SpendsTheSelection
<1>1. IInv => SpendsTheSelection
  <2> SUFFICES ASSUME IInv, pc = "posted"
               PROVE  /\ DOMAIN sent.txIn = Inputs
                      /\ \A i \in Inputs : /\ sent.txIn[i].hash = Reverse(coins[i].txid)
                                           /\ sent.txIn[i].index = coins[i].vout
                      /\ sent.txOut = WireOuts
    BY OutputsAreRead DEF IInv, SpendsTheSelection
  <2>0. AllGiven
    BY DEF IInv
  <2>1. CASE ~segwit
    <3>1. PICK s : tx = Built(s)
      BY DEF IInv, IsBuilt, Started
    <3>2. sent = [version |-> 1, txIn |-> WireIns(s), txOut |-> WireOuts, lockTime |-> 0]
      <4>1. 1 \in Nat /\ 1 < capacity(4) /\ tx = BuiltAs(1, s)
        BY <3>1, Fits, BuiltIs
      <4> QED
        BY <2>1, <4>1, AsMsgTxIs DEF sent
    <3>3. DOMAIN WireIns(s) = Inputs
      BY DEF WireIns
    <3>4. ASSUME NEW i \in Inputs
          PROVE  WireIns(s)[i].hash = Reverse(coins[i].txid) /\ WireIns(s)[i].index = coins[i].vout
      BY <2>0, InputAsRead DEF WireIns
    <3> QED
      BY <3>2, <3>3, <3>4
  <2>2. CASE segwit
    <3>1. PICK s, w : msgTx = Wired(Unsigned, s, w)
      BY <2>2 DEF IInv, IsWired
    <3>2. sent = msgTx
      BY <2>2 DEF sent
    <3>3. DOMAIN msgTx.txIn = Inputs
      BY <3>1, WiredFields
    <3>4. ASSUME NEW i \in Inputs
          PROVE  msgTx.txIn[i].hash = Reverse(coins[i].txid) /\ msgTx.txIn[i].index = coins[i].vout
      <4> DEFINE in == Unsigned.inputs[i]
                 hash == ReverseBytes(in.previousTxHash)
                 index == fromBigEndian(in.previousTxIndex)
                 sequence == fromBigEndian(in.sequence)
      <4>1. in = BuiltIn(i, <<>>)
        BY DEF Unsigned, Built, NewTx, BuiltIn
      <4>2. in.previousTxHash = coins[i].txid /\ in.previousTxIndex = BigEndian(coins[i].vout, 4)
        <5> HIDE DEF in
        <5> QED
          BY <4>1, BuiltInIs
      <4>3. msgTx.txIn[i] = [hash |-> hash, index |-> index, signatureScript |-> s[i],
                             witness |-> w[i], sequence |-> sequence]
        BY <3>1, WiredFields
      <4> HIDE DEF in
      <4>4. hash = Reverse(coins[i].txid)
        BY <4>2 DEF ReverseBytes
      <4>5. index = coins[i].vout
        <5>1. coins[i].vout \in Nat /\ coins[i].vout < capacity(4) /\ 4 \in Nat
          BY <2>0, CoinsAre
        <5> QED
          BY <4>2, <5>1, NumberReadsBack
      <4> HIDE DEF hash, index, sequence
      <4>6. msgTx.txIn[i].hash = hash /\ msgTx.txIn[i].index = index
        BY <4>3
      <4> QED
        BY <4>4, <4>5, <4>6
    <3>5. msgTx.txOut = WireOuts
      <4>1. Unsigned.outputs = Outputs
        BY DEF Unsigned, Built, NewTx
      <4>2. toWireMsgTx(Unsigned).txOut =
              [i \in DOMAIN Outputs |->
                 [value |-> Value(Outputs[i]), pkScript |-> Outputs[i].pkScript]]
        BY <4>1 DEF toWireMsgTx
      <4>3. msgTx.txOut = toWireMsgTx(Unsigned).txOut
        BY <3>1, WiredFields
      <4> QED
        BY <4>2, <4>3 DEF WireOuts, asWireOut, Value
    <3> QED
      BY <3>2, <3>3, <3>4, <3>5
  <2> QED
    BY <2>1, <2>2
<1> QED
  BY <1>1, InvariantHolds, PTL
------------------------------------------------------------------------------
(***************************************************************************)
(* What was written is read: first one number and one item, then many.     *)
(***************************************************************************)
(* What is read of two sequences, one after the other. *)
LEMMA ReadFirst ==
  ASSUME NEW a \in Seq(Bytes), NEW r \in Seq(Bytes), NEW w, w = Len(a)
  PROVE  read(a \o r, w) = [item |-> a, rest |-> r]
<1> DEFINE b == a \o r
           m == Len(a)
           n == Len(r)
<1>1. /\ m \in Nat /\ n \in Nat /\ b \in Seq(Bytes) /\ Len(b) = m + n
      /\ \A i \in 1 .. m + n : b[i] = IF i <= m THEN a[i] ELSE r[i - m]
      /\ \A i \in 1 .. m + n : b[i] \in Bytes
  BY ConcatProperties, LenProperties, ElementOfSeq
<1> HIDE DEF b, m, n
<1>2. SubSeq(b, 1, m) = a
  <2> DEFINE s == SubSeq(b, 1, m)
  <2>1. s \in Seq(Bytes) /\ Len(s) = m /\ \A i \in 1 .. m : s[i] = b[i]
    <3>1. 1 \in Int /\ m \in Int /\ \A i \in 1 .. m : b[i] \in Bytes
      BY <1>1
    <3>2. /\ s \in Seq(Bytes) /\ Len(s) = IF 1 <= m THEN m - 1 + 1 ELSE 0
          /\ \A i \in 1 .. m - 1 + 1 : s[i] = b[1 + i - 1]
      BY <3>1, SubSeqProperties
    <3> HIDE DEF s
    <3>3. \A i \in 1 .. m : i \in 1 .. m - 1 + 1 /\ 1 + i - 1 = i
      BY <1>1
    <3> QED
      BY <1>1, <3>2, <3>3
  <2> HIDE DEF s
  <2>2. \A i \in 1 .. m : s[i] = a[i]
    BY <1>1, <2>1
  <2>3. s = a
    BY <2>1, <2>2, SeqEqual DEF m
  <2> QED
    BY <2>3 DEF s
<1>3. SubSeq(b, m + 1, Len(b)) = r
  <2> DEFINE s == SubSeq(b, m + 1, m + n)
  <2>1. s \in Seq(Bytes) /\ Len(s) = n /\ \A i \in 1 .. n : s[i] = b[m + i]
    <3>1. m + 1 \in Int /\ m + n \in Int /\ \A i \in m + 1 .. m + n : b[i] \in Bytes
      BY <1>1
    <3>2. /\ s \in Seq(Bytes)
          /\ Len(s) = IF m + 1 <= m + n THEN (m + n) - (m + 1) + 1 ELSE 0
          /\ \A i \in 1 .. (m + n) - (m + 1) + 1 : s[i] = b[(m + 1) + i - 1]
      BY <3>1, SubSeqProperties
    <3> HIDE DEF s
    <3>3. \A i \in 1 .. n : i \in 1 .. (m + n) - (m + 1) + 1 /\ (m + 1) + i - 1 = m + i
      BY <1>1
    <3> QED
      BY <1>1, <3>2, <3>3
  <2> HIDE DEF s
  <2>2. \A i \in 1 .. n : m + i \in 1 .. m + n /\ ~(m + i <= m) /\ (m + i) - m = i
    BY <1>1
  <2>3. \A i \in 1 .. n : s[i] = r[i]
    BY <1>1, <2>1, <2>2
  <2>4. s = r
    BY <2>1, <2>3, SeqEqual DEF n
  <2> QED
    BY <1>1, <2>4 DEF s
<1> QED
  BY <1>2, <1>3 DEF read, b, m

(* Backwards twice. *)
LEMMA ReversedTwice ==
  ASSUME NEW s \in Seq(Bytes)
  PROVE  /\ Reverse(s) \in Seq(Bytes) /\ Len(Reverse(s)) = Len(s)
         /\ ReverseBytes(Reverse(s)) = s
<1> DEFINE n == Len(s)
           r == Reverse(s)
<1>1. n \in Nat /\ s \in [1 .. n -> Bytes]
  BY LenProperties
<1>2. r = [i \in 1 .. n |-> s[(n - i) + 1]]
  BY DEF Reverse
<1>3. \A i \in 1 .. n : (n - i) + 1 \in 1 .. n /\ (n - ((n - i) + 1)) + 1 = i
  BY <1>1
<1> HIDE DEF n, r
<1>4. r \in [1 .. n -> Bytes] /\ \A i \in 1 .. n : r[(n - i) + 1] = s[i]
  BY <1>1, <1>2, <1>3
<1>5. r \in Seq(Bytes) /\ Len(r) = n
  BY <1>1, <1>4
<1>6. Reverse(r) = [i \in 1 .. n |-> r[(n - i) + 1]]
  BY <1>5 DEF Reverse
<1>7. Reverse(r) = s
  BY <1>1, <1>4, <1>6
<1> QED
  BY <1>5, <1>7 DEF n, r, ReverseBytes

(* A number in its shortest form is read, and nothing after it. *)
LEMMA VarIntReadsBack ==
  ASSUME NEW n \in Nat, n < capacity(8), NEW r \in Seq(Bytes)
  PROVE  /\ WriteVarInt(n) \in Seq(Bytes)
         /\ VarInt2Int(WriteVarInt(n) \o r) = [item |-> n, rest |-> r]
<1>1. Base \in Nat /\ Base >= 4 /\ capacity(2) \in Nat /\ capacity(4) \in Nat
      /\ capacity(8) \in Nat
  <2>1. 2 \in Nat /\ 4 \in Nat /\ 8 \in Nat
    OBVIOUS
  <2> QED
    BY <2>1, Capacities
<1>2. ASSUME NEW f \in Bytes, NEW a \in Seq(Bytes)
      PROVE  /\ <<f>> \o a \in Seq(Bytes)
             /\ Head((<<f>> \o a) \o r) = f /\ Tail((<<f>> \o a) \o r) = a \o r
  <2>1. <<f>> \in Seq(Bytes) /\ a \o r \in Seq(Bytes) /\ <<f>> \o a \in Seq(Bytes)
    BY ConcatProperties
  <2>2. (<<f>> \o a) \o r = <<f>> \o (a \o r)
    BY <2>1, ConcatAssociative
  <2> DEFINE t == a \o r
  <2> HIDE DEF t
  <2>3. Head(<<f>> \o t) = f /\ Tail(<<f>> \o t) = t
    <3>1. t \in Seq(Bytes)
      BY <2>1 DEF t
    <3> DEFINE u == <<f>> \o t
    <3>2. u \in Seq(Bytes) /\ Len(u) = 1 + Len(t) /\ u[1] = f
          /\ \A i \in 2 .. 1 + Len(t) : u[i] = t[i - 1]
      BY <3>1, <2>1
    <3> HIDE DEF u
    <3>3. u # <<>> /\ Len(t) \in Nat
      BY <3>1, <3>2
    <3>4. Tail(u) \in Seq(Bytes) /\ Len(Tail(u)) = Len(t)
          /\ \A i \in 1 .. Len(t) : Tail(u)[i] = u[i + 1]
      BY <3>2, <3>3, HeadTailProperties
    <3>5. \A i \in 1 .. Len(t) : i + 1 \in 2 .. 1 + Len(t) /\ (i + 1) - 1 = i
      BY <3>3
    <3>6. Tail(u) = t
      BY <3>1, <3>2, <3>4, <3>5, SeqEqual
    <3>7. Head(u) = f
      BY <3>2, <3>3
    <3> QED
      BY <3>6, <3>7 DEF u
  <2> QED
    BY <2>1, <2>2, <2>3 DEF t
<1>3. ASSUME NEW f \in Bytes, NEW w \in {2, 4, 8}, n < capacity(w),
             f = IF w = 2 THEN Base - 3 ELSE IF w = 4 THEN Base - 2 ELSE Base - 1,
             WriteVarInt(n) = <<f>> \o LittleEndian(n, w)
      PROVE  /\ WriteVarInt(n) \in Seq(Bytes)
             /\ VarInt2Int(WriteVarInt(n) \o r) = [item |-> n, rest |-> r]
  <2> DEFINE l == LittleEndian(n, w)
             all == WriteVarInt(n) \o r
  <2>1. w \in Nat
    OBVIOUS
  <2>2. l \in Seq(Bytes) /\ Len(l) = w
    BY <2>1, BytesOf
  <2>3. fromLittleEndian(l) = n
    BY <1>3, <2>1, NumberReadsBack DEF fromLittleEndian, BigEndian
  <2> HIDE DEF l
  <2>4. Head(all) = f /\ Tail(all) = l \o r /\ WriteVarInt(n) \in Seq(Bytes)
    <3>1. WriteVarInt(n) = <<f>> \o l
      BY <1>3 DEF l
    <3>2. /\ <<f>> \o l \in Seq(Bytes)
          /\ Head((<<f>> \o l) \o r) = f /\ Tail((<<f>> \o l) \o r) = l \o r
      BY ONLY <1>2, <2>2, f \in Bytes
    <3> QED
      BY ONLY <3>1, <3>2
  <2>5. read(l \o r, w) = [item |-> l, rest |-> r]
    BY <2>2, ReadFirst
  <2> HIDE DEF all
  <2> DEFINE after(k) == LET q == read(Tail(all), k)
                         IN  [item |-> fromLittleEndian(q.item), rest |-> q.rest]
  <2>6. after(w) = [item |-> n, rest |-> r]
    <3>1. read(Tail(all), w) = [item |-> l, rest |-> r]
      BY <2>4, <2>5
    <3> DEFINE q == read(Tail(all), w)
    <3>2. after(w) = [item |-> fromLittleEndian(q.item), rest |-> q.rest]
      OBVIOUS
    <3>3. q.item = l /\ q.rest = r
      BY <3>1
    <3> HIDE DEF q, after
    <3> QED
      BY <2>3, <3>2, <3>3
  <2>7. VarInt2Int(all) = CASE f <= Base - 4 -> [item |-> f, rest |-> Tail(all)]
                            [] f = Base - 3  -> after(2)
                            [] f = Base - 2  -> after(4)
                            [] f = Base - 1  -> after(8)
    BY <2>4 DEF VarInt2Int
  <2> HIDE DEF after
  <2>8. VarInt2Int(all) = after(w)
    <3>1. CASE w = 2
      BY <1>1, <1>3, <2>7, <3>1
    <3>2. CASE w = 4
      BY <1>1, <1>3, <2>7, <3>2
    <3>3. CASE w = 8
      BY <1>1, <1>3, <2>7, <3>3
    <3> QED
      BY <3>1, <3>2, <3>3
  <2> QED
    BY <2>4, <2>6, <2>8 DEF all
<1>4. CASE n < Base - 3
  <2>1. WriteVarInt(n) = <<n>> /\ n \in Bytes /\ <<n>> \in Seq(Bytes) /\ <<>> \in Seq(Bytes)
    BY <1>1, <1>4 DEF WriteVarInt, Bytes
  <2> DEFINE all == WriteVarInt(n) \o r
  <2>2. Head(all) = n /\ Tail(all) = r
    <3>1. <<n>> \o <<>> = <<n>> /\ <<>> \o r = r
      BY <2>1, ConcatEmptySeq
    <3> QED
      BY <1>2, <2>1, <3>1
  <2>3. n <= Base - 4 /\ n # Base - 3 /\ n # Base - 2 /\ n # Base - 1
    BY <1>1, <1>4
  <2> HIDE DEF all
  <2> DEFINE after(k) == LET q == read(Tail(all), k)
                         IN  [item |-> fromLittleEndian(q.item), rest |-> q.rest]
  <2>5. VarInt2Int(all) = CASE n <= Base - 4 -> [item |-> n, rest |-> Tail(all)]
                            [] n = Base - 3  -> after(2)
                            [] n = Base - 2  -> after(4)
                            [] n = Base - 1  -> after(8)
    BY <2>2 DEF VarInt2Int
  <2> HIDE DEF after
  <2>4. VarInt2Int(all) = [item |-> n, rest |-> r]
    BY <1>1, <1>4, <2>2, <2>3, <2>5
  <2> QED
    BY <2>1, <2>4 DEF all
<1>5. CASE n >= Base - 3 /\ n < capacity(2)
  <2> DEFINE f == Base - 3
  <2>1. WriteVarInt(n) = <<f>> \o LittleEndian(n, 2) /\ f \in Bytes /\ n < capacity(2)
    BY <1>1, <1>5 DEF WriteVarInt, Bytes
  <2>2. 2 \in {2, 4, 8} /\ f = IF 2 = 2 THEN Base - 3 ELSE IF 2 = 4 THEN Base - 2 ELSE Base - 1
    OBVIOUS
  <2> HIDE DEF f
  <2> QED
    BY ONLY <1>3, <2>1, <2>2
<1>6. CASE n >= Base - 3 /\ n >= capacity(2) /\ n < capacity(4)
  <2> DEFINE f == Base - 2
  <2>1. WriteVarInt(n) = <<f>> \o LittleEndian(n, 4) /\ f \in Bytes /\ n < capacity(4)
    BY SMTT(30), <1>1, <1>6 DEF WriteVarInt, Bytes
  <2>2. 4 \in {2, 4, 8} /\ f = IF 4 = 2 THEN Base - 3 ELSE IF 4 = 4 THEN Base - 2 ELSE Base - 1
    OBVIOUS
  <2> HIDE DEF f
  <2> QED
    BY ONLY <1>3, <2>1, <2>2
<1>7. CASE n >= Base - 3 /\ n >= capacity(2) /\ n >= capacity(4)
  <2> DEFINE f == Base - 1
  <2>1. WriteVarInt(n) = <<f>> \o LittleEndian(n, 8) /\ f \in Bytes /\ n < capacity(8)
    BY SMTT(30), <1>1, <1>7 DEF WriteVarInt, Bytes
  <2>2. 8 \in {2, 4, 8} /\ f = IF 8 = 2 THEN Base - 3 ELSE IF 8 = 4 THEN Base - 2 ELSE Base - 1
    OBVIOUS
  <2> HIDE DEF f
  <2> QED
    BY ONLY <1>3, <2>1, <2>2
<1> QED
  BY <1>1, <1>4, <1>5, <1>6, <1>7

(* A number of bytes, and the bytes. *)
LEMMA BytesReadBack ==
  ASSUME NEW p \in Script, NEW r \in Seq(Bytes)
  PROVE  readBytes(WriteVarInt(Len(p)) \o (p \o r)) = [item |-> p, rest |-> r]
<1>1. Len(p) \in Nat /\ Len(p) < capacity(8) /\ p \in Seq(Bytes) /\ p \o r \in Seq(Bytes)
  BY ConcatProperties DEF Script
<1>2. VarInt2Int(WriteVarInt(Len(p)) \o (p \o r)) = [item |-> Len(p), rest |-> p \o r]
  BY <1>1, VarIntReadsBack
<1>3. read(p \o r, Len(p)) = [item |-> p, rest |-> r]
  BY <1>1, ReadFirst
<1> QED
  BY <1>2, <1>3 DEF readBytes

(* Bytes after bytes are bytes, and it does not matter which are put together first. *)
LEMMA Together ==
  /\ \A x \in Seq(Bytes) : \A y \in Seq(Bytes) : x \o y \in Seq(Bytes)
  /\ \A x \in Seq(Bytes) : \A y \in Seq(Bytes) : \A z \in Seq(Bytes) :
       (x \o y) \o z = x \o (y \o z)
<1>1. \A x \in Seq(Bytes) : \A y \in Seq(Bytes) : x \o y \in Seq(Bytes)
  BY ConcatProperties
<1>2. \A x \in Seq(Bytes) : \A y \in Seq(Bytes) : \A z \in Seq(Bytes) :
       (x \o y) \o z = x \o (y \o z)
  BY ConcatAssociative
<1> QED
  BY <1>1, <1>2

(* Parts put together from the left are read from the left. *)
joined(x, y) == x \o y

(* The same of joined. *)
LEMMA JoinedTogether ==
  /\ \A x \in Seq(Bytes) : \A y \in Seq(Bytes) : joined(x, y) \in Seq(Bytes)
  /\ \A x \in Seq(Bytes) : \A y \in Seq(Bytes) : \A z \in Seq(Bytes) :
       joined(joined(x, y), z) = joined(x, joined(y, z))
BY Together DEF joined

(* Three parts and what follows them. *)
LEMMA ThreeParts ==
  ASSUME NEW a \in Seq(Bytes), NEW b \in Seq(Bytes), NEW c \in Seq(Bytes)
  PROVE  /\ joined(joined(a, b), c) \in Seq(Bytes)
         /\ \A r \in Seq(Bytes) :
              /\ joined(b, joined(c, r)) \in Seq(Bytes) /\ joined(c, r) \in Seq(Bytes)
              /\ joined(joined(joined(a, b), c), r) = joined(a, joined(b, joined(c, r)))
<1>1. joined(a, b) \in Seq(Bytes) /\ joined(joined(a, b), c) \in Seq(Bytes)
  BY JoinedTogether
<1>2. ASSUME NEW r \in Seq(Bytes)
      PROVE  /\ joined(b, joined(c, r)) \in Seq(Bytes) /\ joined(c, r) \in Seq(Bytes)
             /\ joined(joined(joined(a, b), c), r) = joined(a, joined(b, joined(c, r)))
  <2>1. joined(c, r) \in Seq(Bytes) /\ joined(b, joined(c, r)) \in Seq(Bytes)
    BY JoinedTogether
  <2>2. joined(joined(joined(a, b), c), r) = joined(joined(a, b), joined(c, r))
    BY <1>1, JoinedTogether
  <2>3. joined(joined(a, b), joined(c, r)) = joined(a, joined(b, joined(c, r)))
    BY <2>1, JoinedTogether
  <2> QED
    BY <2>1, <2>2, <2>3
<1> QED
  BY <1>1, <1>2

(* Five parts and what follows them. *)
LEMMA FiveParts ==
  ASSUME NEW a \in Seq(Bytes), NEW b \in Seq(Bytes), NEW c \in Seq(Bytes),
         NEW d \in Seq(Bytes), NEW e \in Seq(Bytes)
  PROVE  /\ joined(joined(joined(joined(a, b), c), d), e) \in Seq(Bytes)
         /\ \A r \in Seq(Bytes) :
              /\ joined(b, joined(c, joined(d, joined(e, r)))) \in Seq(Bytes)
              /\ joined(c, joined(d, joined(e, r))) \in Seq(Bytes)
              /\ joined(d, joined(e, r)) \in Seq(Bytes) /\ joined(e, r) \in Seq(Bytes)
              /\ joined(joined(joined(joined(joined(a, b), c), d), e), r)
                   = joined(a, joined(b, joined(c, joined(d, joined(e, r)))))
<1> DEFINE abc == joined(joined(a, b), c)
<1>1. /\ abc \in Seq(Bytes)
      /\ \A r \in Seq(Bytes) :
           /\ joined(b, joined(c, r)) \in Seq(Bytes) /\ joined(c, r) \in Seq(Bytes)
           /\ joined(abc, r) = joined(a, joined(b, joined(c, r)))
  BY ThreeParts
<1> HIDE DEF abc
<1>2. /\ joined(joined(abc, d), e) \in Seq(Bytes)
      /\ \A r \in Seq(Bytes) :
           /\ joined(d, joined(e, r)) \in Seq(Bytes) /\ joined(e, r) \in Seq(Bytes)
           /\ joined(joined(joined(abc, d), e), r) = joined(abc, joined(d, joined(e, r)))
  BY <1>1, ThreeParts
<1> QED
  BY <1>1, <1>2 DEF abc

(* An input is read as it was written. *)
LEMMA InputReadsBack ==
  ASSUME AllGiven, NEW i \in Inputs, NEW script \in Script
  PROVE  /\ SerializeTxIn(BuiltIn(i, script)) \in Seq(Bytes)
         /\ \A r \in Seq(Bytes) :
              ParseTxIn(SerializeTxIn(BuiltIn(i, script)) \o r)
                = [item |-> BuiltIn(i, script), rest |-> r]
<1> DEFINE in == BuiltIn(i, script)
           txid == coins[i].txid
           index == BigEndian(coins[i].vout, 4)
           sequence == BigEndian(MaxSequence, 4)
           a == Reverse(txid)
           b == Reverse(index)
           c == WriteVarInt(Len(script))
           e == Reverse(sequence)
<1>1. in = [previousTxHash |-> txid, previousTxIndex |-> index,
            scriptSig |-> script, sequence |-> sequence]
  BY BuiltInIs
<1>2. /\ txid \in Seq(Bytes) /\ Len(txid) = HashSize
      /\ coins[i].vout \in Nat /\ MaxSequence \in Nat /\ 4 \in Nat
  <2>1. txid \in [1 .. HashSize -> Bytes] /\ coins[i].vout \in Nat
    BY CoinsAre
  <2>2. MaxSequence \in Nat /\ 4 \in Nat /\ HashSize \in Nat
    BY Fits, FormatAssumption
  <2> HIDE DEF txid
  <2> QED
    BY <2>1, <2>2
<1>3. index \in Seq(Bytes) /\ Len(index) = 4 /\ sequence \in Seq(Bytes) /\ Len(sequence) = 4
  BY <1>2, BytesOf
<1> HIDE DEF in, txid, index, sequence
<1>4. /\ a \in Seq(Bytes) /\ Len(a) = HashSize /\ ReverseBytes(a) = txid
      /\ b \in Seq(Bytes) /\ Len(b) = 4 /\ ReverseBytes(b) = index
      /\ e \in Seq(Bytes) /\ Len(e) = 4 /\ ReverseBytes(e) = sequence
  BY <1>2, <1>3, ReversedTwice
<1>5. c \in Seq(Bytes) /\ script \in Seq(Bytes)
  <2>1. Len(script) \in Nat /\ Len(script) < capacity(8) /\ <<>> \in Seq(Bytes)
        /\ script \in Seq(Bytes)
    BY DEF Script
  <2> QED
    BY <2>1, VarIntReadsBack
<1>6. SerializeTxIn(in) = a \o b \o c \o script \o e
  BY <1>1 DEF SerializeTxIn, ReverseBytes
<1>10. \A r \in Seq(Bytes) : readBytes(c \o (script \o r)) = [item |-> script, rest |-> r]
  BY BytesReadBack
<1> HIDE DEF a, b, c, e
<1>9. \A r \in Seq(Bytes) :
        /\ b \o (c \o (script \o (e \o r))) \in Seq(Bytes)
        /\ c \o (script \o (e \o r)) \in Seq(Bytes)
        /\ script \o (e \o r) \in Seq(Bytes) /\ e \o r \in Seq(Bytes)
        /\ SerializeTxIn(in) \o r = a \o (b \o (c \o (script \o (e \o r))))
  <2>1. a \in Seq(Bytes) /\ b \in Seq(Bytes) /\ e \in Seq(Bytes)
    BY <1>4
  <2>2. \A r \in Seq(Bytes) :
          /\ joined(b, joined(c, joined(script, joined(e, r)))) \in Seq(Bytes)
          /\ joined(c, joined(script, joined(e, r))) \in Seq(Bytes)
          /\ joined(script, joined(e, r)) \in Seq(Bytes) /\ joined(e, r) \in Seq(Bytes)
          /\ joined(joined(joined(joined(joined(a, b), c), script), e), r)
               = joined(a, joined(b, joined(c, joined(script, joined(e, r)))))
    BY ONLY <2>1, <1>5, FiveParts
  <2> QED
    BY ONLY <1>6, <2>2, Zenon DEF joined
<1>7. ASSUME NEW r \in Seq(Bytes)
      PROVE  ParseTxIn(SerializeTxIn(in) \o r) = [item |-> in, rest |-> r]
  <2> DEFINE er == e \o r
             ser == script \o er
             cser == c \o ser
             bcser == b \o cser
             all == SerializeTxIn(in) \o r
  <2>1. /\ er \in Seq(Bytes) /\ cser \in Seq(Bytes) /\ bcser \in Seq(Bytes)
        /\ all = a \o bcser
    BY <1>9
  <2> HIDE DEF all, bcser
  <2>2. read(all, HashSize) = [item |-> a, rest |-> bcser]
    BY <1>4, <2>1, ReadFirst
  <2> HIDE DEF cser
  <2>3. read(bcser, 4) = [item |-> b, rest |-> cser]
    BY <1>4, <2>1, ReadFirst DEF bcser
  <2> HIDE DEF er
  <2>4. readBytes(cser) = [item |-> script, rest |-> er]
    BY <1>10, <2>1 DEF cser
  <2>5. read(er, 4) = [item |-> e, rest |-> r]
    BY <1>4, ReadFirst DEF er
  <2> DEFINE hash == read(all, HashSize)
             index_ == read(hash.rest, 4)
             script_ == readBytes(index_.rest)
             sequence_ == read(script_.rest, 4)
  <2>6. ParseTxIn(all) = [item |-> [previousTxHash |-> ReverseBytes(hash.item),
                                    previousTxIndex |-> ReverseBytes(index_.item),
                                    scriptSig |-> script_.item,
                                    sequence |-> ReverseBytes(sequence_.item)],
                          rest |-> sequence_.rest]
    BY DEF ParseTxIn
  <2>7. hash.item = a /\ hash.rest = bcser
    BY <2>2
  <2> HIDE DEF hash
  <2>8. index_.item = b /\ index_.rest = cser
    BY <2>3, <2>7
  <2> HIDE DEF index_
  <2>9. script_.item = script /\ script_.rest = er
    BY <2>4, <2>8
  <2> HIDE DEF script_
  <2>10. sequence_.item = e /\ sequence_.rest = r
    BY <2>5, <2>9
  <2> HIDE DEF sequence_
  <2>11. ParseTxIn(all) = [item |-> in, rest |-> r]
    BY <1>1, <1>4, <2>6, <2>7, <2>8, <2>9, <2>10
  <2> QED
    BY <2>11 DEF all
<1>8. SerializeTxIn(in) \in Seq(Bytes)
  BY <1>4, <1>5, <1>6, FiveParts DEF joined
<1> QED
  BY <1>7, <1>8 DEF in

(* And so is an output. *)
LEMMA OutputReadsBack ==
  ASSUME NEW n \in Nat, n < capacity(8), NEW p \in Script
  PROVE  /\ SerializeTxOut(NewTxOut(n, p)) \in Seq(Bytes)
         /\ \A r \in Seq(Bytes) :
              ParseTxOut(SerializeTxOut(NewTxOut(n, p)) \o r)
                = [item |-> NewTxOut(n, p), rest |-> r]
<1> DEFINE out == NewTxOut(n, p)
           value == BigEndian(n, 8)
           a == Reverse(value)
           b == WriteVarInt(Len(p))
<1>1. out = [value |-> value, pkScript |-> p]
  BY DEF NewTxOut
<1>2. value \in Seq(Bytes) /\ Len(value) = 8
  <2>1. 8 \in Nat
    OBVIOUS
  <2> QED
    BY <2>1, BytesOf
<1> HIDE DEF out, value
<1>3. a \in Seq(Bytes) /\ Len(a) = 8 /\ ReverseBytes(a) = value
  BY <1>2, ReversedTwice
<1>4. b \in Seq(Bytes) /\ p \in Seq(Bytes)
  <2>1. Len(p) \in Nat /\ Len(p) < capacity(8) /\ <<>> \in Seq(Bytes) /\ p \in Seq(Bytes)
    BY DEF Script
  <2> QED
    BY <2>1, VarIntReadsBack
<1>5. SerializeTxOut(out) = a \o b \o p
  BY <1>1 DEF SerializeTxOut, ReverseBytes
<1>6. \A r \in Seq(Bytes) : readBytes(b \o (p \o r)) = [item |-> p, rest |-> r]
  BY BytesReadBack
<1> HIDE DEF a, b
<1>9. \A r \in Seq(Bytes) :
        /\ b \o (p \o r) \in Seq(Bytes) /\ p \o r \in Seq(Bytes)
        /\ SerializeTxOut(out) \o r = a \o (b \o (p \o r))
  <2>1. a \in Seq(Bytes)
    BY <1>3
  <2>2. \A r \in Seq(Bytes) :
          /\ joined(b, joined(p, r)) \in Seq(Bytes) /\ joined(p, r) \in Seq(Bytes)
          /\ joined(joined(joined(a, b), p), r) = joined(a, joined(b, joined(p, r)))
    BY ONLY <2>1, <1>4, ThreeParts
  <2> QED
    BY ONLY <1>5, <2>2, Zenon DEF joined
<1>7. ASSUME NEW r \in Seq(Bytes)
      PROVE  ParseTxOut(SerializeTxOut(out) \o r) = [item |-> out, rest |-> r]
  <2> DEFINE bpr == b \o (p \o r)
             all == SerializeTxOut(out) \o r
  <2>1. bpr \in Seq(Bytes) /\ all = a \o bpr
    BY <1>9
  <2> HIDE DEF all, bpr
  <2>2. read(all, 8) = [item |-> a, rest |-> bpr]
    BY <1>3, <2>1, ReadFirst
  <2>3. readBytes(bpr) = [item |-> p, rest |-> r]
    BY <1>6 DEF bpr
  <2> DEFINE value_ == read(all, 8)
             script_ == readBytes(value_.rest)
  <2>4. ParseTxOut(all) = [item |-> [value |-> ReverseBytes(value_.item),
                                     pkScript |-> script_.item],
                           rest |-> script_.rest]
    BY DEF ParseTxOut
  <2>5. value_.item = a /\ value_.rest = bpr
    BY <2>2
  <2> HIDE DEF value_
  <2>6. script_.item = p /\ script_.rest = r
    BY <2>3, <2>5
  <2> HIDE DEF script_
  <2>7. ParseTxOut(all) = [item |-> out, rest |-> r]
    BY <1>1, <1>3, <2>4, <2>5, <2>6
  <2> QED
    BY <2>7 DEF all
<1>8. SerializeTxOut(out) \in Seq(Bytes)
  BY <1>3, <1>4, <1>5, ThreeParts DEF joined
<1> QED
  BY <1>7, <1>8 DEF out

(***************************************************************************)
(* The recursion that flattening is: f is its solution for the first n of  *)
(* the sequences b.                                                        *)
(***************************************************************************)
Flattens(b, n, f) ==
  f = [i \in 1 .. n |-> IF i = 1 THEN b[i] ELSE f[i - 1] \o b[i]]

(* Flattening is that recursion. *)
LEMMA FlattenIs ==
  ASSUME NEW b
  PROVE  FlattenSeq(b) = IF Len(b) = 0 THEN b ELSE (CHOOSE f : Flattens(b, Len(b), f))[Len(b)]
BY DEF FlattenSeq, Flattens

(* It has a solution. *)
LEMMA FlattensExist ==
  ASSUME NEW b, NEW n \in Nat
  PROVE  \E f : Flattens(b, n, f)
<1> DEFINE S == {k \in Nat : \E f : Flattens(b, k, f)}
<1>1. 0 \in S
  <2> DEFINE f == [i \in 1 .. 0 |-> 0]
  <2>1. f = [i \in 1 .. 0 |-> IF i = 1 THEN b[i] ELSE f[i - 1] \o b[i]]
    OBVIOUS
  <2>2. Flattens(b, 0, f)
    BY <2>1 DEF Flattens
  <2> HIDE DEF f
  <2> QED
    BY <2>2
<1>2. ASSUME NEW k \in S PROVE k + 1 \in S
  <2>1. PICK f : Flattens(b, k, f)
    OBVIOUS
  <2> DEFINE last == IF k = 0 THEN b[1] ELSE f[k] \o b[k + 1]
  <2> HIDE DEF last
  <2> DEFINE h == [i \in 1 .. k + 1 |-> IF i = k + 1 THEN last ELSE f[i]]
             val(i) == IF i = 1 THEN b[i] ELSE h[i - 1] \o b[i]
  <2>2. k \in Nat /\ k + 1 \in Nat
    OBVIOUS
  <2>3. /\ h = [i \in 1 .. k + 1 |-> h[i]] /\ h[k + 1] = last
        /\ \A i \in 1 .. k : h[i] = f[i]
    BY <2>2
  <2> HIDE DEF h
  <2>4. ASSUME NEW i \in 1 .. k + 1 PROVE h[i] = val(i)
    <3>1. CASE i = k + 1 /\ k = 0
      BY <2>3, <3>1 DEF last
    <3>2. CASE i = k + 1 /\ k # 0
      <4>1. i # 1 /\ i - 1 = k /\ k \in 1 .. k
        BY <2>2, <3>2
      <4> QED
        BY <2>3, <3>2, <4>1 DEF last
    <3>3. CASE i # k + 1
      <4>1. i \in 1 .. k /\ (i # 1 => i - 1 \in 1 .. k)
        BY <2>2, <3>3
      <4>2. f[i] = IF i = 1 THEN b[i] ELSE f[i - 1] \o b[i]
        BY <2>1, <4>1 DEF Flattens
      <4> QED
        BY <2>3, <4>1, <4>2
    <3> QED
      BY <3>1, <3>2, <3>3
  <2>5. h = [i \in 1 .. k + 1 |-> val(i)]
    <3> HIDE DEF val
    <3> QED
      BY <2>3, <2>4
  <2>6. Flattens(b, k + 1, h)
    BY <2>5 DEF Flattens
  <2> QED
    BY <2>2, <2>6
<1> HIDE DEF S
<1>3. S = Nat
  <2>1. S \in SUBSET Nat
    BY DEF S
  <2> QED
    BY <1>1, <1>2, <2>1, AllNumbers
<1> QED
  BY <1>3 DEF S

(* What of the flattened bytes b and then r is left after each of them. *)
LeftOver(b, n, r, y) ==
  /\ y \in [0 .. n -> Seq(Bytes)] /\ y[n] = r
  /\ \A i \in 1 .. n : y[i - 1] = b[i] \o y[i]

(* There is such a rest after each, and before the first there is all. *)
LEMMA FlattenedIsLeft ==
  ASSUME NEW n \in Nat, NEW b \in [1 .. n -> Seq(Bytes)]
  PROVE  /\ FlattenSeq(b) \in Seq(Bytes)
         /\ \A r \in Seq(Bytes) : \E y : LeftOver(b, n, r, y) /\ y[0] = FlattenSeq(b) \o r
<1>0. Len(b) = n /\ b \in Seq(Seq(Bytes))
  OBVIOUS
<1> DEFINE f == CHOOSE f : Flattens(b, n, f)
           flat(k) == IF k = 0 THEN <<>> ELSE f[k]
<1>1. Flattens(b, n, f)
  BY FlattensExist
<1>2. FlattenSeq(b) = flat(n)
  <2>1. CASE n = 0
    <3>1. b = <<>>
      BY <1>0, <2>1
    <3> QED
      BY <1>0, <2>1, <3>1, FlattenIs
  <2>2. CASE n # 0
    BY <1>0, <2>2, FlattenIs
  <2> QED
    BY <2>1, <2>2
<1> HIDE DEF f
<1>3. ASSUME NEW k \in Nat, k + 1 <= n, flat(k) \in Seq(Bytes)
      PROVE  flat(k + 1) = joined(flat(k), b[k + 1])
  <2>1. k + 1 \in 1 .. n /\ k + 1 # 0 /\ b[k + 1] \in Seq(Bytes)
    BY <1>3
  <2>2. f[k + 1] = IF k + 1 = 1 THEN b[k + 1] ELSE f[(k + 1) - 1] \o b[k + 1]
    BY <1>1, <2>1 DEF Flattens
  <2>3. CASE k = 0
    <3>1. joined(<<>>, b[1]) = b[1]
      <4>1. b[1] \in Seq(Bytes)
        BY <2>1, <2>3
      <4> QED
        BY <4>1, ConcatEmptySeq DEF joined
    <3> QED
      BY <2>2, <2>3, <3>1
  <2>4. CASE k # 0
    <3>1. (k + 1) - 1 = k /\ k + 1 # 1
      BY <2>4
    <3>2. f[k + 1] = f[k] \o b[k + 1]
      BY <2>2, <3>1
    <3>3. flat(k + 1) = f[k + 1] /\ flat(k) = f[k]
      BY <1>3, <2>1, <2>4
    <3> QED
      BY <3>2, <3>3 DEF joined
  <2> QED
    BY <2>3, <2>4
<1> HIDE DEF flat
<1> DEFINE S == {k \in Nat : k <= n =>
                   /\ flat(k) \in Seq(Bytes)
                   /\ \A r \in Seq(Bytes) :
                        \E y : LeftOver(b, k, r, y) /\ y[0] = joined(flat(k), r)}
<1>4. 0 \in S
  <2>1. flat(0) = <<>> /\ flat(0) \in Seq(Bytes)
    BY DEF flat
  <2>2. ASSUME NEW r \in Seq(Bytes)
        PROVE  \E y : LeftOver(b, 0, r, y) /\ y[0] = joined(flat(0), r)
    <3> DEFINE y == [i \in 0 .. 0 |-> r]
    <3>1. LeftOver(b, 0, r, y) /\ y[0] = r
      BY DEF LeftOver
    <3>2. joined(flat(0), r) = r
      BY <2>1, ConcatEmptySeq DEF joined
    <3> HIDE DEF y
    <3> QED
      BY <3>1, <3>2
  <2> QED
    BY <2>1, <2>2
<1>5. ASSUME NEW k \in Nat, k + 1 <= n, flat(k) \in Seq(Bytes),
             \A r \in Seq(Bytes) : \E y : LeftOver(b, k, r, y) /\ y[0] = joined(flat(k), r)
      PROVE  /\ flat(k + 1) \in Seq(Bytes)
             /\ \A r \in Seq(Bytes) :
                  \E y : LeftOver(b, k + 1, r, y) /\ y[0] = joined(flat(k + 1), r)
  <2> DEFINE bytes == b[k + 1]
  <2>1. /\ k \in Nat /\ k <= n /\ k + 1 \in 1 .. n /\ bytes \in Seq(Bytes)
    BY <1>5
  <2>2. /\ flat(k) \in Seq(Bytes)
        /\ \A r \in Seq(Bytes) : \E y : LeftOver(b, k, r, y) /\ y[0] = joined(flat(k), r)
    BY <1>5
  <2>3. flat(k + 1) = joined(flat(k), bytes)
    BY <1>3, <2>1, <2>2
  <2> HIDE DEF S, bytes
  <2>4. flat(k + 1) \in Seq(Bytes)
    BY <2>1, <2>2, <2>3, JoinedTogether
  <2>5. ASSUME NEW r \in Seq(Bytes)
        PROVE  \E y : LeftOver(b, k + 1, r, y) /\ y[0] = joined(flat(k + 1), r)
    <3> DEFINE q == joined(bytes, r)
    <3>1. q \in Seq(Bytes) /\ joined(joined(flat(k), bytes), r) = joined(flat(k), q)
      BY <2>1, <2>2, JoinedTogether
    <3>2. PICK y : LeftOver(b, k, q, y) /\ y[0] = joined(flat(k), q)
      BY <2>2, <3>1
    <3> DEFINE z == [i \in 0 .. k + 1 |-> IF i = k + 1 THEN r ELSE y[i]]
    <3>3. \A i \in 0 .. k : z[i] = y[i]
      BY <2>1
    <3>4. z[k + 1] = r /\ 0 \in 0 .. k /\ k \in 0 .. k
      BY <2>1
    <3>5. z \in [0 .. k + 1 -> Seq(Bytes)]
      BY <2>1, <3>2 DEF LeftOver
    <3> HIDE DEF z
    <3>6. ASSUME NEW i \in 1 .. k + 1 PROVE z[i - 1] = b[i] \o z[i]
      <4>1. CASE i = k + 1
        <5>1. i - 1 = k
          BY <2>1, <4>1
        <5>2. y[k] = b[i] \o r
          BY <3>2, <4>1 DEF LeftOver, q, joined, bytes
        <5> QED
          BY <3>3, <3>4, <4>1, <5>1, <5>2
      <4>2. CASE i # k + 1
        <5>1. i \in 1 .. k /\ i - 1 \in 0 .. k /\ i \in 0 .. k
          BY <2>1, <4>2
        <5>2. y[i - 1] = b[i] \o y[i]
          BY <3>2, <5>1 DEF LeftOver
        <5> QED
          BY <3>3, <5>1, <5>2
      <4> QED
        BY <4>1, <4>2
    <3>7. LeftOver(b, k + 1, r, z)
      BY <3>4, <3>5, <3>6 DEF LeftOver
    <3>8. z[0] = joined(flat(k + 1), r)
      BY <2>3, <3>1, <3>2, <3>3, <3>4
    <3> QED
      BY <3>7, <3>8
  <2> QED
    BY <2>4, <2>5
<1>8. ASSUME NEW k \in S PROVE k + 1 \in S
  <2>1. k \in Nat /\ (k + 1 <= n => k <= n)
    OBVIOUS
  <2> QED
    BY <1>5, <2>1
<1> HIDE DEF S
<1>6. S = Nat
  <2>1. S \in SUBSET Nat
    BY DEF S
  <2> QED
    BY <1>4, <1>8, <2>1, AllNumbers
<1>7. /\ flat(n) \in Seq(Bytes)
      /\ \A r \in Seq(Bytes) : \E y : LeftOver(b, n, r, y) /\ y[0] = joined(flat(n), r)
  BY <1>6 DEF S
<1> QED
  BY <1>2, <1>7 DEF joined

(* The first k of the items x. *)
firstOf(x, k) == [i \in 1 .. k |-> x[i]]

(* And the next one. *)
LEMMA OneMore ==
  ASSUME NEW x, NEW k \in Nat
  PROVE  Append(firstOf(x, k), x[k + 1]) = firstOf(x, k + 1)
<1> DEFINE S == {x[i] : i \in 1 .. k + 1}
           s == firstOf(x, k)
           e == x[k + 1]
           t == firstOf(x, k + 1)
<1>1. /\ s \in Seq(S) /\ Len(s) = k /\ e \in S /\ t \in Seq(S) /\ Len(t) = k + 1
      /\ \A i \in 1 .. k : s[i] = t[i]
      /\ t[k + 1] = e
  BY DEF firstOf
<1> HIDE DEF S, s, e, t
<1> DEFINE a == Append(s, e)
<1>2. /\ a \in Seq(S) /\ Len(a) = k + 1 /\ a[k + 1] = e
      /\ \A i \in 1 .. k : a[i] = s[i]
  BY <1>1, AppendProperties
<1> HIDE DEF a
<1>3. \A i \in 1 .. k + 1 : a[i] = t[i]
  <2>1. \A i \in 1 .. k + 1 : i \in 1 .. k \/ i = k + 1
    OBVIOUS
  <2> QED
    BY <1>1, <1>2, <2>1
<1>4. a = t
  BY <1>1, <1>2, <1>3, SeqEqual
<1> QED
  BY <1>4 DEF a, s, e, t

(* A loop g takes the n items x one after the other, and leaves what y says. *)
TakesEach(g, x, y, n) ==
  /\ g[0] = [item |-> <<>>, rest |-> y[0]]
  /\ \A i \in 1 .. n : g[i - 1].rest = y[i - 1] =>
       g[i] = [item |-> Append(g[i - 1].item, x[i]), rest |-> y[i]]

(* So in the end it has taken all of them. *)
LEMMA LoopReads ==
  ASSUME NEW n \in Nat, NEW x, NEW y, NEW g, TakesEach(g, x, y, n)
  PROVE  g[n] = [item |-> firstOf(x, n), rest |-> y[n]]
<1>0. /\ g[0] = [item |-> <<>>, rest |-> y[0]]
      /\ \A i \in 1 .. n : g[i - 1].rest = y[i - 1] =>
           g[i] = [item |-> Append(g[i - 1].item, x[i]), rest |-> y[i]]
  BY DEF TakesEach
<1> DEFINE S == {k \in Nat : k <= n => g[k] = [item |-> firstOf(x, k), rest |-> y[k]]}
<1>1. 0 \in S
  <2>1. firstOf(x, 0) = <<>>
    BY DEF firstOf
  <2> QED
    BY <1>0, <2>1
<1>2. ASSUME NEW k \in Nat, k + 1 <= n,
             g[k] = [item |-> firstOf(x, k), rest |-> y[k]]
      PROVE  g[k + 1] = [item |-> firstOf(x, k + 1), rest |-> y[k + 1]]
  <2>1. k \in Nat /\ k <= n /\ k + 1 \in 1 .. n /\ (k + 1) - 1 = k
    BY <1>2
  <2>2. g[k] = [item |-> firstOf(x, k), rest |-> y[k]]
    BY <1>2
  <2>3. g[k].rest = y[k] /\ g[k].item = firstOf(x, k)
    BY <2>2
  <2>4. g[k + 1] = [item |-> Append(g[k].item, x[k + 1]), rest |-> y[k + 1]]
    BY <1>0, <2>1, <2>3
  <2>5. Append(firstOf(x, k), x[k + 1]) = firstOf(x, k + 1)
    BY <2>1, OneMore
  <2> QED
    BY <2>3, <2>4, <2>5
<1>3. ASSUME NEW k \in S PROVE k + 1 \in S
  <2>1. k \in Nat /\ (k + 1 <= n => k <= n)
    OBVIOUS
  <2> QED
    BY <1>2, <2>1
<1> HIDE DEF S
<1>4. S = Nat
  <2>1. S \in SUBSET Nat
    BY DEF S
  <2> QED
    BY <1>1, <1>3, <2>1, AllNumbers
<1>5. n \in S
  BY <1>4
<1> QED
  BY <1>5 DEF S

(* The recursion that reading many is, from the rest c.rest and their number c.item. *)
InputsReadFrom(c, g) ==
  g = [n \in 0 .. c.item |->
         IF n = 0 THEN [item |-> <<>>, rest |-> c.rest]
         ELSE [item |-> Append(g[n - 1].item, ParseTxIn(g[n - 1].rest).item),
               rest |-> ParseTxIn(g[n - 1].rest).rest]]

(* Reading many is that recursion. *)
LEMMA ParseTxInAll ==
  ASSUME NEW bytes
  PROVE  parseAll(bytes, ParseTxIn)
           = (CHOOSE g : InputsReadFrom(VarInt2Int(bytes), g))[VarInt2Int(bytes).item]
BY DEF parseAll, InputsReadFrom

(* All of them are read, if each one is. *)
LEMMA InputsReadBack ==
  ASSUME NEW n \in Nat, n < capacity(8), NEW x, x = [i \in 1 .. n |-> x[i]],
         \A i \in 1 .. n :
           /\ SerializeTxIn(x[i]) \in Seq(Bytes)
           /\ \A r \in Seq(Bytes) :
                ParseTxIn(SerializeTxIn(x[i]) \o r) = [item |-> x[i], rest |-> r]
  PROVE  /\ serializeAll(x, SerializeTxIn) \in Seq(Bytes)
         /\ \A r \in Seq(Bytes) :
              parseAll(joined(serializeAll(x, SerializeTxIn), r), ParseTxIn) = [item |-> x, rest |-> r]
<1> DEFINE b == [i \in 1 .. n |-> SerializeTxIn(x[i])]
           c == WriteVarInt(n)
           f == FlattenSeq(b)
           all == serializeAll(x, SerializeTxIn)
<1>1. Len(x) = n /\ DOMAIN x = 1 .. n
  OBVIOUS
<1>2. all = joined(c, f)
  BY <1>1 DEF serializeAll, joined
<1>3. b \in [1 .. n -> Seq(Bytes)]
  OBVIOUS
<1>4. f \in Seq(Bytes) /\ \A r \in Seq(Bytes) : \E y : LeftOver(b, n, r, y) /\ y[0] = joined(f, r)
  <2> HIDE DEF b
  <2>1. /\ f \in Seq(Bytes)
        /\ \A r \in Seq(Bytes) : \E y : LeftOver(b, n, r, y) /\ y[0] = f \o r
    BY <1>3, FlattenedIsLeft
  <2> HIDE DEF f
  <2> QED
    BY <2>1 DEF joined
<1>5. c \in Seq(Bytes)
  <2>1. <<>> \in Seq(Bytes)
    OBVIOUS
  <2> QED
    BY <2>1, VarIntReadsBack
<1>6. ASSUME NEW i \in 1 .. n, NEW r \in Seq(Bytes)
      PROVE  ParseTxIn(b[i] \o r) = [item |-> x[i], rest |-> r]
  OBVIOUS
<1>7. all \in Seq(Bytes)
  <2> HIDE DEF all, c, f
  <2> QED
    BY <1>2, <1>4, <1>5, JoinedTogether
<1>8. ASSUME NEW r \in Seq(Bytes)
      PROVE  parseAll(joined(all, r), ParseTxIn) = [item |-> x, rest |-> r]
  <2> DEFINE bytes == joined(all, r)
             count == VarInt2Int(bytes)
  <2>1. PICK y : LeftOver(b, n, r, y) /\ y[0] = joined(f, r)
    BY <1>4
  <2>2. y \in [0 .. n -> Seq(Bytes)] /\ y[n] = r /\ \A i \in 1 .. n : y[i - 1] = b[i] \o y[i]
    <3> HIDE DEF b
    <3> QED
      BY <2>1 DEF LeftOver
  <2>3. count = [item |-> n, rest |-> y[0]]
    <3> HIDE DEF c, f, all
    <3>1. bytes = joined(c, y[0]) /\ y[0] \in Seq(Bytes)
      <4>1. joined(joined(c, f), r) = joined(c, joined(f, r)) /\ joined(f, r) \in Seq(Bytes)
        BY <1>4, <1>5, JoinedTogether
      <4> QED
        BY <1>2, <2>1, <4>1
    <3>2. VarInt2Int(c \o y[0]) = [item |-> n, rest |-> y[0]]
      <4>1. y[0] \in Seq(Bytes)
        BY <3>1
      <4> QED
        BY <4>1, VarIntReadsBack DEF c
    <3> QED
      BY <3>1, <3>2 DEF joined
  <2> HIDE DEF count
  <2>4. count.item = n /\ count.rest = y[0]
    BY <2>3
  <2>5. ASSUME NEW i \in 1 .. n PROVE ParseTxIn(y[i - 1]) = [item |-> x[i], rest |-> y[i]]
    <3>1. y[i] \in Seq(Bytes) /\ y[i - 1] = b[i] \o y[i]
      BY <2>2
    <3>2. ParseTxIn(b[i] \o y[i]) = [item |-> x[i], rest |-> y[i]]
      <4> HIDE DEF b
      <4> QED
        BY <1>6, <3>1
    <3> QED
      BY <3>1, <3>2
  <2> HIDE DEF b, c, f, all, bytes
  <2>6. \E g : InputsReadFrom(count, g)
    <3> DEFINE g == [k \in 0 .. n |-> [item |-> firstOf(x, k), rest |-> y[k]]]
               val(k) == IF k = 0 THEN [item |-> <<>>, rest |-> count.rest]
                         ELSE [item |-> Append(g[k - 1].item, ParseTxIn(g[k - 1].rest).item),
                               rest |-> ParseTxIn(g[k - 1].rest).rest]
    <3>1. g = [k \in 0 .. n |-> g[k]]
      OBVIOUS
    <3>2. \A k \in 0 .. n : g[k] = [item |-> firstOf(x, k), rest |-> y[k]]
      OBVIOUS
    <3> HIDE DEF g
    <3>3. ASSUME NEW k \in 0 .. n PROVE g[k] = val(k)
      <4>1. CASE k = 0
        <5>1. firstOf(x, 0) = <<>>
          BY DEF firstOf
        <5> QED
          BY <2>4, <3>2, <4>1, <5>1
      <4>2. CASE k # 0
        <5> DEFINE j == k - 1
        <5>1. j \in Nat /\ j \in 0 .. n /\ k \in 1 .. n /\ j + 1 = k
          BY <4>2
        <5>2. g[j].item = firstOf(x, j) /\ g[j].rest = y[j]
          <6>1. g[j] = [item |-> firstOf(x, j), rest |-> y[j]]
            BY <3>2, <5>1
          <6> HIDE DEF j
          <6> QED
            BY <6>1
        <5>3. ParseTxIn(y[j]) = [item |-> x[k], rest |-> y[k]]
          BY <2>5, <5>1
        <5>4. Append(firstOf(x, j), x[k]) = firstOf(x, k)
          <6>1. Append(firstOf(x, j), x[j + 1]) = firstOf(x, j + 1)
            BY <5>1, OneMore
          <6> QED
            BY <5>1, <6>1
        <5>5. val(k) = [item |-> Append(g[j].item, ParseTxIn(g[j].rest).item),
                        rest |-> ParseTxIn(g[j].rest).rest]
          BY <4>2
        <5>6. g[k] = [item |-> firstOf(x, k), rest |-> y[k]]
          BY <3>2
        <5> HIDE DEF val, j
        <5>7. val(k) = [item |-> Append(firstOf(x, j), x[k]), rest |-> y[k]]
          <6> DEFINE this == ParseTxIn(g[j].rest)
          <6>1. this = [item |-> x[k], rest |-> y[k]]
            BY <5>2, <5>3
          <6> HIDE DEF this
          <6>2. this.item = x[k] /\ this.rest = y[k]
            BY <6>1
          <6>3. val(k) = [item |-> Append(g[j].item, this.item), rest |-> this.rest]
            BY <5>5 DEF this
          <6> QED
            BY <5>2, <6>2, <6>3
        <5> QED
          BY <5>4, <5>6, <5>7
      <4> QED
        BY <4>1, <4>2
    <3>4. g = [k \in 0 .. n |-> val(k)]
      <4> HIDE DEF val
      <4> QED
        BY <3>1, <3>3
    <3>5. InputsReadFrom(count, g)
      BY <2>4, <3>4 DEF InputsReadFrom
    <3> QED
      BY <3>5
  <2> DEFINE h == CHOOSE g : InputsReadFrom(count, g)
  <2>7. InputsReadFrom(count, h)
    BY <2>6
  <2>8. parseAll(bytes, ParseTxIn) = h[n]
    <3>1. parseAll(bytes, ParseTxIn)
           = (CHOOSE g : InputsReadFrom(VarInt2Int(bytes), g))[VarInt2Int(bytes).item]
      BY ParseTxInAll
    <3> QED
      BY <2>4, <3>1 DEF count
  <2> HIDE DEF h
  <2>9. h[0] = [item |-> <<>>, rest |-> y[0]]
    <3>1. 0 \in 0 .. n
      OBVIOUS
    <3> QED
      BY <2>4, <2>7, <3>1 DEF InputsReadFrom
  <2>10. ASSUME NEW i \in 1 .. n, h[i - 1].rest = y[i - 1]
         PROVE  h[i] = [item |-> Append(h[i - 1].item, x[i]), rest |-> y[i]]
    <3>1. i \in 0 .. n /\ i # 0
      OBVIOUS
    <3>2. h[i] = [item |-> Append(h[i - 1].item, ParseTxIn(h[i - 1].rest).item),
                  rest |-> ParseTxIn(h[i - 1].rest).rest]
      BY <2>4, <2>7, <3>1 DEF InputsReadFrom
    <3>3. ParseTxIn(h[i - 1].rest) = [item |-> x[i], rest |-> y[i]]
      BY <2>5, <2>10
    <3> QED
      BY <3>2, <3>3
  <2>11. h[n] = [item |-> firstOf(x, n), rest |-> y[n]]
    <3>1. \A i \in 1 .. n : h[i - 1].rest = y[i - 1] =>
            h[i] = [item |-> Append(h[i - 1].item, x[i]), rest |-> y[i]]
      BY <2>10
    <3>2. TakesEach(h, x, y, n)
      BY ONLY <2>9, <3>1 DEF TakesEach
    <3> QED
      BY ONLY n \in Nat, <3>2, LoopReads
  <2>12. firstOf(x, n) = x
    BY DEF firstOf
  <2> QED
    BY <2>2, <2>8, <2>11, <2>12 DEF bytes
<1> QED
  BY <1>7, <1>8

(* The recursion that reading many is, from the rest c.rest and their number c.item. *)
OutputsReadFrom(c, g) ==
  g = [n \in 0 .. c.item |->
         IF n = 0 THEN [item |-> <<>>, rest |-> c.rest]
         ELSE [item |-> Append(g[n - 1].item, ParseTxOut(g[n - 1].rest).item),
               rest |-> ParseTxOut(g[n - 1].rest).rest]]

(* Reading many is that recursion. *)
LEMMA ParseTxOutAll ==
  ASSUME NEW bytes
  PROVE  parseAll(bytes, ParseTxOut)
           = (CHOOSE g : OutputsReadFrom(VarInt2Int(bytes), g))[VarInt2Int(bytes).item]
BY DEF parseAll, OutputsReadFrom

(* All of them are read, if each one is. *)
LEMMA OutputsReadBack ==
  ASSUME NEW n \in Nat, n < capacity(8), NEW x, x = [i \in 1 .. n |-> x[i]],
         \A i \in 1 .. n :
           /\ SerializeTxOut(x[i]) \in Seq(Bytes)
           /\ \A r \in Seq(Bytes) :
                ParseTxOut(SerializeTxOut(x[i]) \o r) = [item |-> x[i], rest |-> r]
  PROVE  /\ serializeAll(x, SerializeTxOut) \in Seq(Bytes)
         /\ \A r \in Seq(Bytes) :
              parseAll(joined(serializeAll(x, SerializeTxOut), r), ParseTxOut) = [item |-> x, rest |-> r]
<1> DEFINE b == [i \in 1 .. n |-> SerializeTxOut(x[i])]
           c == WriteVarInt(n)
           f == FlattenSeq(b)
           all == serializeAll(x, SerializeTxOut)
<1>1. Len(x) = n /\ DOMAIN x = 1 .. n
  OBVIOUS
<1>2. all = joined(c, f)
  BY <1>1 DEF serializeAll, joined
<1>3. b \in [1 .. n -> Seq(Bytes)]
  OBVIOUS
<1>4. f \in Seq(Bytes) /\ \A r \in Seq(Bytes) : \E y : LeftOver(b, n, r, y) /\ y[0] = joined(f, r)
  <2> HIDE DEF b
  <2>1. /\ f \in Seq(Bytes)
        /\ \A r \in Seq(Bytes) : \E y : LeftOver(b, n, r, y) /\ y[0] = f \o r
    BY <1>3, FlattenedIsLeft
  <2> HIDE DEF f
  <2> QED
    BY <2>1 DEF joined
<1>5. c \in Seq(Bytes)
  <2>1. <<>> \in Seq(Bytes)
    OBVIOUS
  <2> QED
    BY <2>1, VarIntReadsBack
<1>6. ASSUME NEW i \in 1 .. n, NEW r \in Seq(Bytes)
      PROVE  ParseTxOut(b[i] \o r) = [item |-> x[i], rest |-> r]
  OBVIOUS
<1>7. all \in Seq(Bytes)
  <2> HIDE DEF all, c, f
  <2> QED
    BY <1>2, <1>4, <1>5, JoinedTogether
<1>8. ASSUME NEW r \in Seq(Bytes)
      PROVE  parseAll(joined(all, r), ParseTxOut) = [item |-> x, rest |-> r]
  <2> DEFINE bytes == joined(all, r)
             count == VarInt2Int(bytes)
  <2>1. PICK y : LeftOver(b, n, r, y) /\ y[0] = joined(f, r)
    BY <1>4
  <2>2. y \in [0 .. n -> Seq(Bytes)] /\ y[n] = r /\ \A i \in 1 .. n : y[i - 1] = b[i] \o y[i]
    <3> HIDE DEF b
    <3> QED
      BY <2>1 DEF LeftOver
  <2>3. count = [item |-> n, rest |-> y[0]]
    <3> HIDE DEF c, f, all
    <3>1. bytes = joined(c, y[0]) /\ y[0] \in Seq(Bytes)
      <4>1. joined(joined(c, f), r) = joined(c, joined(f, r)) /\ joined(f, r) \in Seq(Bytes)
        BY <1>4, <1>5, JoinedTogether
      <4> QED
        BY <1>2, <2>1, <4>1
    <3>2. VarInt2Int(c \o y[0]) = [item |-> n, rest |-> y[0]]
      <4>1. y[0] \in Seq(Bytes)
        BY <3>1
      <4> QED
        BY <4>1, VarIntReadsBack DEF c
    <3> QED
      BY <3>1, <3>2 DEF joined
  <2> HIDE DEF count
  <2>4. count.item = n /\ count.rest = y[0]
    BY <2>3
  <2>5. ASSUME NEW i \in 1 .. n PROVE ParseTxOut(y[i - 1]) = [item |-> x[i], rest |-> y[i]]
    <3>1. y[i] \in Seq(Bytes) /\ y[i - 1] = b[i] \o y[i]
      BY <2>2
    <3>2. ParseTxOut(b[i] \o y[i]) = [item |-> x[i], rest |-> y[i]]
      <4> HIDE DEF b
      <4> QED
        BY <1>6, <3>1
    <3> QED
      BY <3>1, <3>2
  <2> HIDE DEF b, c, f, all, bytes
  <2>6. \E g : OutputsReadFrom(count, g)
    <3> DEFINE g == [k \in 0 .. n |-> [item |-> firstOf(x, k), rest |-> y[k]]]
               val(k) == IF k = 0 THEN [item |-> <<>>, rest |-> count.rest]
                         ELSE [item |-> Append(g[k - 1].item, ParseTxOut(g[k - 1].rest).item),
                               rest |-> ParseTxOut(g[k - 1].rest).rest]
    <3>1. g = [k \in 0 .. n |-> g[k]]
      OBVIOUS
    <3>2. \A k \in 0 .. n : g[k] = [item |-> firstOf(x, k), rest |-> y[k]]
      OBVIOUS
    <3> HIDE DEF g
    <3>3. ASSUME NEW k \in 0 .. n PROVE g[k] = val(k)
      <4>1. CASE k = 0
        <5>1. firstOf(x, 0) = <<>>
          BY DEF firstOf
        <5> QED
          BY <2>4, <3>2, <4>1, <5>1
      <4>2. CASE k # 0
        <5> DEFINE j == k - 1
        <5>1. j \in Nat /\ j \in 0 .. n /\ k \in 1 .. n /\ j + 1 = k
          BY <4>2
        <5>2. g[j].item = firstOf(x, j) /\ g[j].rest = y[j]
          <6>1. g[j] = [item |-> firstOf(x, j), rest |-> y[j]]
            BY <3>2, <5>1
          <6> HIDE DEF j
          <6> QED
            BY <6>1
        <5>3. ParseTxOut(y[j]) = [item |-> x[k], rest |-> y[k]]
          BY <2>5, <5>1
        <5>4. Append(firstOf(x, j), x[k]) = firstOf(x, k)
          <6>1. Append(firstOf(x, j), x[j + 1]) = firstOf(x, j + 1)
            BY <5>1, OneMore
          <6> QED
            BY <5>1, <6>1
        <5>5. val(k) = [item |-> Append(g[j].item, ParseTxOut(g[j].rest).item),
                        rest |-> ParseTxOut(g[j].rest).rest]
          BY <4>2
        <5>6. g[k] = [item |-> firstOf(x, k), rest |-> y[k]]
          BY <3>2
        <5> HIDE DEF val, j
        <5>7. val(k) = [item |-> Append(firstOf(x, j), x[k]), rest |-> y[k]]
          <6> DEFINE this == ParseTxOut(g[j].rest)
          <6>1. this = [item |-> x[k], rest |-> y[k]]
            BY <5>2, <5>3
          <6> HIDE DEF this
          <6>2. this.item = x[k] /\ this.rest = y[k]
            BY <6>1
          <6>3. val(k) = [item |-> Append(g[j].item, this.item), rest |-> this.rest]
            BY <5>5 DEF this
          <6> QED
            BY <5>2, <6>2, <6>3
        <5> QED
          BY <5>4, <5>6, <5>7
      <4> QED
        BY <4>1, <4>2
    <3>4. g = [k \in 0 .. n |-> val(k)]
      <4> HIDE DEF val
      <4> QED
        BY <3>1, <3>3
    <3>5. OutputsReadFrom(count, g)
      BY <2>4, <3>4 DEF OutputsReadFrom
    <3> QED
      BY <3>5
  <2> DEFINE h == CHOOSE g : OutputsReadFrom(count, g)
  <2>7. OutputsReadFrom(count, h)
    BY <2>6
  <2>8. parseAll(bytes, ParseTxOut) = h[n]
    <3>1. parseAll(bytes, ParseTxOut)
           = (CHOOSE g : OutputsReadFrom(VarInt2Int(bytes), g))[VarInt2Int(bytes).item]
      BY ParseTxOutAll
    <3> QED
      BY <2>4, <3>1 DEF count
  <2> HIDE DEF h
  <2>9. h[0] = [item |-> <<>>, rest |-> y[0]]
    <3>1. 0 \in 0 .. n
      OBVIOUS
    <3> QED
      BY <2>4, <2>7, <3>1 DEF OutputsReadFrom
  <2>10. ASSUME NEW i \in 1 .. n, h[i - 1].rest = y[i - 1]
         PROVE  h[i] = [item |-> Append(h[i - 1].item, x[i]), rest |-> y[i]]
    <3>1. i \in 0 .. n /\ i # 0
      OBVIOUS
    <3>2. h[i] = [item |-> Append(h[i - 1].item, ParseTxOut(h[i - 1].rest).item),
                  rest |-> ParseTxOut(h[i - 1].rest).rest]
      BY <2>4, <2>7, <3>1 DEF OutputsReadFrom
    <3>3. ParseTxOut(h[i - 1].rest) = [item |-> x[i], rest |-> y[i]]
      BY <2>5, <2>10
    <3> QED
      BY <3>2, <3>3
  <2>11. h[n] = [item |-> firstOf(x, n), rest |-> y[n]]
    <3>1. \A i \in 1 .. n : h[i - 1].rest = y[i - 1] =>
            h[i] = [item |-> Append(h[i - 1].item, x[i]), rest |-> y[i]]
      BY <2>10
    <3>2. TakesEach(h, x, y, n)
      BY ONLY <2>9, <3>1 DEF TakesEach
    <3> QED
      BY ONLY n \in Nat, <3>2, LoopReads
  <2>12. firstOf(x, n) = x
    BY DEF firstOf
  <2> QED
    BY <2>2, <2>8, <2>11, <2>12 DEF bytes
<1> QED
  BY <1>7, <1>8

(* The whole transaction is read as it was written. *)
LEMMA TransactionReadsBack ==
  ASSUME AllGiven, NEW v \in Nat, v < capacity(4), NEW s, \A i \in Inputs : s[i] \in Script
  PROVE  ParseTx(Serialize(BuiltAs(v, s))) = BuiltAs(v, s)
<1> DEFINE t == BuiltAs(v, s)
           n == Len(coins)
           ins == [i \in Inputs |-> BuiltIn(i, s[i])]
           version == BigEndian(v, 4)
           locktime == BigEndian(0, 4)
           a == Reverse(version)
           b == serializeAll(ins, SerializeTxIn)
           c == serializeAll(Outputs, SerializeTxOut)
           e == Reverse(locktime)
<1>1. t = [version |-> version, inputs |-> ins, outputs |-> Outputs, locktime |-> locktime]
  BY DEF BuiltAs
<1>2. /\ version \in Seq(Bytes) /\ Len(version) = 4
      /\ locktime \in Seq(Bytes) /\ Len(locktime) = 4
  <2>1. 0 \in Nat /\ 4 \in Nat
    OBVIOUS
  <2> QED
    BY <2>1, BytesOf
<1>3. /\ b \in Seq(Bytes)
      /\ \A r \in Seq(Bytes) : parseAll(joined(b, r), ParseTxIn) = [item |-> ins, rest |-> r]
  <2>1. n \in Nat /\ n < capacity(8) /\ Inputs = 1 .. n
    BY CoinsAre
  <2>2. ASSUME NEW i \in 1 .. n
        PROVE  /\ SerializeTxIn(ins[i]) \in Seq(Bytes)
               /\ \A r \in Seq(Bytes) :
                    ParseTxIn(SerializeTxIn(ins[i]) \o r) = [item |-> ins[i], rest |-> r]
    <3>1. s[i] \in Script /\ i \in Inputs /\ ins[i] = BuiltIn(i, s[i])
      BY <2>1
    <3> HIDE DEF ins
    <3> QED
      BY <3>1, InputReadsBack
  <2>3. ins = [i \in 1 .. n |-> ins[i]]
    BY <2>1
  <2> HIDE DEF ins, n
  <2> QED
    BY <2>1, <2>2, <2>3, InputsReadBack
<1>4. /\ c \in Seq(Bytes)
      /\ \A r \in Seq(Bytes) : parseAll(joined(c, r), ParseTxOut) = [item |-> Outputs, rest |-> r]
  <2> DEFINE k == Len(Outputs)
  <2>1. /\ k \in Nat /\ k < capacity(8) /\ DOMAIN Outputs = 1 .. k
        /\ \A j \in 1 .. k : \E x \in Nat, p \in Script :
              Outputs[j] = NewTxOut(x, p) /\ x < capacity(8)
    <3>1. k \in {1, 2}
      BY OutputsAre
    <3> HIDE DEF k
    <3>2. k \in Nat /\ k < capacity(8)
      BY <3>1, Fits
    <3> QED
      BY <3>2, OutputsAre DEF k
  <2>2. ASSUME NEW j \in 1 .. k
        PROVE  /\ SerializeTxOut(Outputs[j]) \in Seq(Bytes)
               /\ \A r \in Seq(Bytes) :
                    ParseTxOut(SerializeTxOut(Outputs[j]) \o r) = [item |-> Outputs[j], rest |-> r]
    <3>1. PICK x \in Nat, p \in Script : Outputs[j] = NewTxOut(x, p) /\ x < capacity(8)
      BY <2>1
    <3> QED
      BY <3>1, OutputReadsBack
  <2>3. Outputs = [j \in 1 .. k |-> Outputs[j]]
    <3>1. Outputs = [j \in DOMAIN Outputs |-> Outputs[j]]
      BY DEF Outputs
    <3> QED
      BY <2>1, <3>1
  <2> HIDE DEF k
  <2> QED
    BY <2>1, <2>2, <2>3, OutputsReadBack
<1> HIDE DEF t, ins, version, locktime
<1>5. /\ a \in Seq(Bytes) /\ Len(a) = 4 /\ ReverseBytes(a) = version
      /\ e \in Seq(Bytes) /\ Len(e) = 4 /\ ReverseBytes(e) = locktime
  BY <1>2, ReversedTwice
<1>6. Serialize(t) = joined(joined(joined(a, b), c), e)
  BY <1>1 DEF Serialize, ReverseBytes, joined
<1> DEFINE ce == joined(c, e)
           bce == joined(b, ce)
           all == Serialize(t)
<1> HIDE DEF a, b, c, e
<1>7. all = joined(a, bce) /\ bce \in Seq(Bytes) /\ ce \in Seq(Bytes)
  BY <1>3, <1>4, <1>5, <1>6, ThreeParts
<1> HIDE DEF all
<1>8. read(all, 4) = [item |-> a, rest |-> bce]
  <2> HIDE DEF bce
  <2>1. read(a \o bce, 4) = [item |-> a, rest |-> bce]
    BY <1>5, <1>7, ReadFirst
  <2> QED
    BY <1>7, <2>1 DEF joined
<1>9. parseAll(bce, ParseTxIn) = [item |-> ins, rest |-> ce]
  BY <1>3, <1>7
<1>10. parseAll(ce, ParseTxOut) = [item |-> Outputs, rest |-> e]
  BY <1>4, <1>5
<1>11. read(e, 4).item = e
  <2>1. <<>> \in Seq(Bytes) /\ e \o <<>> = e
    BY <1>5, ConcatEmptySeq
  <2>2. read(e \o <<>>, 4) = [item |-> e, rest |-> <<>>]
    BY <1>5, <2>1, ReadFirst
  <2> QED
    BY <2>1, <2>2
<1> HIDE DEF ce, bce
<1> DEFINE version_ == read(all, 4)
           inputs_ == parseAll(version_.rest, ParseTxIn)
           outputs_ == parseAll(inputs_.rest, ParseTxOut)
           locktime_ == read(outputs_.rest, 4)
<1>12. ParseTx(all) = [version |-> ReverseBytes(version_.item), inputs |-> inputs_.item,
                       outputs |-> outputs_.item, locktime |-> ReverseBytes(locktime_.item)]
  BY DEF ParseTx
<1>13. version_.item = a /\ version_.rest = bce
  BY <1>8
<1> HIDE DEF version_
<1>14. inputs_.item = ins /\ inputs_.rest = ce
  BY <1>9, <1>13
<1> HIDE DEF inputs_
<1>15. outputs_.item = Outputs /\ outputs_.rest = e
  BY <1>10, <1>14
<1> HIDE DEF outputs_
<1>16. locktime_.item = e
  BY <1>11, <1>15
<1> HIDE DEF locktime_
<1>17. ParseTx(all) = t
  BY <1>1, <1>5, <1>12, <1>13, <1>14, <1>15, <1>16
<1> QED
  BY <1>17 DEF all, t

(* The transaction of the library without its witnesses, as its id has it. *)
bare(msg) ==
  [msg EXCEPT !.txIn = [i \in DOMAIN msg.txIn |-> [msg.txIn[i] EXCEPT !.witness = <<>>]]]

(* What src/transactions makes has no witnesses. *)
LEMMA NothingToBare ==
  ASSUME NEW v, NEW s, NEW m, m = [version |-> v, txIn |-> WireIns(s), txOut |-> WireOuts, lockTime |-> 0]
  PROVE  bare(m) = m
<1> DEFINE ins == [i \in DOMAIN m.txIn |-> [m.txIn[i] EXCEPT !.witness = <<>>]]
<1>1. ins = WireIns(s)
  <2>1. m.txIn = WireIns(s) /\ DOMAIN WireIns(s) = Inputs
    BY DEF WireIns
  <2>2. ASSUME NEW i \in Inputs PROVE [WireIns(s)[i] EXCEPT !.witness = <<>>] = WireIns(s)[i]
    BY DEF WireIns, asWireIn
  <2>3. WireIns(s) = [i \in Inputs |-> WireIns(s)[i]]
    BY DEF WireIns
  <2> QED
    BY <2>1, <2>2, <2>3
<1> HIDE DEF ins
<1>2. [m EXCEPT !.txIn = ins] = m
  BY <1>1
<1> QED
  BY <1>2 DEF bare, ins

(* The transaction of btcd is, but for the witnesses, one of src/transactions in version 2. *)
LEMMA WiredIs ==
  ASSUME AllGiven, NEW s, NEW w
  PROVE  /\ bare(Wired(Unsigned, s, w)) = asMsgTx(BuiltAs(2, s))
         /\ WireBytes(Wired(Unsigned, s, w)) = WireBytes(asMsgTx(BuiltAs(2, s)))
<1> DEFINE m == Wired(Unsigned, s, w)
           t == asMsgTx(BuiltAs(2, s))
           ins == [i \in Inputs |-> [m.txIn[i] EXCEPT !.witness = <<>>]]
<1>1. t = [version |-> 2, txIn |-> WireIns(s), txOut |-> WireOuts, lockTime |-> 0]
  <2>1. 2 \in Nat /\ 2 < capacity(4)
    BY Fits
  <2> QED
    BY <2>1, AsMsgTxIs
<1>2. m = [version |-> 2, txIn |-> m.txIn, txOut |-> WireOuts, lockTime |-> 0]
  <2>1. Unsigned.outputs = Outputs
    BY DEF Unsigned, Built, NewTx
  <2>2. toWireMsgTx(Unsigned).txOut = WireOuts
    BY <2>1 DEF toWireMsgTx, WireOuts, asWireOut, Value
  <2> QED
    BY <2>2 DEF Wired
<1>3. ASSUME NEW i \in Inputs
      PROVE  m.txIn[i] = [hash |-> Reverse(coins[i].txid), index |-> coins[i].vout,
                          signatureScript |-> s[i], witness |-> w[i], sequence |-> MaxSequence]
  <2> DEFINE in == Unsigned.inputs[i]
             hash == ReverseBytes(in.previousTxHash)
             index == fromBigEndian(in.previousTxIndex)
             sequence == fromBigEndian(in.sequence)
  <2>1. in = BuiltIn(i, <<>>)
    BY DEF Unsigned, Built, NewTx, BuiltIn
  <2>2. m.txIn[i] = [hash |-> hash, index |-> index, signatureScript |-> s[i],
                     witness |-> w[i], sequence |-> sequence]
    BY WiredFields
  <2>3. asWireIn(in) = [hash |-> Reverse(coins[i].txid), index |-> coins[i].vout,
                        signatureScript |-> <<>>, witness |-> <<>>, sequence |-> MaxSequence]
    <3> HIDE DEF in
    <3> QED
      BY <2>1, InputAsRead
  <2>4. asWireIn(in) = [hash |-> hash, index |-> index, signatureScript |-> in.scriptSig,
                        witness |-> <<>>, sequence |-> sequence]
    <3> HIDE DEF in
    <3> QED
      BY DEF asWireIn, ReverseBytes
  <2> HIDE DEF in, hash, index, sequence
  <2>5. hash = Reverse(coins[i].txid) /\ index = coins[i].vout /\ sequence = MaxSequence
    BY <2>3, <2>4
  <2> QED
    BY <2>2, <2>5
<1>4. DOMAIN m.txIn = Inputs
  BY WiredFields
<1>5. ASSUME NEW i \in Inputs
      PROVE  /\ [m.txIn[i] EXCEPT !.witness = <<>>] = WireIns(s)[i]
             /\ wireIn(m.txIn[i]) = wireIn(WireIns(s)[i])
  <2>1. WireIns(s)[i] = [hash |-> Reverse(coins[i].txid), index |-> coins[i].vout,
                         signatureScript |-> s[i], witness |-> <<>>, sequence |-> MaxSequence]
    BY InputAsRead DEF WireIns
  <2> DEFINE x == m.txIn[i]
             y == WireIns(s)[i]
  <2>2. /\ x = [hash |-> Reverse(coins[i].txid), index |-> coins[i].vout,
                signatureScript |-> s[i], witness |-> w[i], sequence |-> MaxSequence]
        /\ y = [hash |-> Reverse(coins[i].txid), index |-> coins[i].vout,
                signatureScript |-> s[i], witness |-> <<>>, sequence |-> MaxSequence]
    BY <1>3, <2>1
  <2> HIDE DEF x, y, m
  <2>3. [x EXCEPT !.witness = <<>>] = y
    BY <2>2
  <2>4. /\ x.hash = y.hash /\ x.index = y.index /\ x.sequence = y.sequence
        /\ x.signatureScript = y.signatureScript
    BY <2>2
  <2>5. wireIn(x) = wireIn(y)
    BY <2>4 DEF wireIn
  <2> QED
    BY <2>3, <2>5 DEF x, y
<1> HIDE DEF m, t
<1>6. DOMAIN WireIns(s) = Inputs /\ WireIns(s) = [i \in Inputs |-> WireIns(s)[i]]
  BY DEF WireIns
<1>7. bare(m) = t
  <2>1. ins = WireIns(s)
    BY <1>5, <1>6
  <2>2. bare(m) = [m EXCEPT !.txIn = ins]
    BY <1>4 DEF bare
  <2> HIDE DEF ins
  <2>3. [m EXCEPT !.txIn = ins] = t
    BY <1>1, <1>2, <2>1
  <2> QED
    BY <2>2, <2>3
<1>8. WireBytes(m) = WireBytes(t)
  <2>1. [i \in DOMAIN m.txIn |-> wireIn(m.txIn[i])]
          = [i \in DOMAIN t.txIn |-> wireIn(t.txIn[i])]
    <3>1. t.txIn = WireIns(s)
      BY <1>1
    <3> QED
      BY <1>4, <1>5, <1>6, <3>1
  <2>2. Len(m.txIn) = Len(t.txIn)
    <3>1. t.txIn = WireIns(s)
      BY <1>1
    <3>2. Inputs = 1 .. Len(coins) /\ Len(coins) \in Nat
      BY CoinsAre
    <3> QED
      BY <1>4, <1>6, <3>1, <3>2
  <2>3. m.version = t.version /\ m.txOut = t.txOut /\ m.lockTime = t.lockTime
    BY <1>1, <1>2
  <2> QED
    BY <2>1, <2>2, <2>3 DEF WireBytes
<1> QED
  BY <1>7, <1>8 DEF m, t

(***************************************************************************)
(* The parser reads what was written, for every selection and payment and  *)
(* every signature scheme: the bytes of a legacy send give back its        *)
(* transaction, and those of a segwit send, which btcd wrote, all of it    *)
(* but the witnesses (ParseTx against Serialize and against MsgTx).        *)
(***************************************************************************)
THEOREM PostedReadsBack == Spec => [](ScriptsFit => ReadsBack)
<1>1. IInv /\ Posted => (ScriptsFit => ReadsBack)
  <2> DEFINE read_ == ParseTx(posted)
  <2> SUFFICES ASSUME IInv, Posted, ScriptsFit, pc = "posted"
               PROVE  (~segwit => read_ = tx) /\ asMsgTx(read_) = bare(sent)
    BY DEF ReadsBack, bare
  <2>0. AllGiven /\ 1 \in Nat /\ 1 < capacity(4) /\ 2 \in Nat /\ 2 < capacity(4)
    BY Fits DEF IInv
  <2>1. CASE ~segwit
    <3> DEFINE s == [i \in Inputs |-> tx.inputs[i].scriptSig]
    <3>1. tx = Built(s)
      BY DEF IInv, IsBuilt, Started
    <3>2. tx = BuiltAs(1, s) /\ sent = asMsgTx(tx)
      BY <2>1, <3>1, BuiltIs DEF sent
    <3>3. \A i \in Inputs : s[i] \in Script
      <4>1. \A i \in Inputs : asMsgTx(tx).txIn[i].signatureScript = s[i]
        BY <3>1, BuiltInputs DEF asMsgTx
      <4> QED
        BY <3>2, <4>1 DEF ScriptsFit
    <3> HIDE DEF s
    <3>4. ParseTx(Serialize(tx)) = tx
      BY <2>0, <3>2, <3>3, TransactionReadsBack
    <3>5. posted = Serialize(tx)
      BY <2>1 DEF Posted
    <3>6. bare(sent) = sent
      <4>1. sent = [version |-> 1, txIn |-> WireIns(s), txOut |-> WireOuts, lockTime |-> 0]
        BY <2>0, <3>2, AsMsgTxIs
      <4> QED
        BY <4>1, NothingToBare
    <3> QED
      BY <3>2, <3>4, <3>5, <3>6
  <2>2. CASE segwit
    <3> DEFINE s == [i \in Inputs |-> msgTx.txIn[i].signatureScript]
               w == [i \in Inputs |-> msgTx.txIn[i].witness]
               t == BuiltAs(2, s)
    <3>1. msgTx = Wired(Unsigned, s, w) /\ sent = msgTx
      BY <2>2 DEF IInv, IsWired, sent
    <3>2. \A i \in Inputs : s[i] \in Script
      BY <3>1 DEF ScriptsFit
    <3>3. posted = WireBytes(msgTx)
      BY <2>2 DEF Posted
    <3> HIDE DEF s, w
    <3>4. bare(sent) = asMsgTx(t) /\ posted = WireBytes(asMsgTx(t))
      BY <2>0, <3>1, <3>3, WiredIs
    <3>5. Serialize(t) = WireBytes(asMsgTx(t)) /\ ParseTx(Serialize(t)) = t
      BY <2>0, <3>2, WritersAgree, TransactionReadsBack
    <3> HIDE DEF t
    <3> QED
      BY <2>2, <3>4, <3>5
  <2> QED
    BY <2>1, <2>2
<1> QED
  BY <1>1, InvariantHolds, PostedHolds, PTL
==============================================================================
