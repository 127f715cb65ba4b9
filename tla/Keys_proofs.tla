----------------------------- MODULE Keys_proofs -----------------------------
(***************************************************************************)
(* For every number of addresses, every network and every list of words:   *)
(* a wallet that is created has the addresses that BIP44 and BIP84 name,   *)
(* each of them once. And for every entropy and every width of bytes,      *)
(* words and accumulator: the words are its bits, by the arithmetic of     *)
(* Powers.                                                                 *)
(***************************************************************************)
EXTENDS Keys, Powers, SequenceTheorems

(***************************************************************************)
(* The n bits of a, from the top, are those of the entropy and the hash    *)
(* from the position p on.                                                 *)
(***************************************************************************)
spells(a, n, p) == \A j \in 0 .. n - 1 : (a \div 2 ^ (n - 1 - j)) % 2 = bit(p + j)

(* A byte appended to what was taken. *)
LEMMA SpellsByte ==
  ASSUME NEW a \in Nat, NEW n \in Nat, NEW p \in Nat, NEW t \in Nat,
         t * ByteBits = p + n, data[t + 1] \in Byte, spells(a, n, p),
         NEW x, x = a * 2 ^ ByteBits + data[t + 1], NEW m, m = n + ByteBits
  PROVE  spells(x, m, p)
<1> DEFINE d == data[t + 1]
<1>0. /\ ByteBits \in Nat /\ ByteBits > 0 /\ 2 ^ ByteBits \in Nat
      /\ d \in Nat /\ d < 2 ^ ByteBits
  <2>1. ByteBits \in Nat /\ ByteBits > 0
    BY WidthsAssumption
  <2>2. 2 ^ ByteBits \in Nat
    BY <2>1, PowerOfSubsets
  <2> QED
    BY <2>1, <2>2 DEF Byte
<1> SUFFICES ASSUME NEW j \in 0 .. m - 1 PROVE (x \div 2 ^ (m - 1 - j)) % 2 = bit(p + j)
  BY DEF spells
<1> HIDE DEF d
<1>3. x \in Nat /\ x \div 2 ^ ByteBits = a /\ x % 2 ^ ByteBits = d
  <2>1. x = 2 ^ ByteBits * a + d
    BY <1>0 DEF d
  <2> QED
    BY <1>0, <2>1, DivisionIs
<1>4. \A k \in Nat : (x \div 2 ^ ByteBits) \div 2 ^ k = x \div 2 ^ (ByteBits + k)
  <2>1. x \in Nat /\ ByteBits \in Nat
    BY <1>0, <1>3
  <2> QED
    BY ONLY <2>1, ShiftTwice
<1>5. \A k \in Nat : k < ByteBits =>
        ((x % 2 ^ ByteBits) \div 2 ^ k) % 2 = (x \div 2 ^ k) % 2
  <2>1. x \in Nat /\ ByteBits \in Nat
    BY <1>0, <1>3
  <2> QED
    BY ONLY <2>1, LastBits
<1>1. CASE j < n
  <2>1. n - 1 - j \in Nat /\ m - 1 - j = ByteBits + (n - 1 - j) /\ j \in 0 .. n - 1
    BY <1>0, <1>1
  <2>2. x \div 2 ^ (ByteBits + (n - 1 - j)) = a \div 2 ^ (n - 1 - j)
    BY <1>3, <1>4, <2>1
  <2>3. (a \div 2 ^ (n - 1 - j)) % 2 = bit(p + j)
    BY <2>1 DEF spells
  <2> QED
    BY <2>1, <2>2, <2>3
<1>2. CASE j >= n
  <2> DEFINE i == j - n
  <2>1. /\ i \in Nat /\ i < ByteBits /\ ByteBits - 1 - i \in Nat /\ ByteBits - 1 - i < ByteBits
        /\ m - 1 - j = ByteBits - 1 - i
        /\ p + j = (p + n) + i
    BY <1>0, <1>2
  <2> HIDE DEF i
  <2>2. (x \div 2 ^ (ByteBits - 1 - i)) % 2 = (d \div 2 ^ (ByteBits - 1 - i)) % 2
    BY <1>3, <1>5, <2>1
  <2>3. (p + j) \div ByteBits = t /\ (p + j) % ByteBits = i
    <3>1. p + j = ByteBits * t + i /\ p + j \in Nat
      BY <1>0, <2>1
    <3> QED
      BY <1>0, <2>1, <3>1, DivisionIs
  <2>4. bit(p + j) = (d \div 2 ^ (ByteBits - 1 - i)) % 2
    BY <2>3 DEF bit, d
  <2> QED
    BY <2>1, <2>2, <2>4
<1> QED
  BY <1>0, <1>1, <1>2

(* The word that is cut from the top. *)
LEMMA SpellsWord ==
  ASSUME NEW a \in Nat, NEW n \in Nat, n >= WordBits, NEW p \in Nat,
         a < 2 ^ n, spells(a, n, p)
  PROVE  LET w == (a \div 2 ^ (n - WordBits)) % 2 ^ WordBits
         IN  w \in 0 .. 2 ^ WordBits - 1 /\ spells(w, WordBits, p)
<1> DEFINE m == n - WordBits
           w == a \div 2 ^ m
<1>0. WordBits \in Nat /\ m \in Nat /\ n = m + WordBits
  BY WidthsAssumption
<1>1. 2 ^ m \in Nat /\ 2 ^ m > 0 /\ 2 ^ WordBits \in Nat /\ 2 ^ WordBits > 0
  BY <1>0, PowerOfSubsets
<1>2. 2 ^ n = 2 ^ m * 2 ^ WordBits
  BY <1>0, PowerSum
<1> HIDE DEF m
<1>3. w \in Nat /\ a = 2 ^ m * w + (a % 2 ^ m) /\ a % 2 ^ m \in Nat
  BY <1>1, Quotient
<1> HIDE DEF w
<1>4. w < 2 ^ WordBits
  <2>1. \A u, v, z \in Nat : u >= v => z * u >= z * v
    OBVIOUS
  <2>2. w >= 2 ^ WordBits => 2 ^ m * w >= 2 ^ n
    BY <1>1, <1>2, <1>3, <2>1
  <2>3. 2 ^ m * w <= a /\ 2 ^ m * w \in Nat /\ 2 ^ n \in Nat
    BY <1>1, <1>2, <1>3
  <2> QED
    BY <1>1, <1>3, <2>2, <2>3
<1>5. w % 2 ^ WordBits = w
  <2>1. w = 2 ^ WordBits * 0 + w
    BY <1>1, <1>3
  <2> QED
    BY <1>1, <1>3, <1>4, <2>1, DivisionIs
<1>6. ASSUME NEW j \in 0 .. WordBits - 1
      PROVE  (w \div 2 ^ (WordBits - 1 - j)) % 2 = bit(p + j)
  <2>1. WordBits - 1 - j \in Nat /\ m + (WordBits - 1 - j) = n - 1 - j /\ j \in 0 .. n - 1
    BY <1>0
  <2>2. w \div 2 ^ (WordBits - 1 - j) = a \div 2 ^ (n - 1 - j)
    BY <1>0, <2>1, ShiftTwice DEF w
  <2> QED
    BY <2>1, <2>2 DEF spells
<1>7. w \in 0 .. 2 ^ WordBits - 1 /\ spells(w, WordBits, p)
  BY <1>1, <1>3, <1>4, <1>6 DEF spells
<1> QED
  BY <1>5, <1>7 DEF w, m

(* What is left below it. *)
LEMMA SpellsRest ==
  ASSUME NEW a \in Nat, NEW n \in Nat, n >= WordBits, NEW p \in Nat, spells(a, n, p)
  PROVE  LET r == a % 2 ^ (n - WordBits)
         IN  /\ r \in Nat /\ r < 2 ^ (n - WordBits)
             /\ spells(r, n - WordBits, p + WordBits)
<1> DEFINE m == n - WordBits
           r == a % 2 ^ m
<1>0. WordBits \in Nat /\ m \in Nat /\ n = m + WordBits
  BY WidthsAssumption
<1>1. 2 ^ m \in Nat /\ 2 ^ m > 0
  BY <1>0, PowerOfSubsets
<1> HIDE DEF m
<1>2. r \in Nat /\ r < 2 ^ m
  BY <1>1, Quotient
<1>3. \A k \in Nat : k < m => ((a % 2 ^ m) \div 2 ^ k) % 2 = (a \div 2 ^ k) % 2
  <2>1. a \in Nat /\ m \in Nat
    BY <1>0
  <2> QED
    BY ONLY <2>1, LastBits
<1> HIDE DEF r
<1>4. ASSUME NEW j \in 0 .. m - 1
      PROVE  (r \div 2 ^ (m - 1 - j)) % 2 = bit((p + WordBits) + j)
  <2>1. /\ m - 1 - j \in Nat /\ m - 1 - j < m
        /\ n - 1 - (WordBits + j) = m - 1 - j /\ WordBits + j \in 0 .. n - 1
        /\ p + (WordBits + j) = (p + WordBits) + j
    BY <1>0
  <2>2. (a \div 2 ^ (m - 1 - j)) % 2 = (r \div 2 ^ (m - 1 - j)) % 2
    <3> DEFINE i == m - 1 - j
    <3>1. i \in Nat /\ i < m
      BY <2>1
    <3> HIDE DEF i
    <3> QED
      BY <1>3, <3>1 DEF r, i
  <2>3. (a \div 2 ^ (n - 1 - (WordBits + j))) % 2 = bit(p + (WordBits + j))
    BY <2>1 DEF spells
  <2> QED
    BY <2>1, <2>2, <2>3
<1>5. spells(r, m, p + WordBits)
  BY <1>4 DEF spells
<1> QED
  BY <1>2, <1>5 DEF m, r
------------------------------------------------------------------------------
(***************************************************************************)
(* The inductive invariant of the words: the bytes taken are the words and *)
(* then what acc holds, none is lost and none counted twice. So acc never  *)
(* has more bits than fit it, and when the bytes are at an end what is     *)
(* left is less than a word.                                               *)
(***************************************************************************)
MnemonicOK ==
  /\ pc \in {"bytes", "words", "deriving", "created", "failed"}
  /\ data \in [1 .. EntropyBytes + 1 -> Byte] /\ taken \in 0 .. EntropyBytes + 1
  /\ words \in Seq(0 .. 2 ^ WordBits - 1) /\ Len(words) <= Words
  /\ bits \in 0 .. WordBits + ByteBits - 1
  /\ acc \in Nat /\ acc < 2 ^ bits
  /\ taken * ByteBits = Len(words) * WordBits + bits
  /\ spells(acc, bits, Len(words) * WordBits)
  /\ \A k \in 1 .. Len(words) : spells(words[k], WordBits, (k - 1) * WordBits)
  /\ pc = "bytes" => bits < WordBits \/ Len(words) = Words
  /\ pc \in {"deriving", "created"} => Len(words) = Words

(* The widths are positive numbers. *)
LEMMA Widths ==
  /\ ByteBits \in Nat /\ ByteBits > 0 /\ WordBits \in Nat /\ WordBits > 0
  /\ AccBits \in Nat /\ EntropyBytes \in Nat /\ Words \in Nat
  /\ Words * WordBits <= (EntropyBytes + 1) * ByteBits
  /\ WordBits + ByteBits <= AccBits + 1
BY WidthsAssumption

(* The entropy and a byte of its hash. *)
LEMMA DataLength ==
  ASSUME data \in [1 .. EntropyBytes + 1 -> Byte]
  PROVE  Len(data) = EntropyBytes + 1
<1>1. data \in Seq(Byte) /\ DOMAIN data = 1 .. EntropyBytes + 1
  BY Widths, SeqDef
<1>2. DOMAIN data = 1 .. Len(data) /\ Len(data) \in Nat
  BY <1>1, LenProperties
<1> QED
  BY <1>1, <1>2, Widths

(* Nothing is taken yet. *)
LEMMA InitMnemonic == Init => MnemonicOK
<1> SUFFICES ASSUME Init PROVE MnemonicOK
  OBVIOUS
<1>1. /\ data \in [1 .. EntropyBytes + 1 -> Byte] /\ pc = "bytes"
      /\ taken = 0 /\ acc = 0 /\ bits = 0 /\ words = <<>>
  BY DEF Init
<1>2. words \in Seq(0 .. 2 ^ WordBits - 1) /\ Len(words) = 0
  BY <1>1
<1>3. 2 ^ 0 = 1
  OBVIOUS
<1>4. acc \in Nat /\ acc < 2 ^ bits
  BY <1>1, <1>3
<1>5. spells(acc, bits, Len(words) * WordBits)
  BY <1>1 DEF spells
<1>6. taken * ByteBits = Len(words) * WordBits + bits
  BY <1>1, <1>2, Widths
<1> QED
  BY <1>1, <1>2, <1>4, <1>5, <1>6, Widths DEF MnemonicOK

(* A byte is taken: it fits what acc has room for. *)
LEMMA TakeByteMnemonic == MnemonicOK /\ TakeByte => MnemonicOK'
<1> SUFFICES ASSUME MnemonicOK, TakeByte PROVE MnemonicOK'
  OBVIOUS
<1> DEFINE x == acc * 2 ^ ByteBits + data[taken + 1]
           p == Len(words) * WordBits
<1>1. /\ pc = "bytes" /\ pc' = "words" /\ taken < Len(data) /\ Len(words) < Words
      /\ acc' = x % 2 ^ AccBits
      /\ bits' = bits + ByteBits /\ taken' = taken + 1
      /\ data' = data /\ words' = words
  BY DEF TakeByte
<1>2. /\ data \in [1 .. EntropyBytes + 1 -> Byte] /\ taken \in 0 .. EntropyBytes + 1
      /\ words \in Seq(0 .. 2 ^ WordBits - 1) /\ Len(words) \in Nat
      /\ bits \in Nat /\ bits < WordBits
      /\ acc \in Nat /\ acc < 2 ^ bits
      /\ taken * ByteBits = p + bits
      /\ spells(acc, bits, p)
  BY <1>1 DEF MnemonicOK
<1>3. taken + 1 \in 1 .. EntropyBytes + 1 /\ data[taken + 1] \in Byte
  <2>1. Len(data) = EntropyBytes + 1
    BY <1>2, DataLength
  <2>2. taken + 1 \in 1 .. EntropyBytes + 1
    BY <1>1, <1>2, <2>1, Widths
  <2> QED
    BY <1>2, <2>2
<1>4. /\ 2 ^ ByteBits \in Nat /\ 2 ^ bits \in Nat /\ 2 ^ AccBits \in Nat
      /\ data[taken + 1] \in Nat /\ data[taken + 1] < 2 ^ ByteBits
  <2>1. \A n \in Nat : 2 ^ n \in Nat
    BY PowerOfSubsets
  <2>2. 2 ^ ByteBits \in Nat /\ 2 ^ bits \in Nat /\ 2 ^ AccBits \in Nat
    BY <1>2, <2>1, Widths
  <2> QED
    BY <1>3, <2>2 DEF Byte
<1>5. x \in Nat /\ x < 2 ^ (bits + ByteBits)
  <2>1. 2 ^ (bits + ByteBits) = 2 ^ bits * 2 ^ ByteBits
    BY <1>2, Widths, PowerSum
  <2>2. \A u, v, w, d \in Nat : u < v /\ d < w => u * w + d < v * w
    <3> TAKE u, v, w, d \in Nat
    <3> HAVE u < v /\ d < w
    <3>1. (u + 1) * w <= v * w
      OBVIOUS
    <3>2. (u + 1) * w = u * w + w
      OBVIOUS
    <3> QED
      BY <3>1, <3>2
  <2>3. x < 2 ^ bits * 2 ^ ByteBits
    BY <1>2, <1>4, <2>2
  <2>4. x \in Nat
    <3>1. \A u, w, d \in Nat : u * w + d \in Nat
      OBVIOUS
    <3> QED
      BY <1>2, <1>4, <3>1
  <2> QED
    BY <2>1, <2>3, <2>4
<1> HIDE DEF x
<1>6. acc' = x
  <2> DEFINE n == bits + ByteBits
  <2>1. n \in Nat /\ n <= AccBits /\ AccBits \in Nat
    BY <1>2, Widths
  <2> HIDE DEF n
  <2>2. 2 ^ n <= 2 ^ AccBits /\ 2 ^ n \in Nat
    BY <2>1, PowerGrows, PowerOfSubsets
  <2>3. x < 2 ^ n
    BY <1>5 DEF n
  <2>4. x < 2 ^ AccBits /\ 2 ^ AccBits > 0
    BY <1>4, <1>5, <2>2, <2>3
  <2>5. x = 2 ^ AccBits * 0 + x
    BY <1>4, <1>5
  <2>6. x % 2 ^ AccBits = x
    BY <1>4, <1>5, <2>4, <2>5, DivisionIs
  <2> QED
    BY <1>1, <2>6
<1>7. spells(x, bits + ByteBits, p)
  <2>1. p \in Nat
    BY <1>2, Widths
  <2>2. x = acc * 2 ^ ByteBits + data[taken + 1]
    BY DEF x
  <2> HIDE DEF p
  <2> QED
    BY <1>2, <1>3, <2>1, <2>2, SpellsByte
<1>8. spells(acc, bits, Len(words) * WordBits)'
  <2> HIDE DEF p
  <2> QED
    BY <1>1, <1>6, <1>7 DEF spells, bit, p
<1>9. \A k \in 1 .. Len(words') : spells(words[k], WordBits, (k - 1) * WordBits)'
  BY <1>1 DEF MnemonicOK, spells, bit
<1>10. taken' * ByteBits = Len(words') * WordBits + bits'
  <2>1. (taken + 1) * ByteBits = taken * ByteBits + ByteBits
    BY <1>2, Widths
  <2>2. p \in Nat /\ taken * ByteBits \in Nat
    BY <1>2, Widths
  <2>3. Len(words') * WordBits = p
    BY <1>1
  <2> HIDE DEF p
  <2>4. taken * ByteBits + ByteBits = p + (bits + ByteBits)
    BY ONLY <1>2, <2>2, Widths
  <2>5. taken' * ByteBits = p + bits'
    BY <1>1, <2>1, <2>4
  <2> QED
    BY <2>3, <2>5
<1>11. /\ acc' \in Nat /\ acc' < 2 ^ bits'
       /\ bits' \in 0 .. WordBits + ByteBits - 1 /\ taken' \in 0 .. EntropyBytes + 1
  BY SMTT(30), <1>1, <1>2, <1>3, <1>5, <1>6, Widths
<1> HIDE DEF p
<1> QED
  BY <1>1, <1>2, <1>8, <1>9, <1>10, <1>11 DEF MnemonicOK

(* A word is cut from the top of acc. *)
LEMMA CutWordMnemonic == MnemonicOK /\ CutWord => MnemonicOK'
<1> SUFFICES ASSUME MnemonicOK, CutWord PROVE MnemonicOK'
  OBVIOUS
<1> DEFINE m == bits - WordBits
           w == (acc \div 2 ^ (bits - WordBits)) % 2 ^ WordBits
           p == Len(words) * WordBits
<1>1. /\ pc = "words" /\ pc' = "words" /\ bits >= WordBits /\ Len(words) < Words
      /\ words' = Append(words, w) /\ bits' = m
      /\ acc' = (IF m = 0 THEN 0 ELSE acc % 2 ^ m)
      /\ data' = data /\ taken' = taken
  BY DEF CutWord
<1>2. /\ words \in Seq(0 .. 2 ^ WordBits - 1) /\ Len(words) \in Nat
      /\ bits \in 0 .. WordBits + ByteBits - 1 /\ bits \in Nat
      /\ acc \in Nat /\ acc < 2 ^ bits
      /\ taken * ByteBits = p + bits
      /\ spells(acc, bits, p)
  BY Widths DEF MnemonicOK
<1>3. m \in Nat /\ p \in Nat
  BY <1>1, <1>2, Widths
<1> HIDE DEF p
<1>4. w \in 0 .. 2 ^ WordBits - 1 /\ spells(w, WordBits, p)
  BY <1>1, <1>2, <1>3, SpellsWord
<1>5. acc' = acc % 2 ^ m
  <2>1. CASE m = 0
    <3>1. 2 ^ m = 1
      <4>1. 2 ^ 0 = 1
        OBVIOUS
      <4> QED
        BY <2>1, <4>1
    <3>2. acc % 1 = 0
      BY <1>2
    <3> QED
      BY <1>1, <2>1, <3>1, <3>2
  <2> QED
    BY <1>1, <2>1
<1>6. acc' \in Nat /\ acc' < 2 ^ m /\ spells(acc % 2 ^ m, m, p + WordBits)
  BY <1>1, <1>2, <1>3, <1>5, SpellsRest
<1> HIDE DEF w
<1>7. /\ words' \in Seq(0 .. 2 ^ WordBits - 1) /\ Len(words') = Len(words) + 1
      /\ \A k \in 1 .. Len(words) : words'[k] = words[k]
      /\ words'[Len(words) + 1] = w
  BY <1>1, <1>2, <1>4, AppendProperties
<1>8. (Len(words) + 1) * WordBits = p + WordBits /\ (Len(words) + 1 - 1) * WordBits = p
  BY <1>2, Widths DEF p
<1>9. spells(acc, bits, Len(words) * WordBits)'
  <2> HIDE DEF m
  <2> QED
    BY <1>1, <1>5, <1>6, <1>7, <1>8 DEF spells, bit
<1>10. ASSUME NEW k \in 1 .. Len(words')
       PROVE  spells(words[k], WordBits, (k - 1) * WordBits)'
  <2>1. CASE k \in 1 .. Len(words)
    <3>1. spells(words[k], WordBits, (k - 1) * WordBits) /\ words'[k] = words[k]
      BY <1>7, <2>1 DEF MnemonicOK
    <3> QED
      BY <1>1, <3>1 DEF spells, bit
  <2>2. CASE k = Len(words) + 1
    <3>1. words'[k] = w /\ (k - 1) * WordBits = p
      BY <1>7, <1>8, <2>2
    <3> QED
      BY <1>1, <1>4, <3>1 DEF spells, bit
  <2> QED
    BY <1>2, <1>7, <2>1, <2>2
<1>11. taken' * ByteBits = Len(words') * WordBits + bits'
  <2>1. Len(words') * WordBits = p + WordBits
    BY <1>7, <1>8
  <2>2. p + bits = (p + WordBits) + (bits - WordBits)
    BY <1>2, <1>3, Widths
  <2> QED
    BY <1>1, <1>2, <2>1, <2>2
<1>12. bits' \in 0 .. WordBits + ByteBits - 1 /\ acc' < 2 ^ bits'
  BY <1>1, <1>2, <1>3, <1>6, Widths
<1>13. Len(words') <= Words
  BY <1>1, <1>2, <1>7, Widths
<1>14. data' \in [1 .. EntropyBytes + 1 -> Byte] /\ taken' \in 0 .. EntropyBytes + 1
  BY <1>1 DEF MnemonicOK
<1>15. pc' = "words" /\ acc' \in Nat
  BY <1>1, <1>6
<1> HIDE DEF m
<1> QED
  BY <1>7, <1>9, <1>10, <1>11, <1>12, <1>13, <1>14, <1>15 DEF MnemonicOK

(* The words, their bits and where they stand do not change. *)
LEMMA SameMnemonic ==
  ASSUME MnemonicOK, UNCHANGED mnemonicVars,
         pc' \in {"bytes", "words", "deriving", "created", "failed"},
         pc' = "bytes" => bits < WordBits \/ Len(words) = Words,
         pc' \in {"deriving", "created"} => Len(words) = Words
  PROVE  MnemonicOK'
<1>1. data' = data /\ taken' = taken /\ acc' = acc /\ bits' = bits /\ words' = words
  BY DEF mnemonicVars
<1>2. spells(acc, bits, Len(words) * WordBits)'
  BY <1>1 DEF MnemonicOK, spells, bit
<1>3. \A k \in 1 .. Len(words') : spells(words[k], WordBits, (k - 1) * WordBits)'
  BY <1>1 DEF MnemonicOK, spells, bit
<1> QED
  BY <1>1, <1>2, <1>3 DEF MnemonicOK

(* Every step keeps the bits in their order. *)
LEMMA NextMnemonic == MnemonicOK /\ [Next]_vars => MnemonicOK'
<1> SUFFICES ASSUME MnemonicOK, [Next]_vars PROVE MnemonicOK'
  OBVIOUS
<1>1. CASE TakeByte
  BY <1>1, TakeByteMnemonic
<1>2. CASE CutWord
  BY <1>2, CutWordMnemonic
<1>3. CASE NoMoreWords
  <2>1. /\ pc' = "bytes" /\ UNCHANGED mnemonicVars
        /\ bits < WordBits \/ Len(words) = Words
    BY <1>3 DEF NoMoreWords
  <2> QED
    BY <2>1, SameMnemonic
<1>4. CASE NewMasterKey
  <2>1. /\ pc = "bytes" /\ (taken = Len(data) \/ Len(words) = Words)
        /\ pc' \in {"deriving", "failed"} /\ UNCHANGED mnemonicVars
    BY <1>4 DEF NewMasterKey
  <2>2. Len(words) = Words
    <3> SUFFICES ASSUME Len(words) # Words PROVE FALSE
      OBVIOUS
    <3>1. /\ Len(words) \in Nat /\ Len(words) < Words /\ bits \in Nat /\ bits < WordBits
          /\ taken * ByteBits = Len(words) * WordBits + bits
      BY <1>4, Widths DEF MnemonicOK, NewMasterKey
    <3>2. taken = EntropyBytes + 1
      BY <1>4, <2>1, <3>1, DataLength DEF MnemonicOK
    <3>3. (Len(words) + 1) * WordBits <= Words * WordBits
      <4>1. \A i, j, k \in Nat : i <= j => i * k <= j * k
        OBVIOUS
      <4>2. Len(words) + 1 \in Nat /\ Len(words) + 1 <= Words
        BY <3>1, Widths
      <4> QED
        BY <4>1, <4>2, Widths
    <3>4. (Len(words) + 1) * WordBits = Len(words) * WordBits + WordBits
      BY <3>1, Widths
    <3>5. /\ Len(words) * WordBits \in Nat /\ Words * WordBits \in Nat
          /\ (EntropyBytes + 1) * ByteBits \in Nat
      BY <3>1, Widths
    <3>6. (EntropyBytes + 1) * ByteBits = Len(words) * WordBits + bits
      BY <3>1, <3>2
    <3> QED
      BY ONLY <3>1, <3>3, <3>4, <3>5, <3>6, Widths
  <2> QED
    BY <2>1, <2>2, SameMnemonic
<1>5. CASE DeriveAddress
  <2>1. /\ pc = "deriving" /\ pc' \in {"deriving", "failed"} /\ UNCHANGED mnemonicVars
    BY <1>5 DEF DeriveAddress
  <2> QED
    BY <2>1, SameMnemonic DEF MnemonicOK
<1>6. CASE NextLoop \/ Save
  <2>1. /\ pc = "deriving" /\ pc' \in {"deriving", "created"} /\ UNCHANGED mnemonicVars
    BY <1>6 DEF NextLoop, Save
  <2> QED
    BY <2>1, SameMnemonic DEF MnemonicOK
<1>7. CASE UNCHANGED vars
  <2>1. pc' = pc /\ UNCHANGED mnemonicVars
    BY <1>7 DEF vars, mnemonicVars
  <2> QED
    BY <2>1, SameMnemonic DEF MnemonicOK
<1> QED
  BY <1>1, <1>2, <1>3, <1>4, <1>5, <1>6, <1>7 DEF Next, Ended

(* So they always are. *)
LEMMA MnemonicHolds == Spec => []MnemonicOK
BY InitMnemonic, NextMnemonic, PTL DEF Spec

(***************************************************************************)
(* For every width of bytes, words and accumulator that fit each other:    *)
(* the words are the bits of entropy and checksum, in their order and      *)
(* without a gap, and no key is derived from fewer than all of them        *)
(* (GenerateMnemonicEnt128).                                               *)
(***************************************************************************)
THEOREM WordsAreTheBits == Spec => []WordsAreBits
<1>1. MnemonicOK => WordsAreBits
  <2> SUFFICES ASSUME MnemonicOK PROVE WordsAreBits
    OBVIOUS
  <2>1. words \in Seq(0 .. 2 ^ WordBits - 1) /\ DOMAIN words = 1 .. Len(words)
    BY DEF MnemonicOK
  <2>2. \A k \in DOMAIN words : words[k] \in 0 .. 2 ^ WordBits - 1
    BY <2>1, ElementOfSeq
  <2>3. \A k \in DOMAIN words : \A j \in 0 .. WordBits - 1 :
          (words[k] \div 2 ^ (WordBits - 1 - j)) % 2 = bit((k - 1) * WordBits + j)
    BY <2>1 DEF MnemonicOK, spells
  <2> QED
    BY <2>2, <2>3 DEF MnemonicOK, WordsAreBits
<1> QED
  BY <1>1, MnemonicHolds, PTL

------------------------------------------------------------------------------
(***************************************************************************)
(* The inductive invariant: a map has the addresses of the iterations that *)
(* its loop has done, as they are derived from the words there are now.    *)
(***************************************************************************)
done(k) == IF k < loop THEN Num[Loops[k].map] ELSE IF k = loop THEN index ELSE 0

MapsFilled ==
  \A k \in 1 .. 4 :
    /\ DOMAIN wallet[Loops[k].map] = {address(Loops[k], i) : i \in 0 .. done(k) - 1}
    /\ \A i \in 0 .. done(k) - 1 : wallet[Loops[k].map][address(Loops[k], i)] = entry(Loops[k], i)

LoopOK == /\ loop \in 1 .. 5 /\ index \in Nat
          /\ loop <= 4 => index <= Num[Loops[loop].map]
          /\ pc \in {"bytes", "words"} => loop = 1 /\ index = 0
          /\ pc = "created" => loop = 5
          /\ DOMAIN wallet = Maps
          /\ testnet \in BOOLEAN

IInv == LoopOK /\ MapsFilled
------------------------------------------------------------------------------
(* The four loops, spelt out. *)
LEMMA LoopsAre ==
  /\ Loops[1].map = "ReceiversLegacy" /\ Loops[2].map = "ReceiversSegwit"
  /\ Loops[3].map = "ChangeLegacy" /\ Loops[4].map = "ChangeSegwit"
  /\ Loops[1].kind = "legacy" /\ Loops[2].kind = "segwit"
  /\ Loops[3].kind = "legacy" /\ Loops[4].kind = "segwit"
  /\ Loops[1].chain = "external" /\ Loops[2].chain = "external"
  /\ Loops[3].chain = "change" /\ Loops[4].chain = "change"
  /\ Len(Loops) = 4
  /\ Maps = {Loops[1].map, Loops[2].map, Loops[3].map, Loops[4].map}
  BY DEF Loops, Maps

(* Each loop has a number of addresses to derive. *)
LEMMA NumIs == \A k \in 1 .. 4 : Num[Loops[k].map] \in Nat
  BY NumAssumption, WidthsAssumption, LoopsAre

(* A path has five numbers, of which the last tells the address. *)
LEMMA PathIs ==
  ASSUME NEW k \in 1 .. 4, NEW i \in Nat
  PROVE  /\ path(Loops[k], i) = <<purpose(Loops[k].kind), coinType, 0 + HardenedOffset,
                           changeIndex(Loops[k].chain), i>>
         /\ path(Loops[k], i) \in Seq(Nat) /\ Len(path(Loops[k], i)) = 5
         /\ path(Loops[k], i)[1] = purpose(Loops[k].kind)
         /\ path(Loops[k], i)[4] = changeIndex(Loops[k].chain)
         /\ path(Loops[k], i)[5] = i
  BY WidthsAssumption DEF path, BuildPath, purpose, coinType, changeIndex

(* A key is derived along its path, step by step. *)
LEMMA KeyTellsPath ==
  ASSUME NEW k \in 1 .. 4, NEW i \in Nat
  PROVE  \A n \in 1 .. 5 : key(Loops[k], i).path[n].number = path(Loops[k], i)[n]
<1> DEFINE p == path(Loops[k], i)
           S == [from : {"private", "public"}, number : Nat]
           steps == [n \in 1 .. 5 |-> DeriveChild(p[n])]
<1>1. p \in Seq(Nat) /\ Len(p) = 5 /\ DOMAIN p = 1 .. 5
  <2>1. p \in Seq(Nat) /\ Len(p) = 5
    BY PathIs
  <2> HIDE DEF p
  <2>2. QED
    BY <2>1
<1>2. key(Loops[k], i).path = <<>> \o steps
  BY <1>1 DEF key, DeriveKeyPath, Node
<1> HIDE DEF p
<1>3. \A n \in 1 .. 5 : p[n] \in Nat
  BY <1>1, ElementOfSeq
<1>4. \A n \in 1 .. 5 : DeriveChild(p[n]) \in S
  BY <1>3 DEF DeriveChild
<1>5. steps \in Seq(S)
  <2> HIDE DEF S
  <2>1. steps \in [1 .. 5 -> S]
    BY <1>4
  <2> HIDE DEF steps
  <2>2. \E n \in Nat : steps \in [1 .. n -> S]
    BY <2>1
  <2>3. QED
    BY <2>2, SeqDef, Zenon
<1>6. key(Loops[k], i).path = steps
  <2> HIDE DEF S, steps
  <2>1. QED
    BY <1>2, <1>5, ConcatEmptySeq
<1>7. \A n \in 1 .. 5 : key(Loops[k], i).path[n].number = p[n]
  BY <1>6 DEF DeriveChild
<1>8. QED
  BY <1>7 DEF p

(* No key is derived twice. *)
LEMMA KeyTellsAddress ==
  ASSUME NEW k \in 1 .. 4, NEW i \in Nat, NEW l \in 1 .. 4, NEW j \in Nat,
         key(Loops[k], i) = key(Loops[l], j)
  PROVE  k = l /\ i = j
<1> DEFINE agree(n) == path(Loops[k], i)[n] = path(Loops[l], j)[n]
<1>1. agree(1) /\ agree(4) /\ agree(5)
  <2>1. ASSUME NEW n \in 1 .. 5 PROVE agree(n)
    <3>1. key(Loops[k], i).path[n].number = path(Loops[k], i)[n]
      BY KeyTellsPath
    <3>2. key(Loops[l], j).path[n].number = path(Loops[l], j)[n]
      BY KeyTellsPath
    <3>3. QED
      BY <3>1, <3>2
  <2> HIDE DEF agree
  <2>2. QED
    BY <2>1
<1>2. /\ path(Loops[k], i)[1] = purpose(Loops[k].kind)
      /\ path(Loops[k], i)[4] = changeIndex(Loops[k].chain)
      /\ path(Loops[k], i)[5] = i
      /\ path(Loops[l], j)[1] = purpose(Loops[l].kind)
      /\ path(Loops[l], j)[4] = changeIndex(Loops[l].chain)
      /\ path(Loops[l], j)[5] = j
  BY PathIs
<1>3. /\ purpose(Loops[k].kind) = purpose(Loops[l].kind)
      /\ changeIndex(Loops[k].chain) = changeIndex(Loops[l].chain)
      /\ i = j
  BY <1>1, <1>2
<1>4. Loops[k].kind = Loops[l].kind
  BY <1>3, LoopsAre, WidthsAssumption DEF purpose
<1>5. Loops[k].chain = Loops[l].chain
  BY <1>3, LoopsAre DEF changeIndex
<1>6. QED
  BY <1>3, <1>4, <1>5, LoopsAre
------------------------------------------------------------------------------
(* An address and its entry depend on the words and the network alone. *)
LEMMA References ==
  ASSUME UNCHANGED <<words, testnet>>
  PROVE  \A l, i : address(l, i)' = address(l, i) /\ entry(l, i)' = entry(l, i)
<1>1. \A l, i : path(l, i)' = path(l, i)
  BY DEF path, BuildPath, coinType
<1>2. \A l, i : key(l, i)' = key(l, i)
  BY <1>1 DEF key, Node
<1>3. QED
  BY <1>1, <1>2 DEF address, entry

(* A map that is not begun is empty, whatever the words. *)
LEMMA NothingDone ==
  ASSUME \A k \in 1 .. 4 : done(k) = 0
  PROVE  MapsFilled <=> \A k \in 1 .. 4 : DOMAIN wallet[Loops[k].map] = {}
<1>1. 0 .. 0 - 1 = {}
  OBVIOUS
<1>2. QED
  BY <1>1 DEF MapsFilled

(* No address is derived yet. *)
LEMMA InitInvariant == Init => IInv
<1> SUFFICES ASSUME Init PROVE IInv
  OBVIOUS
<1>1. LoopOK
  BY NumIs, LoopsAre DEF Init, LoopOK
<1>2. \A k \in 1 .. 4 : done(k) = 0
  BY DEF Init, done
<1>3. \A k \in 1 .. 4 : DOMAIN wallet[Loops[k].map] = {}
  BY LoopsAre DEF Init
<1>4. QED
  BY <1>1, <1>2, <1>3, NothingDone DEF IInv

(* A step that derives nothing keeps the maps. *)
LEMMA SameMaps ==
  ASSUME MapsFilled, UNCHANGED <<words, testnet, wallet>>,
         \A k \in 1 .. 4 : done(k)' = done(k)
  PROVE  MapsFilled'
  BY References DEF MapsFilled

(* Every step keeps the maps as far as their loops have come. *)
LEMMA NextInvariant == IInv /\ [Next]_vars => IInv'
<1> SUFFICES ASSUME IInv, [Next]_vars PROVE IInv'
  OBVIOUS
<1> USE DEF IInv
<1>1. CASE TakeByte \/ CutWord \/ NoMoreWords
  <2> USE <1>1 DEF TakeByte, CutWord, NoMoreWords, walletVars, mnemonicVars
  <2>1. /\ pc \in {"bytes", "words"} /\ pc' \in {"bytes", "words"}
        /\ UNCHANGED <<testnet, loop, index, wallet>>
    OBVIOUS
  <2>2. loop = 1 /\ index = 0
    BY <2>1 DEF LoopOK
  <2>3. LoopOK'
    BY <2>1, <2>2 DEF LoopOK
  <2>4. \A k \in 1 .. 4 : done(k) = 0 /\ done(k)' = 0
    BY <2>1, <2>2 DEF done
  <2>5. \A k \in 1 .. 4 : DOMAIN wallet[Loops[k].map] = {}
    BY <2>4, NothingDone
  <2>6. MapsFilled'
    <3>1. (0 .. 0 - 1) = {}
      OBVIOUS
    <3>2. QED
      BY <2>1, <2>4, <2>5, <3>1 DEF MapsFilled
  <2>7. QED
    BY <2>3, <2>6
<1>2. CASE NewMasterKey \/ Save \/ UNCHANGED vars
  <2> USE <1>2 DEF NewMasterKey, Save, vars, walletVars, mnemonicVars
  <2>1. UNCHANGED <<testnet, words, loop, index, wallet>>
    OBVIOUS
  <2>2. LoopOK'
    BY <2>1, LoopsAre DEF LoopOK
  <2>3. \A k \in 1 .. 4 : done(k)' = done(k)
    BY <2>1 DEF done
  <2>4. QED
    BY <2>1, <2>2, <2>3, SameMaps
<1>3. CASE NextLoop
  <2> USE <1>3 DEF NextLoop, mnemonicVars
  <2>1. /\ UNCHANGED <<testnet, words, pc, wallet>> /\ loop \in 1 .. 4
        /\ index = Num[Loops[loop].map] /\ loop' = loop + 1 /\ index' = 0
    BY LoopsAre DEF LoopOK
  <2>2. LoopOK'
    BY <2>1, NumIs, LoopsAre DEF LoopOK
  <2>3. \A k \in 1 .. 4 : done(k)' = done(k)
    BY <2>1 DEF done
  <2>4. QED
    BY <2>1, <2>2, <2>3, SameMaps
<1>4. CASE DeriveAddress
  <2>1. CASE UNCHANGED walletVars
    <3>1. UNCHANGED <<testnet, words, loop, index, wallet>> /\ pc' \in {pc, "failed"}
      BY <1>4, <2>1 DEF DeriveAddress, mnemonicVars, walletVars
    <3>2. LoopOK' /\ \A k \in 1 .. 4 : done(k)' = done(k)
      BY <3>1 DEF LoopOK, done
    <3>3. QED
      BY <3>1, <3>2, SameMaps
  <2>2. CASE /\ wallet' = [wallet EXCEPT ![Loops[loop].map] =
                             put(@, address(Loops[loop], index), entry(Loops[loop], index))]
             /\ index' = index + 1
             /\ UNCHANGED <<pc, loop>>
    <3> DEFINE m == Loops[loop].map
               a == address(Loops[loop], index)
               e == entry(Loops[loop], index)
    <3>1. /\ UNCHANGED <<testnet, words, pc, loop>> /\ loop \in 1 .. 4
          /\ index < Num[m] /\ index' = index + 1 /\ index \in Nat
          /\ m \in Maps /\ DOMAIN wallet = Maps
          /\ pc = "deriving"
      BY <1>4, <2>2, LoopsAre DEF DeriveAddress, mnemonicVars, LoopOK
    <3>2. LoopOK'
      BY <2>2, <3>1, NumIs DEF LoopOK
    <3>3. /\ wallet'[m] = put(wallet[m], a, e)
          /\ \A n \in Maps \ {m} : wallet'[n] = wallet[n]
      BY <2>2, <3>1
    <3>0. /\ DOMAIN wallet'[m] = DOMAIN wallet[m] \cup {a}
          /\ wallet'[m][a] = e
          /\ \A b \in DOMAIN wallet[m] : b # a => wallet'[m][b] = wallet[m][b]
      <4> DEFINE f == wallet[m]
                 g == wallet'[m]
      <4>1. g = put(f, a, e)
        BY <3>3
      <4> HIDE DEF f, g, a, e
      <4>2. DOMAIN g = DOMAIN f \cup {a} /\ g[a] = e
        BY <4>1 DEF put
      <4>3. \A b \in DOMAIN f : b # a => g[b] = f[b]
        BY <4>1 DEF put
      <4>4. QED
        BY <4>2, <4>3 DEF f, g
    <3>4. ASSUME NEW k \in 1 .. 4
          PROVE  /\ DOMAIN wallet'[Loops[k].map] = {address(Loops[k], i) : i \in 0 .. done(k)' - 1}
                 /\ \A i \in 0 .. done(k)' - 1 :
                      wallet'[Loops[k].map][address(Loops[k], i)] = entry(Loops[k], i)
      <4>1. CASE k # loop
        <5>1. Loops[k].map # m /\ Loops[k].map \in Maps
          BY <4>1, <3>1, LoopsAre
        <5>2. done(k)' = done(k)
          BY <4>1, <3>1 DEF done
        <5>3. wallet'[Loops[k].map] = wallet[Loops[k].map]
          BY <5>1, <3>3
        <5>4. QED
          BY <5>2, <5>3 DEF MapsFilled
      <4>2. CASE k = loop
        <5>1. done(k) = index /\ done(k)' = index + 1
          BY <4>2, <3>1 DEF done
        <5>2. /\ DOMAIN wallet[m] = {address(Loops[k], i) : i \in 0 .. index - 1}
              /\ \A i \in 0 .. index - 1 :
                   wallet[m][address(Loops[k], i)] = entry(Loops[k], i)
          BY <4>2, <5>1 DEF MapsFilled
        <5>3. DOMAIN wallet'[m] = DOMAIN wallet[m] \cup {a}
          BY <3>0
        <5>4. 0 .. index + 1 - 1 = (0 .. index - 1) \cup {index}
          BY <3>1
        <5>5. DOMAIN wallet'[m] = {address(Loops[k], i) : i \in 0 .. index + 1 - 1}
          BY <4>2, <5>2, <5>3, <5>4
        <5>6. ASSUME NEW i \in 0 .. index - 1
              PROVE  wallet'[m][address(Loops[k], i)] = entry(Loops[k], i)
          <6>1. i \in Nat /\ i # index
            BY <3>1
          <6>2. address(Loops[k], i) # a
            <7>1. key(Loops[k], i) # key(Loops[loop], index)
              BY <6>1, <3>1, KeyTellsAddress
            <7>2. QED
              BY <7>1 DEF address
          <6>3. QED
            BY <5>2, <6>2, <3>0
        <5>7. wallet'[m][a] = e
          BY <3>0
        <5>8. QED
          BY <4>2, <5>1, <5>4, <5>5, <5>6, <5>7
      <4>3. QED
        BY <4>1, <4>2
    <3>5. MapsFilled'
      BY <3>1, <3>4, References DEF MapsFilled
    <3>6. QED
      BY <3>2, <3>5
  <2>3. QED
    BY <1>4, <2>1, <2>2 DEF DeriveAddress
<1>5. QED
  BY <1>1, <1>2, <1>3, <1>4 DEF Next, Ended

(* What is kept of an address. *)
LEMMA EntryFields ==
  ASSUME NEW l, NEW i
  PROVE  entry(l, i).SigningKey = key(l, i) /\ entry(l, i).Path = path(l, i)
  BY DEF entry

(* When the loops are over every address is there, once. *)
LEMMA InvariantImplies == IInv => EveryAddressOnce
<1> SUFFICES ASSUME IInv, pc = "created" PROVE EveryAddressOnce
  BY DEF EveryAddressOnce
<1> DEFINE found(m) == {wallet[m][a].Path : a \in DOMAIN wallet[m]}
           named(k) == {path(Loops[k], i) : i \in 0 .. Num[Loops[k].map] - 1}
<1>1. \A k \in 1 .. 4 : done(k) = Num[Loops[k].map]
  BY DEF IInv, LoopOK, done
<1>2. ASSUME NEW k \in 1 .. 4
      PROVE  /\ DOMAIN wallet[Loops[k].map]
                  = {address(Loops[k], i) : i \in 0 .. Num[Loops[k].map] - 1}
             /\ \A i \in 0 .. Num[Loops[k].map] - 1 :
                  wallet[Loops[k].map][address(Loops[k], i)] = entry(Loops[k], i)
  BY <1>1 DEF IInv, MapsFilled
<1>3. ASSUME NEW k \in 1 .. 4 PROVE found(Loops[k].map) = named(k)
  BY <1>2, EntryFields
<1>4. ASSUME NEW m \in Maps, NEW n \in Maps,
             NEW a \in DOMAIN wallet[m], NEW b \in DOMAIN wallet[n],
             wallet[m][a].SigningKey = wallet[n][b].SigningKey
      PROVE  m = n /\ a = b
  <2>1. PICK k \in 1 .. 4 : m = Loops[k].map
    BY LoopsAre
  <2>2. PICK l \in 1 .. 4 : n = Loops[l].map
    BY LoopsAre
  <2>3. PICK i \in 0 .. Num[m] - 1 : a = address(Loops[k], i)
    BY <1>2, <2>1
  <2>4. PICK j \in 0 .. Num[n] - 1 : b = address(Loops[l], j)
    BY <1>2, <2>2
  <2>5. wallet[m][a].SigningKey = key(Loops[k], i)
    BY <1>2, <2>1, <2>3, EntryFields
  <2>6. wallet[n][b].SigningKey = key(Loops[l], j)
    BY <1>2, <2>2, <2>4, EntryFields
  <2>7. i \in Nat /\ j \in Nat
    BY NumIs, <2>1, <2>2
  <2>8. k = l /\ i = j
    BY <1>4, <2>5, <2>6, <2>7, KeyTellsAddress
  <2>9. QED
    BY <2>1, <2>2, <2>3, <2>4, <2>8
<1> DEFINE standard(m, p, chain) ==
             {<<p + HardenedOffset, (IF testnet THEN 1 ELSE 0) + HardenedOffset,
                HardenedOffset, chain, i>> : i \in 0 .. Num[m] - 1}
<1>5. ASSUME NEW k \in 1 .. 4, NEW i
      PROVE  path(Loops[k], i) = <<purpose(Loops[k].kind), coinType, HardenedOffset,
                                   changeIndex(Loops[k].chain), i>>
  BY WidthsAssumption DEF path, BuildPath
<1>6. /\ purpose("legacy") = 44 + HardenedOffset /\ purpose("segwit") = 84 + HardenedOffset
      /\ changeIndex("external") = 0 /\ changeIndex("change") = 1
      /\ coinType = (IF testnet THEN 1 ELSE 0) + HardenedOffset
  BY DEF purpose, changeIndex, coinType
<1>7. /\ found("ReceiversLegacy") = standard("ReceiversLegacy", 44, 0)
      /\ found("ReceiversSegwit") = standard("ReceiversSegwit", 84, 0)
      /\ found("ChangeLegacy") = standard("ChangeLegacy", 44, 1)
      /\ found("ChangeSegwit") = standard("ChangeSegwit", 84, 1)
  <2>1. ASSUME NEW k \in 1 .. 4, NEW p, NEW chain,
               purpose(Loops[k].kind) = p + HardenedOffset,
               changeIndex(Loops[k].chain) = chain
        PROVE  named(k) = standard(Loops[k].map, p, chain)
    BY <2>1, <1>5, <1>6
  <2> HIDE DEF found, named, standard
  <2>2. /\ named(1) = standard("ReceiversLegacy", 44, 0)
        /\ named(2) = standard("ReceiversSegwit", 84, 0)
        /\ named(3) = standard("ChangeLegacy", 44, 1)
        /\ named(4) = standard("ChangeSegwit", 84, 1)
    BY <2>1, <1>6, LoopsAre
  <2>3. QED
    BY <2>2, <1>3, LoopsAre
<1>8. QED
  BY <1>4, <1>7 DEF EveryAddressOnce

(* The maps are always as far as their loops. *)
LEMMA InvariantHolds == Spec => []IInv
  BY InitInvariant, NextInvariant, PTL DEF Spec

(***************************************************************************)
(* A wallet that is created has all the addresses of BIP44 and BIP84, up   *)
(* to the number of addresses of each map, and no key twice, whatever the  *)
(* words and the numbers are (NewWalletFromMnemonic, BuildPath).           *)
(***************************************************************************)
THEOREM AllAddressesOnce == Spec => []EveryAddressOnce
  BY InvariantHolds, InvariantImplies, PTL

(***************************************************************************)
(* The counters of the loops stay in their bounds, and acc never has more  *)
(* bits than the loop says it has, nor more than an accumulator holds.     *)
(***************************************************************************)
THEOREM TypeCorrect == Spec => []TypeOK
<1>1. IInv /\ MnemonicOK => TypeOK
  <2> SUFFICES ASSUME IInv, MnemonicOK PROVE TypeOK
    OBVIOUS
  <2>1. taken \in 0 .. Len(data) /\ Len(words) \in 0 .. Words
    BY DataLength, Widths DEF MnemonicOK
  <2>2. acc \in 0 .. 2 ^ bits - 1
    <3>1. bits \in Nat /\ acc \in Nat /\ acc < 2 ^ bits
      BY Widths DEF MnemonicOK
    <3>2. 2 ^ bits \in Nat
      BY <3>1, PowerOfSubsets
    <3> QED
      BY <3>1, <3>2
  <2>3. loop \in 1 .. Len(Loops) + 1
    BY LoopsAre DEF IInv, LoopOK
  <2>4. loop <= Len(Loops) => index \in 0 .. Num[Loops[loop].map]
    <3> SUFFICES ASSUME loop <= 4 PROVE index \in 0 .. Num[Loops[loop].map]
      BY LoopsAre
    <3>1. loop \in 1 .. 4 /\ index \in Nat /\ index <= Num[Loops[loop].map]
      BY DEF IInv, LoopOK
    <3> QED
      BY <3>1, NumIs
  <2> QED
    BY <2>1, <2>2, <2>3, <2>4 DEF MnemonicOK, TypeOK
<1> QED
  BY <1>1, InvariantHolds, MnemonicHolds, PTL
==============================================================================
