-------------------------------- MODULE Keys --------------------------------
(***************************************************************************)
(* From entropy to the addresses of a new wallet: the twelve words of      *)
(* src/key_manager/bip39.go, the tree of keys of bip32.go, the paths of    *)
(* key_manager.go and the four loops of NewWalletFromMnemonic.             *)
(*                                                                         *)
(* The widths are parameters: a byte has 8 bits in the code, a word 11, an *)
(* accumulator 32, an entropy 16 bytes and a mnemonic 12 words. Hashes and *)
(* the curve tell different inputs apart: a seed is its words, a key its   *)
(* seed and its path, an address its key, its kind and its network. With   *)
(* a negligible probability a key does not exist.                          *)
(***************************************************************************)
EXTENDS Integers, Sequences

CONSTANTS
  ByteBits, WordBits, AccBits, EntropyBytes, Words,
  HardenedOffset,  \* 2^31: the numbers of children from here on are hardened.
  Num              \* Num[m]: how many addresses the map m is given.

(* The checksum is in the first byte of the hash. *)
ASSUME WidthsAssumption ==
  /\ {ByteBits, WordBits, AccBits, EntropyBytes, Words, HardenedOffset} \subseteq Nat \ {0}
  /\ Words * WordBits > EntropyBytes * ByteBits
  /\ Words * WordBits <= (EntropyBytes + 1) * ByteBits
  /\ WordBits + ByteBits <= AccBits + 1

Maps == {"ReceiversLegacy", "ReceiversSegwit", "ChangeLegacy", "ChangeSegwit"}

ASSUME NumAssumption == Num \in [Maps -> 0 .. HardenedOffset]

VARIABLES
  testnet,  \* The flag.
  pc,       \* Where the creation is.
  data,     \* The entropy and the first byte of its hash.
  taken,    \* How many bytes of data are in acc, or were.
  acc,      \* The bits taken and not yet given to a word.
  bits,     \* How many they are.
  words,    \* The words so far, as positions in the list.
  loop,     \* Which of the four loops is running.
  index,    \* Its counter.
  wallet    \* wallet[m]: the addresses of the map m with keys and paths.

mnemonicVars == <<data, taken, acc, bits, words>>
walletVars == <<loop, index, wallet>>
vars == <<testnet, pc, mnemonicVars, walletVars>>

Byte == 0 .. 2 ^ ByteBits - 1

Init ==
  /\ testnet \in BOOLEAN
  /\ data \in [1 .. EntropyBytes + 1 -> Byte]   \* GenerateDataEnt128
  /\ pc = "bytes" /\ taken = 0 /\ acc = 0 /\ bits = 0 /\ words = <<>>
  /\ loop = 1 /\ index = 0
  /\ wallet = [m \in Maps |-> <<>>]
------------------------------------------------------------------------------
(* GenerateMnemonicEnt128 *)

(* The outer loop takes a byte, until there are enough words. *)
TakeByte ==
  /\ pc = "bytes" /\ taken < Len(data) /\ Len(words) < Words
  /\ acc' = (acc * 2 ^ ByteBits + data[taken + 1]) % 2 ^ AccBits
  /\ bits' = bits + ByteBits
  /\ taken' = taken + 1
  /\ pc' = "words"
  /\ UNCHANGED <<testnet, data, words, walletVars>>

(* Mutant of CutWord: the bits of the word stay in acc. *)
CutWordUnmasked ==
  /\ pc = "words" /\ bits >= WordBits /\ Len(words) < Words
  /\ words' = Append(words, (acc \div 2 ^ (bits - WordBits)) % 2 ^ WordBits)
  /\ bits' = bits - WordBits
  /\ UNCHANGED <<testnet, pc, data, taken, acc, walletVars>>

(* Mutant of CutWord: the word is cut from the bottom. *)
CutWordFromBelow ==
  /\ pc = "words" /\ bits >= WordBits /\ Len(words) < Words
  /\ words' = Append(words, acc % 2 ^ WordBits)
  /\ bits' = bits - WordBits
  /\ acc' = acc \div 2 ^ WordBits
  /\ UNCHANGED <<testnet, pc, data, taken, walletVars>>

(* The inner loop cuts a word from the top, and keeps what is below. *)
CutWord ==
  /\ pc = "words" /\ bits >= WordBits /\ Len(words) < Words
  /\ words' = Append(words, (acc \div 2 ^ (bits - WordBits)) % 2 ^ WordBits)
  /\ bits' = bits - WordBits
  /\ acc' = IF bits' = 0 THEN 0 ELSE acc % 2 ^ bits'
  /\ UNCHANGED <<testnet, pc, data, taken, walletVars>>

(* The inner loop ends, and the outer one goes on. *)
NoMoreWords ==
  /\ pc = "words" /\ (bits < WordBits \/ Len(words) = Words)
  /\ pc' = "bytes"
  /\ UNCHANGED <<testnet, mnemonicVars, walletVars>>
------------------------------------------------------------------------------
(* The tree of keys *)

Node(path) == [seed |-> words, path |-> path]

(***************************************************************************)
(* The outer loop ends; GenerateSeedFromMnemonic and NewMasterKey. If the  *)
(* master key is not a number of the curve the creation fails.             *)
(***************************************************************************)
NewMasterKey ==
  /\ pc = "bytes" /\ (taken = Len(data) \/ Len(words) = Words)
  /\ pc' \in {"deriving", "failed"}
  /\ UNCHANGED <<testnet, mnemonicVars, walletVars>>

purpose(kind) == (IF kind = "legacy" THEN 44 ELSE 84) + HardenedOffset
coinType == (IF testnet THEN 1 ELSE 0) + HardenedOffset
changeIndex(chain) == IF chain = "change" THEN 1 ELSE 0

BuildPath(kind, chain, i) ==
  <<purpose(kind), coinType, 0 + HardenedOffset, changeIndex(chain), i>>

(***************************************************************************)
(* DeriveChild: a hardened child is made of the private key of its parent, *)
(* another one of the public key, and of its number.                       *)
(***************************************************************************)
DeriveChild(i) ==
  [from |-> IF i >= HardenedOffset THEN "private" ELSE "public", number |-> i]

(* A child of a child of ..., from the master key on. *)
DeriveKeyPath(master, path) ==
  [master EXCEPT !.path = @ \o [j \in DOMAIN path |-> DeriveChild(path[j])]]

(* Mutant of Loops: the last one is a copy of the second. *)
LoopsCopied ==
  <<[map |-> "ReceiversLegacy", kind |-> "legacy", chain |-> "external"],
    [map |-> "ReceiversSegwit", kind |-> "segwit", chain |-> "external"],
    [map |-> "ChangeLegacy", kind |-> "legacy", chain |-> "change"],
    [map |-> "ChangeSegwit", kind |-> "segwit", chain |-> "external"]>>

(* The four loops: the map each one fills, and with what. *)
Loops ==
  <<[map |-> "ReceiversLegacy", kind |-> "legacy", chain |-> "external"],
    [map |-> "ReceiversSegwit", kind |-> "segwit", chain |-> "external"],
    [map |-> "ChangeLegacy", kind |-> "legacy", chain |-> "change"],
    [map |-> "ChangeSegwit", kind |-> "segwit", chain |-> "change"]>>

(* DeriveLegacyAddress, DeriveSegwitAddress: the address, and what is kept of it. *)
path(l, i) == BuildPath(l.kind, l.chain, i)
key(l, i) == DeriveKeyPath(Node(<<>>), path(l, i))
address(l, i) == [key |-> key(l, i), legacy |-> l.kind = "legacy", testnet |-> testnet]
entry(l, i) ==
  [SigningKey |-> key(l, i), Legacy |-> l.kind = "legacy", Path |-> path(l, i)]

put(map, a, e) == [b \in DOMAIN map \cup {a} |-> IF b = a THEN e ELSE map[b]]

(***************************************************************************)
(* An iteration of a loop. If one of the children on the path does not     *)
(* exist, no other number is tried: the creation fails.                    *)
(***************************************************************************)
DeriveAddress ==
  /\ pc = "deriving" /\ loop <= Len(Loops)
  /\ LET l == Loops[loop]
     IN  /\ index < Num[l.map]
         /\ \/ /\ wallet' = [wallet EXCEPT ![l.map] = put(@, address(l, index), entry(l, index))]
               /\ index' = index + 1
               /\ UNCHANGED <<pc, loop>>
            \/ pc' = "failed" /\ UNCHANGED walletVars
  /\ UNCHANGED <<testnet, mnemonicVars>>

NextLoop ==
  /\ pc = "deriving" /\ loop <= Len(Loops)
  /\ index = Num[Loops[loop].map]
  /\ loop' = loop + 1 /\ index' = 0
  /\ UNCHANGED <<testnet, pc, mnemonicVars, wallet>>

(* The wallet is handed to EncryptAndSaveWallet: see WalletStore. *)
Save ==
  /\ pc = "deriving" /\ loop > Len(Loops)
  /\ pc' = "created"
  /\ UNCHANGED <<testnet, mnemonicVars, walletVars>>

Ended == pc \in {"created", "failed"} /\ UNCHANGED vars

Next ==
  \/ TakeByte \/ CutWord \/ NoMoreWords
  \/ NewMasterKey \/ DeriveAddress \/ NextLoop \/ Save
  \/ Ended

Spec == Init /\ [][Next]_vars
------------------------------------------------------------------------------
TypeOK ==
  /\ pc \in {"bytes", "words", "deriving", "created", "failed"}
  /\ taken \in 0 .. Len(data) /\ Len(words) \in 0 .. Words
  /\ bits \in 0 .. WordBits + ByteBits - 1
  /\ acc \in 0 .. 2 ^ bits - 1
  /\ loop \in 1 .. Len(Loops) + 1
  /\ loop <= Len(Loops) => index \in 0 .. Num[Loops[loop].map]

(* The bit n, from 0 on, of the entropy followed by the hash. *)
bit(n) ==
  (data[n \div ByteBits + 1] \div 2 ^ (ByteBits - 1 - (n % ByteBits))) % 2

(***************************************************************************)
(* BIP39: the words are the bits of entropy and checksum, in their order   *)
(* and without a gap, and a seed is made of all of them or not at all      *)
(* (GenerateMnemonicEnt128, whose result is converted to [12]string).      *)
(***************************************************************************)
WordsAreBits ==
  /\ \A k \in DOMAIN words :
       /\ words[k] \in 0 .. 2 ^ WordBits - 1
       /\ \A j \in 0 .. WordBits - 1 :
            (words[k] \div 2 ^ (WordBits - 1 - j)) % 2 = bit((k - 1) * WordBits + j)
  /\ pc \in {"deriving", "created"} => Len(words) = Words

(***************************************************************************)
(* A wallet that is created has every address it was to have, no key is    *)
(* used twice, whatever the map, kind or chain, and a wallet that follows  *)
(* BIP44 and BIP84 finds them all: m/44'/coin'/0'/chain/index and m/84'/.. *)
(* up to the number of addresses (NewWalletFromMnemonic, BuildPath).       *)
(***************************************************************************)
EveryAddressOnce ==
  pc = "created" =>
    LET found(m) == {wallet[m][a].Path : a \in DOMAIN wallet[m]}
        standard(m, p, chain) ==
          {<<p + HardenedOffset, (IF testnet THEN 1 ELSE 0) + HardenedOffset,
             HardenedOffset, chain, i>> : i \in 0 .. Num[m] - 1}
    IN  /\ found("ReceiversLegacy") = standard("ReceiversLegacy", 44, 0)
        /\ found("ChangeLegacy") = standard("ChangeLegacy", 44, 1)
        /\ found("ReceiversSegwit") = standard("ReceiversSegwit", 84, 0)
        /\ found("ChangeSegwit") = standard("ChangeSegwit", 84, 1)
        /\ \A m, n \in Maps : \A a \in DOMAIN wallet[m], b \in DOMAIN wallet[n] :
             wallet[m][a].SigningKey = wallet[n][b].SigningKey => m = n /\ a = b
==============================================================================
