------------------------------ MODULE TxFormat ------------------------------
(***************************************************************************)
(* Transactions as bytes: the writer and the parser of src/transactions    *)
(* and the numbers of variable length of src/utils/utils.go.               *)
(*                                                                         *)
(* A transaction keeps its numbers and the ids of the coins it spends as   *)
(* bytes with the first one the most significant; on the wire it is the    *)
(* last. A byte has 8 bits in the code, ByteBits here: its three largest   *)
(* values announce a longer number, as 0xfd, 0xfe and 0xff do.             *)
(***************************************************************************)
EXTENDS Integers, Sequences, SequencesExt, FiniteSetsExt

CONSTANTS
  ByteBits,  \* Bits of a byte.
  HashSize   \* Bytes of a transaction's id.

ASSUME FormatAssumption == ByteBits \in Nat /\ ByteBits >= 2 /\ HashSize \in Nat \ {0}

(* How many values a byte has, and how many numbers w bytes hold. *)
Base == 2 ^ ByteBits
capacity(w) == 2 ^ (ByteBits * w)

Bytes == 0 .. Base - 1

(* PutUint16, PutUint32, PutUint64: n in w bytes, of which higher ones are lost. *)
LittleEndian(n, w) == [i \in 1 .. w |-> (n \div capacity(i - 1)) % Base]
BigEndian(n, w) == Reverse(LittleEndian(n, w))

(* Uint16, Uint32, Uint64. *)
fromBigEndian(bytes) == FoldLeft(LAMBDA n, b : n * Base + b, 0, bytes)
fromLittleEndian(bytes) == fromBigEndian(Reverse(bytes))

(* Reverse of the community module is ReverseBytes. *)
ReverseBytes(b) == Reverse(b)

WriteVarInt(n) ==
  IF n < Base - 3           THEN <<n>>
  ELSE IF n <= capacity(2) - 1 THEN <<Base - 3>> \o LittleEndian(n, 2)
  ELSE IF n <= capacity(4) - 1 THEN <<Base - 2>> \o LittleEndian(n, 4)
                            ELSE <<Base - 1>> \o LittleEndian(n, 8)

(* Readers give what they read and the bytes they leave. *)
read(bytes, w) ==
  [item |-> SubSeq(bytes, 1, w), rest |-> SubSeq(bytes, w + 1, Len(bytes))]

VarInt2Int(bytes) ==
  LET first == Head(bytes)
      after(w) == LET r == read(Tail(bytes), w)
                  IN  [item |-> fromLittleEndian(r.item), rest |-> r.rest]
  IN  CASE first <= Base - 4 -> [item |-> first, rest |-> Tail(bytes)]
        [] first = Base - 3  -> after(2)
        [] first = Base - 2  -> after(4)
        [] first = Base - 1  -> after(8)

(* A number of bytes, and the bytes. *)
readBytes(bytes) == LET n == VarInt2Int(bytes) IN read(n.rest, n.item)

(***************************************************************************)
(* NewTxIn, with an empty scriptSig; NewTxOut; NewTx, version 1 and no     *)
(* lock time. Output indices and sequence numbers take 4 bytes, values 8.  *)
(***************************************************************************)
NewTxIn(txid, vout, sequence) ==
  [previousTxHash |-> txid, previousTxIndex |-> BigEndian(vout, 4),
   scriptSig |-> <<>>, sequence |-> BigEndian(sequence, 4)]

NewTxOut(value, pkScript) == [value |-> BigEndian(value, 8), pkScript |-> pkScript]

NewTx(inputs, outputs) ==
  [version |-> BigEndian(1, 4), inputs |-> inputs, outputs |-> outputs,
   locktime |-> BigEndian(0, 4)]

(* Mutant of SerializeTxIn: the id is written as it is shown. *)
SerializeTxInUnreversed(in) ==
  in.previousTxHash \o ReverseBytes(in.previousTxIndex)
    \o WriteVarInt(Len(in.scriptSig)) \o in.scriptSig \o ReverseBytes(in.sequence)

SerializeTxIn(in) ==
  ReverseBytes(in.previousTxHash) \o ReverseBytes(in.previousTxIndex)
    \o WriteVarInt(Len(in.scriptSig)) \o in.scriptSig \o ReverseBytes(in.sequence)

SerializeTxOut(out) ==
  ReverseBytes(out.value) \o WriteVarInt(Len(out.pkScript)) \o out.pkScript

(* How many items there are, and all of them. *)
serializeAll(items, serialize(_)) ==
  WriteVarInt(Len(items)) \o FlattenSeq([i \in DOMAIN items |-> serialize(items[i])])

Serialize(tx) ==
  ReverseBytes(tx.version)
    \o serializeAll(tx.inputs, SerializeTxIn)
    \o serializeAll(tx.outputs, SerializeTxOut)
    \o ReverseBytes(tx.locktime)

ParseTxIn(bytes) ==
  LET hash     == read(bytes, HashSize)
      index    == read(hash.rest, 4)
      script   == readBytes(index.rest)
      sequence == read(script.rest, 4)
  IN  [item |-> [previousTxHash |-> ReverseBytes(hash.item),
                 previousTxIndex |-> ReverseBytes(index.item),
                 scriptSig |-> script.item,
                 sequence |-> ReverseBytes(sequence.item)],
       rest |-> sequence.rest]

(* Mutant of ParseTxOut: the value is kept as it is on the wire. *)
ParseTxOutUnreversed(bytes) ==
  LET value  == read(bytes, 8)
      script == readBytes(value.rest)
  IN  [item |-> [value |-> value.item, pkScript |-> script.item], rest |-> script.rest]

ParseTxOut(bytes) ==
  LET value  == read(bytes, 8)
      script == readBytes(value.rest)
  IN  [item |-> [value |-> ReverseBytes(value.item), pkScript |-> script.item],
       rest |-> script.rest]

parseAll(bytes, parse(_)) ==
  LET count == VarInt2Int(bytes)
      upTo[n \in 0 .. count.item] ==
        IF n = 0 THEN [item |-> <<>>, rest |-> count.rest]
        ELSE LET before == upTo[n - 1]
                 this   == parse(before.rest)
             IN  [item |-> Append(before.item, this.item), rest |-> this.rest]
  IN  upTo[count.item]

ParseTx(bytes) ==
  LET version  == read(bytes, 4)
      inputs   == parseAll(version.rest, ParseTxIn)
      outputs  == parseAll(inputs.rest, ParseTxOut)
      locktime == read(outputs.rest, 4)
  IN  [version |-> ReverseBytes(version.item), inputs |-> inputs.item,
       outputs |-> outputs.item, locktime |-> ReverseBytes(locktime.item)]

(* Value: the output's value as a number. *)
Value(out) == fromBigEndian(out.value)
------------------------------------------------------------------------------
(***************************************************************************)
(* The encoding of the network, which btcd's MsgTx.Serialize writes: the   *)
(* hash of an outpoint is kept as it goes on the wire, numbers are         *)
(* numbers. Witnesses are left out, as they are for a transaction's id.    *)
(***************************************************************************)

(* The shortest form that holds n. *)
CompactSize(n) ==
  LET w == Min({v \in {1, 2, 4, 8} : n < IF v = 1 THEN Base - 3 ELSE capacity(v)})
  IN  (CASE w = 1 -> <<>> [] w = 2 -> <<Base - 3>> [] w = 4 -> <<Base - 2>> [] w = 8 -> <<Base - 1>>)
        \o LittleEndian(n, w)

wireIn(in) ==
  in.hash \o LittleEndian(in.index, 4)
    \o CompactSize(Len(in.signatureScript)) \o in.signatureScript
    \o LittleEndian(in.sequence, 4)

wireOut(out) ==
  LittleEndian(out.value, 8) \o CompactSize(Len(out.pkScript)) \o out.pkScript

WireBytes(msg) ==
  LET all(items, encode(_)) ==
        CompactSize(Len(items)) \o FlattenSeq([i \in DOMAIN items |-> encode(items[i])])
  IN  LittleEndian(msg.version, 4) \o all(msg.txIn, wireIn) \o all(msg.txOut, wireOut)
        \o LittleEndian(msg.lockTime, 4)
==============================================================================
