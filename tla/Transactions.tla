---------------------------- MODULE Transactions ----------------------------
(***************************************************************************)
(* How a send builds, signs and encodes its transaction, once the coins    *)
(* are selected: SendLegacyTx with the code of src/transactions, and       *)
(* SendSegwit with btcd's (src/wallet/legacy.go, segwit.go). Nothing here  *)
(* leaves the process before the transaction is posted.                    *)
(*                                                                         *)
(* Sign stands for ECDSA: deterministic, and verified by comparing, since  *)
(* only the key makes a signature. The message stands for its hash.        *)
(***************************************************************************)
EXTENDS TxFormat

CONSTANTS
  Selections,  \* What selectInputs may hand over: sequences of coins.
  Payments,    \* What is to be paid: see Outputs.
  Sign(_, _)   \* The signature of a key on a message, in bytes.

(***************************************************************************)
(* txid is as the server shows it. script is the coin's on the chain, or   *)
(* what the server made of it: empty if the output was not found, not      *)
(* hexadecimal if the answer is garbled.                                   *)
(***************************************************************************)
Coin == [txid : [1 .. HashSize -> Bytes], vout : Nat, amount : Nat,
         type : {"p2pkh", "p2wpkh", "missing", "garbled"}, key : Bytes]

(***************************************************************************)
(* Counts and lengths are ints and amounts are int64, which 8 bytes hold;  *)
(* an output has an index of 4 bytes.                                      *)
(***************************************************************************)
ASSUME SelectionsAssumption ==
  /\ Selections \subseteq Seq(Coin)
  /\ \A s \in Selections :
       Len(s) < capacity(8) /\ \A i \in DOMAIN s : s[i].vout < capacity(4)

Script == {bytes \in Seq(Bytes) : Len(bytes) < capacity(8)}

ASSUME PaymentsAssumption ==
  \A p \in Payments :
    /\ p.amount \in Nat /\ p.amount < capacity(8) /\ p.dest \in Script
    /\ p.change \in Int /\ p.change < capacity(8) /\ p.changeScript \in Script

VARIABLES
  segwit,   \* TRUE in send-segwit, FALSE in send-legacy.
  coins,    \* inputsBuild.
  payment,  \* The arguments of buildOutputs, as scripts.
  pc,       \* Where the send is.
  tx,       \* The transaction of src/transactions.
  msgTx,    \* The transaction of btcd, in send-segwit.
  next,     \* The input to be signed next.
  posted,   \* The bytes the server is sent, witnesses left out.
  txId      \* The id that is reported.

given == <<segwit, coins, payment>>
vars == <<given, pc, tx, msgTx, next, posted, txId>>

Inputs == DOMAIN coins

(* PayToAddrScript of a key's address, and the script of the coins at it. *)
pubKey(key) == <<key>>
scriptOf(type, key) ==
  CASE type = "p2pkh"  -> <<Base - 1, key>>
    [] type = "p2wpkh" -> <<0, key>>
    [] OTHER           -> <<>>

scriptOfCoin(i) == scriptOf(coins[i].type, coins[i].key)

MaxSequence == capacity(4) - 1
SighashAll == 1

Init ==
  /\ segwit \in BOOLEAN /\ coins \in Selections /\ payment \in Payments
  /\ ~segwit => \A i \in Inputs : coins[i].type # "p2wpkh"
  /\ pc = "building" /\ next = 1
  /\ tx = <<>> /\ msgTx = <<>> /\ posted = <<>> /\ txId = <<>>

(* buildOutputs: the payment, and the change if there is any. *)
Outputs ==
  <<NewTxOut(payment.amount, payment.dest)>> \o
    (IF payment.change > 0 THEN <<NewTxOut(payment.change, payment.changeScript)>> ELSE <<>>)

(* Mutant of BuildTx: the inputs are appended to a slice of their number. *)
BuildTxPresized ==
  /\ pc = "building"
  /\ LET inputs == [i \in Inputs |-> NewTxIn(coins[i].txid, coins[i].vout, MaxSequence)]
     IN  tx' = NewTx(inputs \o inputs, Outputs)
  /\ pc' = IF segwit THEN "converting" ELSE "signing"
  /\ UNCHANGED <<given, msgTx, next, posted, txId>>

BuildTx ==
  /\ pc = "building"
  /\ tx' = NewTx([i \in Inputs |-> NewTxIn(coins[i].txid, coins[i].vout, MaxSequence)], Outputs)
  /\ pc' = IF segwit THEN "converting" ELSE "signing"
  /\ UNCHANGED <<given, msgTx, next, posted, txId>>
------------------------------------------------------------------------------
(* send-legacy *)

(* Mutant of copyForSigning: the other inputs keep their scripts. *)
copyForSigningInPlace(t, index, prevScriptPubKey) ==
  [t EXCEPT !.inputs[index].scriptSig = prevScriptPubKey]

(* All scripts are empty but that of the input to be signed. *)
copyForSigning(t, index, prevScriptPubKey) ==
  [t EXCEPT !.inputs = [i \in DOMAIN t.inputs |->
     [t.inputs[i] EXCEPT !.scriptSig = IF i = index THEN prevScriptPubKey ELSE <<>>]]]

(* Mutant of LegacySigHash: the type is not part of the message. *)
LegacySigHashUntyped(t, index, prevScriptPubKey) ==
  Serialize(copyForSigning(t, index, prevScriptPubKey))

LegacySigHash(t, index, prevScriptPubKey) ==
  Serialize(copyForSigning(t, index, prevScriptPubKey)) \o LittleEndian(SighashAll, 4)

(* One byte for a length, whatever the length. *)
buildScriptSig(sig, pub) ==
  <<Len(sig) % Base>> \o sig \o <<Len(pub) % Base>> \o pub

(* The scriptSig that SignInput gives to an input of t. *)
signedBy(t, index) ==
  buildScriptSig(
    Sign(coins[index].key, LegacySigHash(t, index, scriptOfCoin(index))) \o <<SighashAll>>,
    pubKey(coins[index].key))

(* An iteration of signInputsLegacy. A script that is no hex ends the run. *)
SignInput ==
  /\ pc = "signing" /\ ~segwit /\ next \in Inputs
  /\ IF coins[next].type = "garbled"
     THEN pc' = "failed" /\ UNCHANGED <<tx, next>>
     ELSE /\ tx' = [tx EXCEPT !.inputs[next].scriptSig = signedBy(tx, next)]
          /\ next' = next + 1
          /\ UNCHANGED pc
  /\ UNCHANGED <<given, msgTx, posted, txId>>

(* BroadcastTransaction: SerializeHex, and ComputeTxID, the hash reversed. *)
PostLegacy ==
  /\ pc = "signing" /\ ~segwit /\ next \notin Inputs
  /\ posted' = Serialize(tx)
  /\ txId' = ReverseBytes(Serialize(tx))
  /\ pc' = "posted"
  /\ UNCHANGED <<given, tx, msgTx, next>>
------------------------------------------------------------------------------
(* send-segwit *)

(* Mutant of toWireMsgTx: the id is taken over as it is shown. *)
toWireMsgTxUnreversed(t) ==
  [version |-> 2,
   txIn |-> [i \in DOMAIN t.inputs |->
     [hash |-> t.inputs[i].previousTxHash,
      index |-> fromBigEndian(t.inputs[i].previousTxIndex),
      signatureScript |-> <<>>, witness |-> <<>>,
      sequence |-> fromBigEndian(t.inputs[i].sequence)]],
   txOut |-> [i \in DOMAIN t.outputs |->
     [value |-> Value(t.outputs[i]), pkScript |-> t.outputs[i].pkScript]],
   lockTime |-> 0]

(* Version 2, no lock time, and no script yet. *)
toWireMsgTx(t) ==
  [version |-> 2,
   txIn |-> [i \in DOMAIN t.inputs |->
     [hash |-> ReverseBytes(t.inputs[i].previousTxHash),
      index |-> fromBigEndian(t.inputs[i].previousTxIndex),
      signatureScript |-> <<>>, witness |-> <<>>,
      sequence |-> fromBigEndian(t.inputs[i].sequence)]],
   txOut |-> [i \in DOMAIN t.outputs |->
     [value |-> Value(t.outputs[i]), pkScript |-> t.outputs[i].pkScript]],
   lockTime |-> 0]

(* toWireMsgTx, and the scripts of all coins decoded for BIP143. *)
ToWire ==
  /\ pc = "converting"
  /\ msgTx' = toWireMsgTx(tx)
  /\ pc' = IF \E i \in Inputs : coins[i].type = "garbled" THEN "failed" ELSE "signing"
  /\ UNCHANGED <<given, tx, next, posted, txId>>

(* txscript.CalcSignatureHash, of which witnesses are no part. *)
LegacyMessage(msg, index, script) ==
  LET covered(in, signatureScript) ==
        [hash |-> in.hash, index |-> in.index, sequence |-> in.sequence,
         signatureScript |-> signatureScript, witness |-> <<>>]
  IN  WireBytes(
        [version |-> msg.version, lockTime |-> msg.lockTime, txOut |-> msg.txOut,
         txIn |-> [i \in DOMAIN msg.txIn |->
                     covered(msg.txIn[i], IF i = index THEN script ELSE <<>>)]])
        \o LittleEndian(SighashAll, 4)

(* BIP143: all outpoints, sequence numbers and outputs, and the coin spent. *)
WitnessMessage(msg, index, script, amount) ==
  LET outpoint(in) == in.hash \o LittleEndian(in.index, 4)
      every(items, bytes(_)) == FlattenSeq([i \in DOMAIN items |-> bytes(items[i])])
  IN  LittleEndian(msg.version, 4)
        \o every(msg.txIn, outpoint)
        \o every(msg.txIn, LAMBDA in : LittleEndian(in.sequence, 4))
        \o outpoint(msg.txIn[index]) \o script \o LittleEndian(amount, 8)
        \o LittleEndian(msg.txIn[index].sequence, 4)
        \o every(msg.txOut, wireOut)
        \o LittleEndian(msg.lockTime, 4) \o LittleEndian(SighashAll, 4)

(* txscript.SignatureScript and txscript.WitnessSignature. *)
signatureScript(msg, index) ==
  buildScriptSig(
    Sign(coins[index].key, LegacyMessage(msg, index, scriptOfCoin(index))) \o <<SighashAll>>,
    pubKey(coins[index].key))

witnessStack(msg, index) ==
  <<Sign(coins[index].key,
         WitnessMessage(msg, index, scriptOfCoin(index), coins[index].amount)) \o <<SighashAll>>,
    pubKey(coins[index].key)>>

(***************************************************************************)
(* An iteration of signInputsSegwit. A script that is of neither kind,     *)
(* an empty one say, ends the run.                                         *)
(***************************************************************************)
SignInputSegwit ==
  /\ pc = "signing" /\ segwit /\ next \in Inputs
  /\ CASE coins[next].type = "p2wpkh" ->
            /\ msgTx' = [msgTx EXCEPT !.txIn[next].witness = witnessStack(msgTx, next)]
            /\ next' = next + 1 /\ UNCHANGED pc
       [] coins[next].type = "p2pkh" ->
            /\ msgTx' = [msgTx EXCEPT !.txIn[next].signatureScript = signatureScript(msgTx, next)]
            /\ next' = next + 1 /\ UNCHANGED pc
       [] OTHER -> pc' = "failed" /\ UNCHANGED <<msgTx, next>>
  /\ UNCHANGED <<given, tx, posted, txId>>

(* BroadcastTransactionSegwit. *)
PostSegwit ==
  /\ pc = "signing" /\ segwit /\ next \notin Inputs
  /\ posted' = WireBytes(msgTx)
  /\ txId' = ReverseBytes(WireBytes(msgTx))
  /\ pc' = "posted"
  /\ UNCHANGED <<given, tx, msgTx, next>>
------------------------------------------------------------------------------
Ended == pc \in {"posted", "failed"} /\ UNCHANGED vars

Next == BuildTx \/ SignInput \/ PostLegacy \/ ToWire \/ SignInputSegwit \/ PostSegwit \/ Ended

Spec == Init /\ [][Next]_vars
------------------------------------------------------------------------------
TypeOK ==
  /\ segwit \in BOOLEAN /\ coins \in Selections /\ payment \in Payments
  /\ pc \in {"building", "converting", "signing", "posted", "failed"}
  /\ next \in 1 .. Len(coins) + 1
  /\ pc # "building" => DOMAIN tx.inputs = Inputs
  /\ pc \in {"signing", "posted"} /\ segwit => DOMAIN msgTx.txIn = Inputs

(* What a node reads from the bytes of a transaction of src/transactions. *)
asMsgTx(t) ==
  [version |-> fromBigEndian(t.version),
   txIn |-> [i \in DOMAIN t.inputs |->
     [hash |-> Reverse(t.inputs[i].previousTxHash),
      index |-> fromBigEndian(t.inputs[i].previousTxIndex),
      signatureScript |-> t.inputs[i].scriptSig, witness |-> <<>>,
      sequence |-> fromBigEndian(t.inputs[i].sequence)]],
   txOut |-> [i \in DOMAIN t.outputs |->
     [value |-> fromBigEndian(t.outputs[i].value), pkScript |-> t.outputs[i].pkScript]],
   lockTime |-> fromBigEndian(t.locktime)]

sent == IF segwit THEN msgTx ELSE asMsgTx(tx)

(***************************************************************************)
(* A signature once made stays good: what it covers is what it would cover *)
(* if it were made now, whatever inputs were signed since (SignInput,      *)
(* signInputsSegwit).                                                      *)
(***************************************************************************)
SignaturesStay ==
  pc \in {"signing", "posted"} =>
    \A i \in Inputs : i < next =>
      IF ~segwit THEN tx.inputs[i].scriptSig = signedBy(tx, i)
      ELSE /\ coins[i].type = "p2pkh" => msgTx.txIn[i].signatureScript = signatureScript(msgTx, i)
           /\ coins[i].type = "p2wpkh" => msgTx.txIn[i].witness = witnessStack(msgTx, i)

(***************************************************************************)
(* A node accepts every signature of what is posted, if the server told    *)
(* the truth about the coin: the hand-written signatures are over the same *)
(* bytes as those of the library.                                          *)
(***************************************************************************)
SignaturesVerify ==
  pc = "posted" =>
    \A i \in Inputs :
      /\ coins[i].type = "p2pkh" => sent.txIn[i].signatureScript = signatureScript(sent, i)
      /\ coins[i].type = "p2wpkh" => sent.txIn[i].witness = witnessStack(sent, i)

(***************************************************************************)
(* The hand-written writer and the library's write the same bytes, and the *)
(* reported id is the one the network knows (Serialize, ComputeTxID).      *)
(***************************************************************************)
PostedAsOnTheWire ==
  pc = "posted" => posted = WireBytes(sent) /\ txId = Reverse(WireBytes(sent))

(***************************************************************************)
(* The parser reads what was written, at every length of the counts and    *)
(* the scripts (ParseTx against Serialize and against the library).        *)
(***************************************************************************)
ReadsBack ==
  pc = "posted" =>
    LET read_ == ParseTx(posted)
    IN  /\ ~segwit => read_ = tx
        /\ asMsgTx(read_) = [sent EXCEPT !.txIn = [i \in DOMAIN sent.txIn |->
                               [sent.txIn[i] EXCEPT !.witness = <<>>]]]

(***************************************************************************)
(* What is posted spends the coins selected, in their order, as the        *)
(* network names them, and pays the amount and the change, through all     *)
(* changes of byte order (NewTxIn, NewTxOut, toWireMsgTx, Value).          *)
(***************************************************************************)
SpendsTheSelection ==
  pc = "posted" =>
    /\ DOMAIN sent.txIn = Inputs
    /\ \A i \in Inputs : /\ sent.txIn[i].hash = Reverse(coins[i].txid)
                         /\ sent.txIn[i].index = coins[i].vout
    /\ sent.txOut[1] = [value |-> payment.amount, pkScript |-> payment.dest]
    /\ Len(sent.txOut) = IF payment.change > 0 THEN 2 ELSE 1
    /\ payment.change > 0 =>
         sent.txOut[2] = [value |-> payment.change, pkScript |-> payment.changeScript]
==============================================================================
