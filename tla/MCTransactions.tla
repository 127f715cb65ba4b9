--------------------------- MODULE MCTransactions ---------------------------
(* An instance of Transactions for TLC. *)
EXTENDS Transactions

(* A signature that tells every key and message apart. *)
MCSign(key, message) == <<key>> \o message

Types == {"p2pkh", "p2wpkh", "missing", "garbled"}

coin(n, type) ==
  [txid |-> <<n, 4>>, vout |-> 5 * n + 1, amount |-> 100 + n, type |-> type, key |-> n]

(* Coins of each kind; one byte says that there are four, and two that there are five. *)
MCSelections ==
  {[i \in 1 .. n |-> coin(i, types[i])] : n \in 1 .. 3, types \in [1 .. 3 -> Types]}
    \cup {[i \in 1 .. n |-> coin(i, type)] : n \in {4, 5}, type \in Types}

(* Lengths of scripts on both sides of every boundary of a byte of 3 bits: 5, 64, 4096. *)
MCPayments ==
  [amount : {30000}, change : {0, 700}, changeScript : {<<0, 3>>},
   dest : {[i \in 1 .. n |-> i % 8] : n \in {4, 5, 63, 64, 4095, 4096}}]
==============================================================================
