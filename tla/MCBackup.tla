------------------------------ MODULE MCBackup ------------------------------
(* Instances of Backup for TLC. *)
EXTENDS Backup

CONSTANTS name1, name2, k1, k2, k3

MCNames == {name1, name2}
MCKeys == {k1, k2, k3}

addr(k, legacy, testnet) == [key |-> k, legacy |-> legacy, testnet |-> testnet]

entryMap(k, legacy, testnet) ==
  [x \in {addr(k, legacy, testnet)} |-> [key |-> k, legacy |-> legacy]]

(* A wallet of new: all maps but one, which stand for the four. *)
created(testnet) ==
  [EmptyWallet EXCEPT !["ReceiversLegacy"] = entryMap(k1, TRUE, testnet),
                      !["ReceiversSegwit"] = entryMap(k2, FALSE, testnet),
                      !["ChangeSegwit"] = entryMap(k3, FALSE, testnet)]

(* A name with a wallet on each network; the other has none. *)
MCStores == {[i \in [name : {name1}, testnet : BOOLEAN] |-> created(i.testnet)]}

row(k, prefix, legacy, testnet) ==
  [line |-> "row", address |-> addr(k, legacy, testnet), prefix |-> prefix,
   key |-> k, testnet |-> testnet]

(***************************************************************************)
(* A file of another program: it has no header, so that a key comes first, *)
(* a kind this program does not know, one key twice under an address, and  *)
(* once more under its other address.                                      *)
(***************************************************************************)
MCForeignTexts ==
  [f \in {[name |-> "electrum", type |-> "csv"]} |->
     <<row(k3, "p2wpkh", FALSE, TRUE), row(k2, "other", TRUE, TRUE),
       row(k1, "p2pkh", TRUE, TRUE), row(k1, "p2pkh", TRUE, TRUE),
       row(k1, "p2wpkh", FALSE, TRUE)>>]
==============================================================================
