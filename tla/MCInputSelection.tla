-------------------------- MODULE MCInputSelection --------------------------
(***************************************************************************)
(* InputSelection on every pool of at most three UTXOs, whatever order the *)
(* addresses came in. At one satoshi per vbyte a legacy input costs 148    *)
(* and a segwit input 68, so the values are below, between and above the   *)
(* two costs; 9000 and 8000 as amounts do not fit MaxInt with their fee.   *)
(***************************************************************************)
EXTENDS InputSelection, SequencesExt

Utxo(v, t) == [value |-> v, scriptType |-> t, validTxId |-> TRUE]

MCUtxos ==
  {Utxo(v, t) : v \in {100, 180, 500}, t \in {"v0_p2wpkh", "p2pkh"}}
    \cup {Utxo(0, "none"), [Utxo(180, "p2pkh") EXCEPT !.validTxId = FALSE]}

MCPools == BoundedSeq(MCUtxos, 3)

MCAmounts == {1, 32, 150, 400, 820, 8000, 9000}

MCFeeRates == {0, 1, 2}
=============================================================================
