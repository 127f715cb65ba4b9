----------------------------- MODULE MCSpending -----------------------------
(***************************************************************************)
(* Spending with two runs, a wallet of one address of each kind and an     *)
(* imported one of two legacy addresses. The coins are such that one is    *)
(* enough or two are needed, that they pay exactly for the size estimated, *)
(* that the change is none, too small for an output, dust, or more than    *)
(* that. An output that pays wd is longer than the estimate has it.        *)
(***************************************************************************)
EXTENDS Spending, TLC

CONSTANTS c1, c2, lr, lc, sr, sc, ld, wd

New(net) ==
  [receiversLegacy |-> {lr}, changeLegacy |-> {lc}, receiversSegwit |-> {sr},
   changeSegwit |-> {sc}, imported |-> FALSE, testnet |-> net]

ImportedLegacy ==
  [receiversLegacy |-> {lr, lc}, changeLegacy |-> {}, receiversSegwit |-> {},
   changeSegwit |-> {}, imported |-> TRUE, testnet |-> TRUE]

Coin(i, a, v) == [id |-> i, addr |-> a, value |-> v]

MCSetups ==
  {[wallet |-> New(TRUE), coins |-> {Coin("a", lr, 1350), Coin("b", lc, 1300)}],
   [wallet |-> New(TRUE), coins |-> {Coin("a", lr, 2000)}],
   [wallet |-> New(TRUE), coins |-> {Coin("a", sr, 1250), Coin("b", lc, 1420)}],
   [wallet |-> New(TRUE), coins |-> {Coin("a", sr, 1112)}],
   [wallet |-> New(FALSE), coins |-> {Coin("a", lr, 3000)}],
   [wallet |-> ImportedLegacy, coins |-> {Coin("a", lr, 3000)}]}

Send(a, d) == [action |-> a, amount |-> 1000, dest |-> d]

MCRequests ==
  {Send("load", wd), Send("send-legacy", ld), Send("send-segwit", ld), Send("send-segwit", wd)}

(* P2PKH; P2WSH or P2TR. *)
MCOutputSize == (ld :> 34) @@ (wd :> 43)

MCDeposits == {Coin("e", lr, 1500)}

Symmetry == Permutations({c1, c2})
=============================================================================
