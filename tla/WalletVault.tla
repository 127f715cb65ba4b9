----------------------------- MODULE WalletVault -----------------------------
(***************************************************************************)
(* What the wallet's store promises its user: a name is free until one     *)
(* command stores a wallet under it, for good, or is interrupted while it  *)
(* does, which spoils the name, for good too. WalletStore is shown to do   *)
(* this as long as commands run one at a time.                             *)
(***************************************************************************)
CONSTANTS
  Paths,      \* The wallet files a name and a network stand for.
  Commands,   \* Runs of the program; each stores a wallet of its own.
  NoWallet,   \* The name is free.
  Broken      \* The name holds a file that is no wallet.

VARIABLE vault

Init == vault = [p \in Paths |-> NoWallet]

Store(p, c) ==
  /\ vault[p] = NoWallet
  /\ vault' = [vault EXCEPT ![p] = c]

Spoil(p) ==
  /\ vault[p] = NoWallet
  /\ vault' = [vault EXCEPT ![p] = Broken]

Next == \E p \in Paths : Spoil(p) \/ \E c \in Commands : Store(p, c)

Spec == Init /\ [][Next]_vault
=============================================================================
