------------------------------- MODULE MCKeys -------------------------------
(* An instance of Keys for TLC. *)
EXTENDS Keys

MCNum == [m \in Maps |-> IF m \in {"ReceiversLegacy", "ReceiversSegwit"} THEN 2 ELSE 1]
==============================================================================
