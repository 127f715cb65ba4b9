---------------------------- MODULE MCWalletStore ----------------------------
(***************************************************************************)
(* WalletStore with two names, three runs and two passwords. Envelopes of  *)
(* one and of two blocks let a short wallet be written over a long one.    *)
(***************************************************************************)
EXTENDS WalletStore, TLC

CONSTANTS p1, p2, c1, c2, c3, pw1, pw2

New(p, w, s) == [action |-> "new", path |-> p, password |-> w, size |-> s]
Import(p, w, s) == [New(p, w, s) EXCEPT !.action = "import"]
Load(p, w) == [New(p, w, 1) EXCEPT !.action = "load"]

MCRequests ==
  {New(p1, pw1, 2), New(p1, pw1, 1), Import(p1, pw2, 2), New(p2, pw1, 2),
   Load(p1, pw1), Load(p1, pw2), Load(p2, pw1)}

Symmetry == Permutations({c1, c2, c3})
=============================================================================
