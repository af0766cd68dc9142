------------------------------- MODULE MCPair -------------------------------
(***************************************************************************)
(* Small instances of Pair for TLC.  The fee constants are scaled: the     *)
(* contract's are 5 epochs, 1%, 100% and 6 penalties.                      *)
(***************************************************************************)
EXTENDS Pair, TLC

MCAmount == {0, 2, 3, 5}
MCFills == 1..5
MCOne == {1}
Symmetry == Permutations(User)
=============================================================================
