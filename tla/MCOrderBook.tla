---------------------------- MODULE MCOrderBook ----------------------------
(***************************************************************************)
(* Small instance of OrderBook for TLC.  Orders are told apart by the time *)
(* of their arrival and the liveness property is checked with them, so no  *)
(* symmetry is declared.                                                   *)
(***************************************************************************)
EXTENDS OrderBook

MCPrice == 1..2
MCQuantity == 1..2
=============================================================================
