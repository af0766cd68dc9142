----------------------------- MODULE MCExchange -----------------------------
(***************************************************************************)
(* A small instance of Exchange for TLC.                                   *)
(***************************************************************************)
EXTENDS Exchange

MCAmount == 1..4
=============================================================================
