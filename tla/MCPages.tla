------------------------------ MODULE MCPages ------------------------------
(***************************************************************************)
(* A small instance of Pages for TLC: a polled panel of the exchange, one  *)
(* that asks only when the market changes, and the polled prices of the    *)
(* home page.                                                              *)
(***************************************************************************)
EXTENDS Pages

MCPanel == {"orderbook", "chart", "prices"}
MCTypedOrder ==
  {t \in [amount : 40..110, price : 40..110] : Encodable(t.amount, t.price)}
MCPlacedOrder == {[amount |-> 80, price |-> 90]}
=============================================================================
