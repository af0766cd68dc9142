----------------------------- MODULE MCTrading -----------------------------
(***************************************************************************)
(* A small instance of Trading for TLC: numbers of 5 binary digits, tokens *)
(* of two decimals.  Amounts are whole multiples of a tenth, whose product *)
(* with the price is exact in the token's decimals: what does not match    *)
(* does not because of the numbers, not of the token.                      *)
(***************************************************************************)
EXTENDS Trading

MCTypedAmount == {50, 80, 90}
MCTypedPrice == {70, 90}
MCAmount ==
  UNION {{BuyTerms(a, p).input, BuyTerms(a, p).output,
          SellTerms(a, p).input, SellTerms(a, p).output} :
         a \in MCTypedAmount, p \in MCTypedPrice}
=============================================================================
