----------------------------- MODULE OrderForm -----------------------------
(***************************************************************************)
(* What the order form makes of the amount and the price a user types      *)
(* (dapp/src/hooks/transactions/useSendPairTransaction.ts).  Both become   *)
(* JavaScript numbers; the deposit is their product (or the amount) printed*)
(* as a decimal and shifted to the token's units, the asked amount is the  *)
(* number scaled by 10 ** 18.  The two sides of an order are so rounded at *)
(* different places.                                                       *)
(*                                                                         *)
(* A number is a binary float with Bits significant digits, written as an  *)
(* integer count of 2^-Grain: the code's doubles have 53 and tokens have 18*)
(* decimals, a run takes a few of each.  What the user typed is an integer *)
(* count of 10^-Decimals.                                                  *)
(***************************************************************************)
EXTENDS Integers

CONSTANTS
  Bits,      \* significant binary digits of a number, 53 in JavaScript
  Grain,     \* bound: numbers are multiples of 2^-Grain
  Decimals,  \* the 18 decimals of a token
  Digits     \* bound: decimal digits after (and before) the point of a number

ASSUME FormAssumption ==
  /\ Bits \in Nat \ {0}
  /\ Grain \in Nat
  /\ Decimals \in Nat
  /\ Digits \in Nat \ {0}

Unit == 10^Decimals

(* The number nearest to n / d grains, the even one of two (IEEE 754).     *)
Nearest(n, d) ==
  LET i == CHOOSE i \in 0..(2 * Grain) :
             /\ n < d * 2^(i + Bits)
             /\ i = 0 \/ n >= d * 2^(i + Bits - 1)
      ulp == d * 2^i
      q == n \div ulp
      r == n % ulp
      up == 2 * r > ulp \/ (2 * r = ulp /\ q % 2 = 1)
  IN (IF up THEN q + 1 ELSE q) * 2^i

(* The decimal m * 10^j as a number.                                       *)
OfDecimal(m, j) == IF j >= 0 THEN Nearest(m * 10^j * 2^Grain, 1)
                             ELSE Nearest(m * 2^Grain, 10^(-j))

(* The decimal with last digit at 10^j that is closest to the number x.    *)
Rounded(x, j) == IF j >= 0 THEN (2 * x + 10^j * 2^Grain) \div (2 * 10^j * 2^Grain)
                           ELSE (2 * x * 10^(-j) + 2^Grain) \div (2 * 2^Grain)

(* Number.toString: the shortest decimal that reads back as x, as a count  *)
(* of 10^-Digits.                                                          *)
Printed(x) ==
  LET ReadsBack(j) == Rounded(x, j) > 0 /\ OfDecimal(Rounded(x, j), j) = x
      j == CHOOSE j \in (-Digits)..Digits :
             /\ ReadsBack(j)
             /\ \A k \in (j + 1)..Digits : ~ReadsBack(k)
  IN Rounded(x, j) * 10^(j + Digits)

(* Number(text) of a typed text, and the product of two numbers.           *)
Typed(t) == Nearest(t * 2^Grain, Unit)
Times(x, y) == Nearest(x * y, 2^Grain)

(* TokenTransfer.fungibleFromAmount: the printed decimal, shifted by the   *)
(* token's decimals and rounded to an integer.                             *)
FungibleFromAmount(x) ==
  (2 * Printed(x) * Unit + 10^Digits) \div (2 * 10^Digits)

(* The argument x * 10 ** 18, which the encoder takes as printed.  With a  *)
(* fraction left it is no BigUint: what the encoder makes of it is not     *)
(* modelled.                                                               *)
Argument(x) == Printed(Nearest(x * Unit, 1)) \div 10^Digits
IsArgument(x) == Printed(Nearest(x * Unit, 1)) % 10^Digits = 0

----------------------------------------------------------------------------
(* sendCreateBuyOrder deposits quote tokens for the base tokens it asks.   *)
BuyTerms(amount, price) ==
  [input |-> FungibleFromAmount(Times(Typed(amount), Typed(price))),
   output |-> Argument(Typed(amount))]

(* Mutant: the sell order asks what the buy order asks.                    *)
SellTermsOfBuy(amount, price) ==
  [input |-> FungibleFromAmount(Typed(amount)), output |-> Argument(Typed(amount))]

(* sendCreateSellOrder deposits base tokens for the quote tokens it asks.  *)
SellTerms(amount, price) ==
  [input |-> FungibleFromAmount(Typed(amount)),
   output |-> Argument(Times(Typed(amount), Typed(price)))]

(* Whether the two arguments have an encoding.                             *)
Encodable(amount, price) ==
  /\ IsArgument(Typed(amount))
  /\ IsArgument(Times(Typed(amount), Typed(price)))
=============================================================================
