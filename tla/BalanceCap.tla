------------------------------ MODULE BalanceCap ------------------------------
(***************************************************************************)
(* The limit on what a deposit may bring the Bread balance to              *)
(* (src/src/bridge/core/balance-cap.ts).  Values are decimals: a whole     *)
(* coefficient and a scale, so that no digit of a token amount or of a     *)
(* price is lost when they are multiplied and added.                       *)
(***************************************************************************)
EXTENDS Integers, FiniteSetsExt

CONSTANTS
  Symbol,       \* the symbols with a price
  Deposited,    \* the symbol a deposit brings
  Price,        \* the price of each symbol, a decimal
  TokenScale,   \* the decimals of a token amount
  CapUsd        \* the limit, a decimal

(* Prices and the limit are what decimal() makes of a string: no sign, and *)
(* a scale of 0 or more.                                                   *)
ASSUME PriceAssumption ==
  /\ IsFiniteSet(Symbol) /\ Deposited \in Symbol /\ TokenScale \in Nat
  /\ Price \in [Symbol -> [units: Nat, scale: Nat]]
  /\ CapUsd \in [units: Nat, scale: Nat]

Decimal(units, scale) == [units |-> units, scale |-> scale]
Zero == Decimal(0, 0)
Minus(d) == [d EXCEPT !.units = -@]
Times(l, r) == Decimal(l.units * r.units, l.scale + r.scale)

(* 10 to the power of n.                                                   *)
Pow10[n \in Nat] == IF n = 0 THEN 1 ELSE 10 * Pow10[n - 1]

Add(l, r) ==
  LET scale == IF l.scale > r.scale THEN l.scale ELSE r.scale
      At(d) == d.units * Pow10[scale - d.scale]
  IN  Decimal(At(l) + At(r), scale)

(* What to ask a price for: the deposit and every holding.                 *)
PriceSymbols(balances) ==
  {Deposited} \cup {s \in Symbol : balances[s] > 0}

Worth(s, amount) == Times(Decimal(amount, TokenScale), Price[s])

(* The holdings with a price; the others are left out of the sum.          *)
TotalUsd(balances, priced) ==
  FoldSet(LAMBDA s, sum : Add(sum, Worth(s, balances[s])), Zero,
          {s \in priced : balances[s] > 0})

(* The verdict on a deposit of `amount`, given the prices that are known.  *)
EvaluateBalanceCap(amount, balances, priced) ==
  LET projected == Add(TotalUsd(balances, priced), Worth(Deposited, amount))
      excess    == Add(projected, Minus(CapUsd))
  IN  IF Deposited \notin priced THEN "unavailable"
      ELSE IF excess.units > 0 THEN "exceeded"
      ELSE "allowed"
=============================================================================
