----------------------------- MODULE PriceBook -----------------------------
(***************************************************************************)
(* The quote of one good: economy.Price.                                   *)
(*                                                                         *)
(* The code computes                                                       *)
(*   round(base * demand * max(0.2, 1 + 0.5 (target - stock) / t)),        *)
(*   t = max(target, 1), never below 1,                                    *)
(* in float64; the model in exact fractions over Scale, demand in tenths   *)
(* as the content writes it.                                               *)
(***************************************************************************)
EXTENDS Integers

\* max(target, 1)
Pull(target) == IF target < 1 THEN 1 ELSE target

Scale(target) == 200 * Pull(target)

\* 20 * Pull(target) times the factor, floor included.
Factor(stock, target) ==
  LET f == 2 * Pull(target) + target - stock IN
    IF 5 * f < 2 * Pull(target) THEN 4 * Pull(target) ELSE 10 * f

\* Slip: a full stall asks for more.
PriceRises(base, demand, stock, target) == base + stock

\* math.Round of a non-negative fraction, and never below one.
Price(base, demand, stock, target) ==
  LET p == (2 * (base * demand * Factor(stock, target)) + Scale(target)) \div (2 * Scale(target))
  IN IF p < 1 THEN 1 ELSE p
=============================================================================
