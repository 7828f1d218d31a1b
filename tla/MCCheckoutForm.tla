---------------------------- MODULE MCCheckoutForm ----------------------------
(***************************************************************************)
(* Small instances of CheckoutForm for TLC: the four products, of which the  *)
(* micro loan is the default and the last one asks for collateral.          *)
(***************************************************************************)
EXTENDS CheckoutForm, TLC

CONSTANTS a1, a2, i1   \* model values

Quote(id, ok, max, tenor, ratio) ==
  [id |-> id, qualified |-> ok, max |-> max, tenor |-> tenor, secured |-> ratio > 0,
   ratio |-> ratio, rollup |-> TRUE]

\* Which of the products the account qualifies for.  An admin has shortened the micro
\* loan to a month, so that the tenor of the first draft must be fitted.
Products(q) ==
  <<Quote(1, 1 \in q, 500, 1, 0), Quote(2, 2 \in q, 2500, 6, 0),
    Quote(3, 3 \in q, 5000, 12, 0), Quote(4, 4 \in q, 20000, 18, 15000)>>

\* The collateralised product with some of the LEND liquid, under a short tenor cap; the
\* standard one while the protocol is paused; nothing that qualifies.
Liquid == [quotes |-> Products({1, 4}), liquid |-> 500, cap |-> 3, paused |-> FALSE]
Paused == [quotes |-> Products({1, 2}), liquid |-> 900, cap |-> 12, paused |-> TRUE]
Unfit  == [quotes |-> Products({}), liquid |-> 900, cap |-> 12, paused |-> FALSE]

MCTerms == {Liquid, Paused, Unfit}

MCRows == {[score |-> 300, held |-> 100, liquid |-> 900]}

MCApps == {a1, a2}
MCCatalogue == i1 :> [app |-> a1, price |-> 400]
MCRoutes == {[apps |-> {a1, a2}, items |-> {i1}], [apps |-> {a2}, items |-> {}]}
MCAmounts == {200, 600}
MCCollaterals == {300, 900}
=============================================================================
