------------------------------ MODULE Pricing ------------------------------
(***************************************************************************)
(* What an order costs and how much traffic it is stored as.               *)
(*                                                                         *)
(* The amount comes from a form field and need only be is_numeric, so      *)
(* fractions and negative numbers are accepted.  Amounts are modelled in   *)
(* half gigabytes (h = 2 * amount), which is enough to tell the unrounded  *)
(* amount the price is computed from and the rounded one the int column    *)
(* payment_transactions.traffic keeps.  Money is computed exactly in       *)
(* twentieths of a yuan: 10 * (h/2) * (1 - (h/2)/50) = h * (100 - h) / 20. *)
(***************************************************************************)
EXTENDS Integers

\* 10 yuan per gigabyte; in yuan, an integer because h counts halves.
get_price(h) == h * 5

\* In percent: 20% off above 10 GB, else 2% off per gigabyte.
get_discount(h) == IF h > 20 THEN 80 ELSE 100 - h

\* view.php, refresh_price(): what the calculator shows, in twentieths of a
\* yuan (the product needs no rounding there).
Quote20(h) == h * get_discount(h)

\* (mutant) Rounded instead of floored.
OrderTotalRounded(h) == LET hundredths == get_price(h) * get_discount(h)
                        IN  IF hundredths < 100 THEN 1
                            ELSE (hundredths + 50) \div 100

\* new-order.php: price times discount, less than 1 yuan becomes 1, then floor.
OrderTotal(h) == LET hundredths == get_price(h) * get_discount(h)
                 IN  IF hundredths < 100 THEN 1 ELSE hundredths \div 100

\* Storing a decimal literal in an int column rounds half away from zero.
StoredTraffic(h) == IF h >= 0 THEN (h + 1) \div 2 ELSE -((1 - h) \div 2)
=============================================================================
