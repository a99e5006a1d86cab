------------------------------- MODULE Money -------------------------------
(***************************************************************************)
(* The money arithmetic every stock service shares.                        *)
(*                                                                         *)
(* Amounts are integers counting the smallest unit the code keeps (0.01    *)
(* AED); quantities are integers counting any unit.  The code works in     *)
(* Python Decimals and rounds to two places with ROUND_HALF_UP, that is,   *)
(* half away from zero.                                                    *)
(***************************************************************************)
EXTENDS Integers

\* n / d rounded half away from zero; d > 0.
RoundHalfUp(n, d) ==
    IF n >= 0 THEN (2 * n + d) \div (2 * d)
              ELSE -((2 * (-n) + d) \div (2 * d))

\* The value that goes with q units out of `qty` units worth `aed`: all of it
\* when they are the last units, the rounded proportion otherwise.
Share(q, qty, aed) ==
    IF q = qty THEN aed ELSE RoundHalfUp(aed * q, qty)

\* The tax contained in a tax-inclusive amount at `rate` per cent.
GstComponent(gross, rate) ==
    IF rate = 0 THEN 0 ELSE RoundHalfUp(gross * rate, 100 + rate)
=============================================================================
