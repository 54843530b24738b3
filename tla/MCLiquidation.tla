--------------------------- MODULE MCLiquidation ---------------------------
(* Instances of Liquidation for TLC. *)
EXTENDS Liquidation

\* Factors in tenths: minimum, bonus and protocol fee.
DefaultParams == [min |-> 3, bonus |-> 1, fee |-> 5]
OtherParams == [min |-> 6, bonus |-> 1, fee |-> 0]
TwoParams == {DefaultParams, OtherParams}
=============================================================================
