-------------------------- MODULE MCCoilProduction --------------------------
(* Jobs and coils on a small instance: some coils are received, one is spare *)
(* for a split.                                                              *)
EXTENDS CoilProduction, TLC

CONSTANTS Whole, Stocked
InStock == [c \in Coils |-> IF c \in Stocked THEN Whole ELSE 0]
=============================================================================
