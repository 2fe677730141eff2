-------------------------------- MODULE Totals --------------------------------
(* The total of the amounts of a set of rows: cash lines, journals, links.    *)
EXTENDS Functions

Total(S) == SumFunction([x \in S |-> x.amount])
=============================================================================
