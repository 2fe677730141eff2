--------------------------- MODULE MCEditApproval ---------------------------
(* Two codes, two records, a clerk and two approvers, on two processes.      *)
EXTENDS EditApproval, TLC

CONSTANTS bm1, bm2
Managers == {bm1, bm2}
Alike == Permutations(Tokens) \cup Permutations(Records) \cup Permutations(Procs)
           \cup Permutations(Managers)
=============================================================================
