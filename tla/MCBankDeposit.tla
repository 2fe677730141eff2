---------------------------- MODULE MCBankDeposit ---------------------------
(* The pool of bank deposits on small instances.                             *)
EXTENDS BankDeposit, TLC

Alike == Permutations(Users) \cup Permutations(Deposits) \cup Permutations(Entries)
=============================================================================
