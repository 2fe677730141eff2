--------------------------- MODULE MCPaymentRequest -------------------------
(* Payment requests on small instances.                                      *)
EXTENDS PaymentRequest, TLC

People == Permutations(Users)
PeopleAndAccounts == Permutations(Users) \cup Permutations(Accounts)
=============================================================================
