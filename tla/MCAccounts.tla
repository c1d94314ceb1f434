---------------------------- MODULE MCAccounts -----------------------------
(* Accounts for TLC: the requests are alike until they arrive.             *)
EXTENDS Accounts, TLC

RequestsAlike == Permutations(Request)
=============================================================================
