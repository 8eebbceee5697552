----------------------------- MODULE MCAccounts -----------------------------
(* Accounts with a member's address and one on the marketplace.  Ids and    *)
(* passwords are only ever compared, so permuting them changes nothing.     *)
EXTENDS Accounts, TLC

Symmetry == Permutations(Ids) \cup Permutations(Passwords)
=============================================================================
