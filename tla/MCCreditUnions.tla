--------------------------- MODULE MCCreditUnions ---------------------------
(* CreditUnions with one or two requests at a time. *)
EXTENDS CreditUnions, TLC

Symmetry == Permutations(Workers) \cup Permutations(Users) \cup Permutations(Cus)
=============================================================================
