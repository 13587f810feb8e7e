---------------------------- MODULE MCChainLoans ----------------------------
(* Values of the constants for the runs of ChainLoans. *)
EXTENDS ChainLoansProperties, TLC

Twins == Permutations(Handlers) \cup Permutations(LoanIds)
=============================================================================
