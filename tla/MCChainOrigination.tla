------------------------- MODULE MCChainOrigination -------------------------
(* Values of the constants for the run of ChainOrigination: a beneficiary  *)
(* without a history, and one with remittances and repayments on time, who *)
(* scores 92; and a ledger that does not round its ratio.                  *)
EXTENDS ChainOriginationProperties, TLC

Newcomer == [remittance |-> 0, onTime |-> 0, counted |-> 0]

Proven == [remittance |-> 80, onTime |-> 3, counted |-> 3]

TwoHistories == {Newcomer, Proven}

UnroundedLtv == [score \in 0 .. 100 |-> 15000 - 40 * score]

ASSUME LedgerAgrees

Twins == Permutations(Handlers) \cup Permutations(Hashes)
=============================================================================
