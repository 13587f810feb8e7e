--------------------------- MODULE MCDurableBook ---------------------------
(* DurableBook on a small instance: the terms and the wiring of its run.   *)
EXTENDS DurableBook, TLC

MockWiring == {"disburse"}

\* Five dollars in two installments due the day they are lent.
TwoAtOnce == {[principal |-> 500, count |-> 2, interval |-> 0, ltv |-> 110]}

OneAtOnce == {[principal |-> 500, count |-> 1, interval |-> 0, ltv |-> 110]}

Twins == Permutations(LoanIds) \cup Permutations(Beneficiaries)
=============================================================================
