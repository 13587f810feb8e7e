----------------------------- MODULE MCLoanBook -----------------------------
(* LoanBook on small instances: the loan terms and wirings of the runs.    *)
EXTENDS LoanBookProperties, TLC

\* What yields to the event loop with the mock gateway and partner.
MockWiring == {"disburse"}

\* With both remote.  The remaining calls (deposits and withdrawals, quotes,
\* closing a loan on the gateway) answer at once, to keep the instance small.
RemoteWiring == {"lock", "record", "disburse", "unwind", "verify", "repay",
                 "release", "liquidate"}

\* Ten dollars in two or in three installments, a day apart, the third of
\* three a cent dearer; and five dollars due the day they are lent.
TwoInstallments == {[principal |-> 1000, count |-> 2, interval |-> 1, ltv |-> 150]}
ThreeInstallments == {[principal |-> 1000, count |-> 3, interval |-> 1, ltv |-> 110]}
OneInstallment == {[principal |-> 500, count |-> 1, interval |-> 0, ltv |-> 110]}
MixedTerms == ThreeInstallments \cup OneInstallment

\* Five cents in two installments: with a large buffer, one releases nothing.
SmallChange == {[principal |-> 5, count |-> 2, interval |-> 1, ltv |-> 110]}

Twins == Permutations(LoanIds) \cup Permutations(Beneficiaries) \cup Permutations(Handlers)
=============================================================================
