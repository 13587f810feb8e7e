-------------------------- MODULE InstallmentPlan --------------------------
(***************************************************************************)
(* The arithmetic of one loan over its life: installments paid in any      *)
(* order, each releasing what computeCollateralRelease says, the last one  *)
(* everything that is left.  Times, statuses and accounts are LoanBook's   *)
(* business; here every principal, count and LTV within bounds is tried.   *)
(***************************************************************************)
EXTENDS Money

CONSTANTS Principals, Counts, Ltvs, \* cents, installments, percent
          FewInstallments           \* only plans with enough cents to go round

ASSUME PlanAssumption ==
    /\ Principals \subseteq Nat \ {0}
    /\ Counts \subseteq Nat \ {0}
    /\ Ltvs \subseteq Nat
    /\ FewInstallments \in BOOLEAN

VARIABLES principal, count, ltv, \* the plan
          paid,                  \* installments repaid so far
          released               \* collateral released so far

vars == <<principal, count, ltv, paid, released>>

locked == RequiredCollateral(principal, ltv)

repaid == TotalRepaid(principal, count, paid)

\* Enough cents that rounding each installment up leaves some for the last.
EnoughCents(p, c) == c * (c - 1) < 2 * p

Init ==
    /\ principal \in Principals /\ count \in Counts /\ ltv \in Ltvs
    /\ FewInstallments => EnoughCents(principal, count)
    /\ paid = {}
    /\ released = 0

Pay(i) ==
    /\ i \notin paid
    /\ UNCHANGED <<principal, count, ltv>>
    /\ paid' = paid \cup {i}
    /\ released' = released +
         IF paid' = 1 .. count THEN StillLocked(locked, released, 0)
                               ELSE ReleaseDue(principal, locked, released, repaid')

Next == \E i \in 1 .. count : Pay(i)

Spec == Init /\ [][Next]_vars

-----------------------------------------------------------------------------
Complete == paid = 1 .. count

\* Every variable keeps its type, and no more is released than was locked.
PlanTypeOK ==
    /\ principal \in Principals /\ count \in Counts /\ ltv \in Ltvs
    /\ paid \subseteq 1 .. count
    /\ released \in 0 .. locked

\* Every installment is for a positive amount, so that the partner can attest
\* it: the endpoint refuses an attestation whose amount is zero.
InstallmentsPositive ==
    \A i \in 1 .. count : InstallmentAmount(principal, count, i) > 0

\* Until the last installment, the safety buffer is still locked, to within
\* the rounding of one release.
BufferRetained ==
    ~Complete => released <= Round(locked * (100 - SafetyBuffer), 100)

\* Rounding does not accumulate and order does not matter: what has been
\* released is the rounded share of what has been repaid, however it was paid.
ReleaseTracksRepayment ==
    ~Complete => released = Round(locked * repaid * (100 - SafetyBuffer), principal * 100)

=============================================================================
