------------------------------- MODULE Money -------------------------------
(***************************************************************************)
(* The loan arithmetic of src/services/loan.service.ts, in integer cents.  *)
(* The code keeps dollars as doubles and rounds to the cent after each     *)
(* computation; here an amount is the integer number of cents, a           *)
(* multiplication by a ratio is exact and the rounding is explicit.        *)
(* Ratios (LTV, safety buffer) are whole percentages.                      *)
(***************************************************************************)
EXTENDS Integers, FiniteSets

CONSTANT SafetyBuffer   \* config.protocol.safetyBufferRatio, in percent

ASSUME SafetyBufferAssumption == SafetyBuffer \in 0..100

AtLeastZero(x) == IF x > 0 THEN x ELSE 0

Least(x, y) == IF x < y THEN x ELSE y

\* Mutant: rounds up.
RoundUp(x, y) == -((-x) \div y)

\* Math.round(x / y): to the nearest integer, a half towards plus infinity.
Round(x, y) == (2 * x + y) \div (2 * y)

\* Collateral a loan of the given principal must lock at an LTV in percent.
RequiredCollateral(principal, ltv) == Round(principal * ltv, 100)

\* Equal installments rounded to the cent; the last one takes the difference.
InstallmentAmount(principal, count, i) ==
    IF i = count THEN principal - Round(principal, count) * (count - 1)
                 ELSE Round(principal, count)

\* What the installments in the set `paid` add up to.
TotalRepaid(principal, count, paid) ==
    Round(principal, count) * Cardinality(paid \ {count})
      + (IF count \in paid THEN InstallmentAmount(principal, count, count) ELSE 0)

\* Mutants: the buffer is released too; what was released is not deducted.
ReleaseDueNoBuffer(principal, locked, released, repaid) ==
    Round(AtLeastZero(locked * repaid - released * principal), principal)

ReleaseDueNotIncremental(principal, locked, released, repaid) ==
    Round(locked * repaid * (100 - SafetyBuffer), principal * 100)

\* Math.max(0, shouldBeReleased - collateralReleasedUsd), rounded to the cent,
\* where shouldBeReleased is locked * (repaid / principal) * (1 - buffer).
ReleaseDue(principal, locked, released, repaid) ==
    Round(AtLeastZero(locked * repaid * (100 - SafetyBuffer) - released * principal * 100),
          principal * 100)

\* Mutant: what was released still counts as locked.
StillLockedAll(locked, released, forfeited) == AtLeastZero(locked - forfeited)

\* outstandingCollateral and outstandingPrincipal.
StillLocked(locked, released, forfeited) == AtLeastZero(locked - released - forfeited)

StillOwed(principal, repaid) == AtLeastZero(principal - repaid)

\* What a default takes from the collateral still locked: the principal owed.
Forfeit(owed, held) == Least(owed, held)
=============================================================================
