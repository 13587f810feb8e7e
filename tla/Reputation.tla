----------------------------- MODULE Reputation -----------------------------
(***************************************************************************)
(* What a beneficiary's history is worth: the composite score and the      *)
(* collateral ratio it qualifies for.  Scores run from 0 to 100; weights   *)
(* are in hundredths and ratios in basis points, so that the code's        *)
(* fractions are whole numbers here and its rounding is shown.  How        *)
(* consistently money was sent is a score of its own, given to Composite.  *)
(***************************************************************************)
EXTENDS Integers

CONSTANTS
    RemittanceWeight, RepaymentWeight,  \* hundredths
    DefaultLtv, MinLtv,                 \* basis points
    LtvReduction                        \* basis points for a point of score

ASSUME ReputationAssumption ==
    /\ RemittanceWeight \in Int /\ RepaymentWeight \in Int
    /\ DefaultLtv \in Nat /\ MinLtv \in Nat /\ LtvReduction \in Nat

\* The hundredths of n, rounded half up like Math.round.
Hundredths(n) == (n + 50) \div 100

\* Of the installments whose time has come, the share repaid on time.
RepaymentScore(onTime, counted) ==
    IF counted = 0 THEN 0 ELSE (200 * onTime + counted) \div (2 * counted)

Clamped(low, high, x) == IF x < low THEN low ELSE IF x > high THEN high ELSE x

CompositeScore(remittance, repayment) ==
    Clamped(0, 100, Hundredths(remittance * RemittanceWeight + repayment * RepaymentWeight))

\* A better score asks for less collateral, down to the floor; the rounding to
\* whole percent comes last, and a floor that is none is rounded too.
AdjustedLtv(score) ==
    LET ltv == DefaultLtv - LtvReduction * score IN
    100 * Hundredths(IF ltv < MinLtv THEN MinLtv ELSE ltv)
=============================================================================
