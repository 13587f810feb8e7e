----------------------- MODULE InstallmentPlan_proofs -----------------------
(***************************************************************************)
(* Theorems about the arithmetic of one loan, for every principal, number  *)
(* of installments, LTV and safety buffer, and every order of payment, as  *)
(* long as there are cents enough for the installments.                    *)
(***************************************************************************)
EXTENDS InstallmentPlan, Arithmetic_proofs

PlanFits ==
    /\ principal \in Principals /\ count \in Counts /\ ltv \in Ltvs
    /\ paid \subseteq 1 .. count
    /\ EnoughCents(principal, count)

\* The inductive invariant: besides its bounds, what was released so far is
\* the share due, to the cent.
PlanInv == PlanFits /\ released \in 0 .. locked /\ ReleaseTracksRepayment

LEMMA PlanAmounts ==
  ASSUME PlanFits
  PROVE  /\ principal \in Nat \ {0} /\ count \in Nat \ {0} /\ ltv \in Nat
         /\ count * (count - 1) < 2 * principal
         /\ locked \in Nat /\ repaid \in Nat /\ repaid <= principal
  <1>1. /\ principal \in Nat \ {0} /\ count \in Nat \ {0} /\ ltv \in Nat
        /\ count * (count - 1) < 2 * principal /\ paid \subseteq 1 .. count
    BY PlanAssumption DEF PlanFits, EnoughCents
  <1>2. locked \in Nat
    BY <1>1, RequiredIsNat DEF locked
  <1>3. repaid \in Nat /\ repaid <= principal
    BY <1>1, RepaidBounds DEF repaid
  <1> QED
    BY <1>1, <1>2, <1>3

LEMMA PlanStart == ASSUME FewInstallments, Init PROVE PlanInv
  <1>1. PlanFits
    BY PlanAssumption DEF Init, PlanFits
  <1>2. locked \in Nat /\ principal \in Nat \ {0} /\ count \in Nat \ {0}
    BY <1>1, PlanAmounts
  <1>3. repaid = 0
    <2>1. Round(principal, count) \in Int /\ {} \ {count} = {} /\ Cardinality({}) = 0
      BY <1>2, RoundBounds, FS_EmptySet
    <2> QED
      BY <2>1 DEF Init, repaid, TotalRepaid
  <1>4. ShareDue(principal, locked, repaid) = 0
    <2>1. principal * 100 \in Nat \ {0} /\ 100 - SafetyBuffer \in Int
      BY <1>2, SafetyBufferAssumption
    <2>2. locked * repaid * (100 - SafetyBuffer) = 0 * (principal * 100)
      <3> HIDE DEF locked
      <3> QED
        BY <1>2, <1>3, <2>1
    <2> QED
      BY <2>1, <2>2, RoundExact DEF ShareDue
  <1> QED
    BY <1>1, <1>2, <1>4 DEF Init, PlanInv, ReleaseTracksRepayment, ShareDue

LEMMA PlanKept == ASSUME PlanInv, [Next]_vars PROVE PlanInv'
  <1>1. CASE UNCHANGED vars
    BY <1>1 DEF vars, PlanInv, PlanFits, ReleaseTracksRepayment, Complete, locked, repaid
  <1>2. ASSUME NEW i \in 1 .. count, Pay(i) PROVE PlanInv'
    <2> DEFINE p == principal
               L == locked
               R == released
               due == ShareDue(p, L, repaid')
    <2>1. PlanFits /\ PlanFits' /\ locked' = L /\ principal' = p
      BY <1>2 DEF PlanInv, PlanFits, Pay, locked
    <2>2. /\ p \in Nat \ {0} /\ count \in Nat \ {0} /\ L \in Nat /\ count * (count - 1) < 2 * p
          /\ repaid \in Nat /\ repaid <= p
      BY <2>1, PlanAmounts
    <2>3. repaid' \in Nat /\ repaid' <= p
      <3>1. paid' \subseteq 1 .. count /\ repaid' = TotalRepaid(p, count, paid')
        BY <1>2, <2>1 DEF PlanFits, Pay, repaid
      <3> QED
        BY <2>2, <3>1, RepaidBounds
    <2>4. repaid <= repaid'
      <3>1. paid \subseteq 1 .. count /\ i \notin paid
        BY <1>2, <2>1 DEF PlanFits, Pay
      <3>2. repaid' = TotalRepaid(p, count, paid \cup {i}) /\ repaid = TotalRepaid(p, count, paid)
        BY <1>2 DEF Pay, repaid
      <3>3. repaid' = repaid + InstallmentAmount(p, count, i)
        BY <2>2, <3>1, <3>2, RepaidGrows
      <3>4. InstallmentAmount(p, count, i) \in Nat
        BY <2>2, InstallmentIsPositive
      <3> QED
        BY <2>2, <3>3, <3>4
    <2>5. due \in Nat /\ due <= L
      BY <2>2, <2>3, ShareBounds
    <2>6. ~Complete /\ R = ShareDue(p, L, repaid) /\ R \in Nat /\ R <= L
      <3>1. ~Complete
        BY <1>2 DEF Pay, Complete
      <3> QED
        BY <2>2, <3>1 DEF PlanInv, ReleaseTracksRepayment, ShareDue
    <2>7. R <= due
      BY <2>2, <2>3, <2>4, <2>6, ShareMono
    <2>8. CASE paid' = 1 .. count
      <3>1. Complete' /\ released' = R + StillLocked(L, R, 0)
        BY <1>2, <2>8 DEF Pay, Complete
      <3>2. released' = L
        BY <2>2, <2>6, <3>1 DEF StillLocked, AtLeastZero
      <3> QED
        BY <2>1, <2>2, <3>1, <3>2 DEF PlanInv, ReleaseTracksRepayment
    <2>9. CASE paid' # 1 .. count
      <3>1. released' = R + ReleaseDue(p, L, R, repaid')
        BY <1>2, <2>9 DEF Pay
      <3>2. ReleaseDue(p, L, R, repaid') = IF due > R THEN due - R ELSE 0
        BY <2>2, <2>3, <2>6, ReleaseCatchesUp
      <3>3. released' = due
        <4> HIDE DEF due, R
        <4> QED
          BY <2>5, <2>6, <2>7, <3>1, <3>2
      <3> QED
        BY <2>1, <2>5, <3>3 DEF PlanInv, ReleaseTracksRepayment, ShareDue
    <2> QED
      BY <2>8, <2>9
  <1> QED
    BY <1>1, <1>2 DEF Next

LEMMA AlwaysPlanned == ASSUME FewInstallments PROVE Spec => []PlanInv
  BY PlanStart, PlanKept, PTL DEF Spec

\* No more collateral is released than was locked, whichever installments are
\* repaid and in whatever order.
THEOREM PlanTyped == ASSUME FewInstallments PROVE Spec => []PlanTypeOK
  <1>1. PlanInv => PlanTypeOK
    BY DEF PlanInv, PlanFits, PlanTypeOK
  <1> QED
    BY <1>1, AlwaysPlanned, PTL

\* Every installment, the last one included, is for a positive amount.
THEOREM NoInstallmentIsZero == ASSUME FewInstallments PROVE Spec => []InstallmentsPositive
  <1>1. PlanInv => InstallmentsPositive
    <2> SUFFICES ASSUME PlanInv, NEW i \in 1 .. count
                 PROVE  InstallmentAmount(principal, count, i) > 0
      BY DEF InstallmentsPositive
    <2>1. InstallmentAmount(principal, count, i) \in Nat \ {0}
      BY PlanAmounts, InstallmentIsPositive DEF PlanInv
    <2> QED
      BY <2>1
  <1> QED
    BY <1>1, AlwaysPlanned, PTL

\* Rounding does not accumulate: however it was paid, what has been released is
\* the rounded share of what has been repaid.
THEOREM RoundingDoesNotAccumulate ==
  ASSUME FewInstallments PROVE Spec => []ReleaseTracksRepayment
  <1>1. PlanInv => ReleaseTracksRepayment
    BY DEF PlanInv
  <1> QED
    BY <1>1, AlwaysPlanned, PTL

\* Until the last installment, the safety buffer is still locked.
THEOREM BufferStaysLocked == ASSUME FewInstallments PROVE Spec => []BufferRetained
  <1>1. PlanInv => BufferRetained
    <2> SUFFICES ASSUME PlanInv, ~Complete
                 PROVE  released <= Round(locked * (100 - SafetyBuffer), 100)
      BY DEF BufferRetained
    <2> DEFINE p == principal
               L == locked
               m == L * (100 - SafetyBuffer)
    <2>1. p \in Nat \ {0} /\ L \in Nat /\ repaid \in Nat /\ repaid <= p
      BY PlanAmounts DEF PlanInv
    <2>2. released = ShareDue(p, L, repaid)
      BY DEF PlanInv, ReleaseTracksRepayment, ShareDue
    <2>3. ShareDue(p, L, repaid) <= ShareDue(p, L, p)
      BY <2>1, ShareMono
    <2>4. ShareDue(p, L, p) = Round(m, 100)
      <3>1. m \in Int /\ L * p * (100 - SafetyBuffer) = p * m
        <4> HIDE DEF L, p
        <4> QED
          BY <2>1, SafetyBufferAssumption
      <3> HIDE DEF m
      <3> QED
        BY <2>1, <3>1, RoundScale DEF ShareDue
    <2> QED
      BY <2>2, <2>3, <2>4
  <1> QED
    BY <1>1, AlwaysPlanned, PTL
=============================================================================
