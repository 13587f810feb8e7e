---------------------- MODULE LoanBookAccounts_proofs ----------------------
(***************************************************************************)
(* That the accounts of the collateral and the loans they back tell one    *)
(* story: a loan's collateral is split without remainder and covers what   *)
(* is owed, a vault has locked what its loans still lock, and the gateway  *)
(* holds the same.                                                         *)
(***************************************************************************)
EXTENDS LoanBookShipped_proofs, Arithmetic_proofs

-----------------------------------------------------------------------------
(* How a loan's collateral is split                                        *)

\* Enough cents in every principal that rounding each installment up leaves
\* some for the last one.
RoomForCents == \A tm \in Terms : tm.count * (tm.count - 1) < 2 * tm.principal

\* The collateral asked for is at least what is lent.
FullyBacked == \A tm \in Terms : tm.ltv >= 100

ItemsWithin(ln) == \A i \in Installments : i > ln.terms.count => ln.item[i] = "absent"

\* What has been released of a loan and what was forfeited fit in what it
\* locked, and while it is open only the share of what was repaid is released.
Split(ln) ==
    /\ ItemsWithin(ln)
    /\ ln.locked = RequiredCollateral(ln.terms.principal, ln.terms.ltv)
    /\ 0 <= ln.released /\ 0 <= ln.forfeited /\ ln.released + ln.forfeited <= ln.locked
    /\ IsOpen(ln) =>
         /\ ln.forfeited = 0
         /\ ln.released <= ShareDue(ln.terms.principal, ln.locked, RepaidTotal(ln))

AmountsInv == \A l \in LoanIds : loan[l].status # "none" => Split(loan[l])

LEMMA TermsRoom ==
  ASSUME RoomForCents, NEW tm \in Terms
  PROVE  /\ tm.principal \in Nat \ {0} /\ tm.count \in Nat \ {0} /\ tm.ltv \in Nat
         /\ tm.count * (tm.count - 1) < 2 * tm.principal
         /\ RequiredCollateral(tm.principal, tm.ltv) \in Nat
  <1>1. tm.principal \in Nat \ {0} /\ tm.count \in Nat \ {0} /\ tm.ltv \in Nat
    BY LoanBookAssumption DEF Term
  <1> QED
    BY <1>1, RequiredIsNat DEF RoomForCents

\* What has been repaid of a loan is never more than was lent.
LEMMA RepaidWithin ==
  ASSUME RoomForCents, NEW ln \in LoanRecord, ln.terms \in Terms, ItemsWithin(ln)
  PROVE  /\ ItemsIn(ln, "repaid") \subseteq 1 .. ln.terms.count
         /\ RepaidTotal(ln) \in Nat /\ RepaidTotal(ln) <= ln.terms.principal
  <1> DEFINE c == ln.terms.count
             p == ln.terms.principal
             S == ItemsIn(ln, "repaid")
  <1>1. c \in Nat \ {0} /\ p \in Nat \ {0} /\ c * (c - 1) < 2 * p
    BY TermsRoom
  <1>2. S \subseteq 1 .. c
    <2> SUFFICES ASSUME NEW i \in S PROVE i \in 1 .. c
      OBVIOUS
    <2>1. i \in Installments /\ ~(i > c)
      BY DEF ItemsIn, ItemsWithin
    <2>2. i \in Nat \ {0}
      BY <2>1, LoanBookAssumption DEF Installments, Term
    <2> HIDE DEF c
    <2> QED
      BY <1>1, <2>1, <2>2
  <1> HIDE DEF c, p, S
  <1>3. TotalRepaid(p, c, S) \in Nat /\ TotalRepaid(p, c, S) <= p
    BY <1>1, <1>2, RepaidBounds
  <1> QED
    BY <1>2, <1>3 DEF RepaidTotal, c, p, S

\* What has not been released or forfeited of a loan is still locked for it.
LEMMA SplitHeld ==
  ASSUME RoomForCents, NEW ln \in LoanRecord, ln.terms \in Terms, Split(ln)
  PROVE  /\ ln.locked \in Nat /\ ln.released \in Nat /\ ln.forfeited \in Nat
         /\ OutstandingCollateral(ln) = ln.locked - ln.released - ln.forfeited
         /\ OutstandingCollateral(ln) \in Nat
  <1>1. ln.locked \in Nat /\ ln.released \in Int /\ ln.forfeited \in Int
    BY TermsRoom DEF Split, LoanRecord
  <1>2. 0 <= ln.released /\ 0 <= ln.forfeited /\ ln.released + ln.forfeited <= ln.locked
    BY DEF Split
  <1> QED
    BY <1>1, <1>2 DEF OutstandingCollateral, StillLocked, AtLeastZero

\* A release of the share due leaves no more than the share due released.
LEMMA ShareReleased ==
  ASSUME RoomForCents, NEW ln \in LoanRecord, ln.terms \in Terms, Split(ln), IsOpen(ln)
  PROVE  /\ ln.released + CollateralRelease(ln)
              = ShareDue(ln.terms.principal, ln.locked, RepaidTotal(ln))
         /\ CollateralRelease(ln) \in Nat
         /\ ln.released + CollateralRelease(ln) <= ln.locked
  <1> DEFINE p == ln.terms.principal
             rep == RepaidTotal(ln)
             due == ShareDue(p, ln.locked, rep)
  <1>1. p \in Nat \ {0} /\ ln.locked \in Nat /\ ln.released \in Nat
    BY TermsRoom, SplitHeld
  <1>2. rep \in Nat /\ rep <= p
    BY RepaidWithin DEF Split
  <1>3. ln.released <= due
    BY DEF Split
  <1>4. CollateralRelease(ln) = ReleaseDue(p, ln.locked, ln.released, rep)
    BY DEF CollateralRelease
  <1> HIDE DEF p, rep
  <1>5. due \in Nat /\ due <= ln.locked
    BY <1>1, <1>2, ShareBounds
  <1>6. CollateralRelease(ln) = IF due > ln.released THEN due - ln.released ELSE 0
    <2>1. ln.locked \in Int /\ ln.released \in Int /\ rep \in Int
      BY <1>1, <1>2
    <2> QED
      BY <1>1, <1>4, <2>1, ReleaseCatchesUp
  <1> HIDE DEF due
  <1>7. ln.released + CollateralRelease(ln) = due /\ CollateralRelease(ln) \in Nat
    BY <1>1, <1>3, <1>5, <1>6
  <1> QED
    BY <1>5, <1>7 DEF due, p, rep

\* Nothing is released, forfeited or taken off the schedule, and nothing repaid undone.
LEMMA SameSplit ==
  ASSUME RoomForCents, NEW x \in LoanRecord, NEW y \in LoanRecord, y.terms \in Terms, Split(y),
         SameContract(x, y), x.released = y.released, x.forfeited = y.forfeited,
         \A i \in Installments : y.item[i] = "absent" => x.item[i] = "absent",
         IsOpen(x) => IsOpen(y) /\ RepaidTotal(y) <= RepaidTotal(x)
  PROVE  Split(x)
  <1>1. /\ ItemsWithin(x) /\ x.locked = RequiredCollateral(x.terms.principal, x.terms.ltv)
        /\ 0 <= x.released /\ 0 <= x.forfeited /\ x.released + x.forfeited <= x.locked
    BY DEF Split, SameContract, ItemsWithin
  <1>2. ASSUME IsOpen(x)
        PROVE  x.forfeited = 0 /\ x.released <= ShareDue(x.terms.principal, x.locked, RepaidTotal(x))
    <2> DEFINE p == y.terms.principal
               a == RepaidTotal(y)
               b == RepaidTotal(x)
    <2>1. p \in Nat \ {0} /\ y.locked \in Nat /\ y.released \in Nat
      BY TermsRoom, SplitHeld
    <2>2. a \in Nat /\ b \in Nat /\ a <= p /\ b <= p
      <3>1. x.terms \in Terms /\ x.terms.principal = p
        BY DEF SameContract
      <3> QED
        BY <1>1, <3>1, RepaidWithin DEF Split
    <2>3. a <= b /\ y.forfeited = 0 /\ y.released <= ShareDue(p, y.locked, a)
      BY <1>2 DEF Split
    <2>4. x.terms.principal = p /\ x.locked = y.locked
      BY DEF SameContract
    <2> HIDE DEF p, a, b
    <2>5. ShareDue(p, y.locked, a) <= ShareDue(p, y.locked, b)
      BY <2>1, <2>2, <2>3, ShareMono
    <2>6. ShareDue(p, y.locked, a) \in Nat /\ ShareDue(p, y.locked, b) \in Nat
      BY <2>1, <2>2, ShareBounds
    <2>7. y.released <= ShareDue(p, y.locked, b)
      BY <2>1, <2>3, <2>5, <2>6
    <2> QED
      BY <2>3, <2>4, <2>7 DEF b
  <1> QED
    BY <1>1, <1>2 DEF Split

\* A new loan has locked what is required, and released nothing.
LEMMA NewSplit ==
  ASSUME RoomForCents, NEW x \in LoanRecord, NEW g, NEW b, NEW tm \in Terms, x = NewLoan(g, b, tm)
  PROVE  Split(x)
  <1>1. /\ x.terms = tm /\ x.released = 0 /\ x.forfeited = 0
        /\ x.locked = RequiredCollateral(tm.principal, tm.ltv)
        /\ \A i \in Installments : x.item[i] = IF i <= tm.count THEN "pending" ELSE "absent"
    BY NewLoanFields
  <1>2. /\ tm.principal \in Nat \ {0} /\ tm.count \in Nat \ {0}
        /\ RequiredCollateral(tm.principal, tm.ltv) \in Nat
    BY TermsRoom
  <1>3. ItemsWithin(x)
    <2> SUFFICES ASSUME NEW i \in Installments, i > tm.count PROVE ~(i <= tm.count)
      BY <1>1 DEF ItemsWithin
    <2>1. i \in Nat
      BY LoanBookAssumption DEF Installments, Term
    <2> QED
      BY <1>2, <2>1
  <1>4. RepaidTotal(x) \in Nat /\ RepaidTotal(x) <= tm.principal
    BY <1>1, <1>3, RepaidWithin
  <1>5. ShareDue(tm.principal, x.locked, RepaidTotal(x)) \in Nat
    BY <1>1, <1>2, <1>4, ShareBounds
  <1> QED
    BY <1>1, <1>2, <1>3, <1>5 DEF Split

\* An installment more is repaid of an open loan.
LEMMA AttestedRepaid ==
  ASSUME RoomForCents, NEW x \in LoanRecord, NEW y \in LoanRecord, y.terms \in Terms,
         ItemsWithin(y), x.terms = y.terms,
         NEW k \in Installments, y.item[k] \in {"pending", "overdue"},
         \A i \in Installments : x.item[i] = IF i = k THEN "repaid" ELSE y.item[i]
  PROVE  RepaidTotal(y) <= RepaidTotal(x)
  <1> DEFINE p == y.terms.principal
             c == y.terms.count
             S == ItemsIn(y, "repaid")
             T == ItemsIn(x, "repaid")
  <1>1. c \in Nat \ {0} /\ p \in Nat \ {0} /\ c * (c - 1) < 2 * p
    BY TermsRoom
  <1>2. S \subseteq 1 .. c
    BY RepaidWithin
  <1>3. k \in 1 .. c /\ k \notin S /\ T = S \cup {k}
    <2>1. k \in Nat \ {0} /\ ~(k > c)
      BY LoanBookAssumption DEF Installments, Term, ItemsWithin
    <2>2. k \notin S /\ T = S \cup {k}
      BY DEF ItemsIn
    <2> HIDE DEF c, S, T
    <2> QED
      BY <1>1, <2>1, <2>2
  <1>4. RepaidTotal(y) = TotalRepaid(p, c, S) /\ RepaidTotal(x) = TotalRepaid(p, c, T)
    BY DEF RepaidTotal
  <1>5. RepaidTotal(y) \in Int
    BY RepaidInt
  <1> HIDE DEF p, c, S, T
  <1>6. TotalRepaid(p, c, T) = TotalRepaid(p, c, S) + InstallmentAmount(p, c, k)
    BY <1>1, <1>2, <1>3, RepaidGrows
  <1>7. InstallmentAmount(p, c, k) \in Nat
    BY <1>1, <1>3, InstallmentIsPositive
  <1> QED
    BY <1>4, <1>5, <1>6, <1>7

\* A loan's share is released, or all of it when it is repaid in full.
LEMMA SettledSplit ==
  ASSUME RoomForCents, NEW t \in Tasks, NEW x \in LoanRecord, NEW y \in LoanRecord,
         y.terms \in Terms, Split(y), IsOpen(y), SameContract(x, y), SettledTo(t, x, y),
         task[t].at = "release" =>
           task[t].amount = IF AllRepaid(y) THEN OutstandingCollateral(y) ELSE CollateralRelease(y)
  PROVE  Split(x)
  <1>1. /\ x.item = y.item /\ x.forfeited = y.forfeited
        /\ RepaidTotal(x) = RepaidTotal(y)
    BY SameRepaid DEF SettledTo, ItemsIn
  <1>2. RepaidTotal(y) \in Int
    BY RepaidInt
  <1>3. CASE x.released = y.released
    <2>1. RepaidTotal(y) <= RepaidTotal(x)
      BY <1>1, <1>2
    <2> QED
      BY <1>1, <1>3, <2>1, SameSplit
  <1>4. ItemsWithin(x) /\ x.locked = RequiredCollateral(x.terms.principal, x.terms.ltv)
    BY <1>1 DEF Split, SameContract, ItemsWithin
  <1>5. /\ y.locked \in Nat /\ y.released \in Nat /\ y.forfeited = 0
        /\ OutstandingCollateral(y) = y.locked - y.released - y.forfeited
        /\ OutstandingCollateral(y) \in Nat
        /\ x.locked = y.locked
    BY SplitHeld DEF Split, SameContract
  <1>6. CASE AllRepaid(y) /\ x.released = y.released + OutstandingCollateral(y)
    <2>1. x.status = "repaid"
      BY <1>6 DEF SettledTo
    <2>2. 0 <= x.released /\ 0 <= x.forfeited /\ x.released + x.forfeited <= x.locked
      BY <1>1, <1>5, <1>6
    <2> QED
      BY <1>4, <2>1, <2>2 DEF Split, IsOpen
  <1>7. CASE ~AllRepaid(y) /\ x.released = y.released + CollateralRelease(y)
    <2>1. /\ x.released = ShareDue(y.terms.principal, y.locked, RepaidTotal(y))
          /\ CollateralRelease(y) \in Nat /\ x.released <= y.locked
      BY <1>7, ShareReleased
    <2>2. x.released = ShareDue(x.terms.principal, x.locked, RepaidTotal(x))
      BY <1>1, <2>1 DEF SameContract
    <2>3. x.released \in Nat
      BY <1>5, <1>7, <2>1
    <2>4. 0 <= x.released /\ 0 <= x.forfeited /\ x.released + x.forfeited <= x.locked
          /\ x.forfeited = 0
      BY <1>1, <1>5, <2>1, <2>3
    <2>5. x.released <= ShareDue(x.terms.principal, x.locked, RepaidTotal(x))
      BY <2>2, <2>3
    <2> QED
      BY <1>4, <2>4, <2>5 DEF Split
  <1> QED
    BY <1>3, <1>6, <1>7 DEF SettledTo

\* A default divides what is still locked, with nothing left over.
LEMMA DefaultedSplit ==
  ASSUME RoomForCents, NEW t, NEW l, NEW x \in LoanRecord, NEW y \in LoanRecord,
         y.terms \in Terms, Split(y), IsOpen(y), SameContract(x, y), DefaultedTo(t, l, x, y)
  PROVE  Split(x) /\ x.released + x.forfeited = x.locked
  <1> DEFINE held == OutstandingCollateral(y)
             owed == OutstandingPrincipal(y)
  <1>1. /\ y.locked \in Nat /\ y.released \in Nat /\ y.forfeited = 0
        /\ held = y.locked - y.released - y.forfeited /\ held \in Nat
        /\ x.locked = y.locked
    BY SplitHeld DEF Split, SameContract
  <1>2. owed \in Nat
    BY AmountsNat, TermsRoom DEF Begun, IsOpen
  <1>3. ItemsWithin(x) /\ x.locked = RequiredCollateral(x.terms.principal, x.terms.ltv)
        /\ x.status = "defaulted"
    BY DEF Split, SameContract, ItemsWithin, DefaultedTo
  <1>4. PICK f \in {Forfeit(owed, held)} :
          x.forfeited = y.forfeited + f /\ x.released = y.released + (held - f)
    BY DEF DefaultedTo
  <1> HIDE DEF held, owed
  <1>5. f \in Nat /\ f <= held
    BY <1>1, <1>2, <1>4 DEF Forfeit, Least
  <1>6. /\ 0 <= x.released /\ 0 <= x.forfeited
        /\ x.released + x.forfeited = x.locked
    BY <1>1, <1>4, <1>5
  <1>7. x.released + x.forfeited <= x.locked
    BY <1>1, <1>6
  <1> QED
    BY <1>3, <1>6, <1>7 DEF Split, IsOpen

LEMMA AmountsKept ==
  ASSUME OneAtATime, RoomForCents, TypeInv, ShippedInv, AmountsInv, [Next]_vars
  PROVE  AmountsInv'
  <1> SUFFICES ASSUME NEW l \in LoanIds, loan'[l].status # "none" PROVE Split(loan'[l])
    BY DEF AmountsInv, Split, ItemsWithin, IsOpen, RepaidTotal, ItemsIn
  <1> DEFINE x == loan'[l]
             y == loan[l]
  <1>1. x \in LoanRecord /\ y \in LoanRecord
    BY StepTyped DEF TypeInv, TypeOK
  <1>2. CASE y.status = "none"
    <2>1. PICK t \in Tasks : /\ task[t].terms \in Terms
                             /\ x = NewLoan(task[t].guarantor, task[t].beneficiary, task[t].terms)
      BY <1>2, UnbegunMoves
    <2> QED
      BY <1>1, <2>1, NewSplit
  <1>3. ASSUME y.status # "none"
        PROVE  y.terms \in Terms /\ Split(y) /\ SameContract(x, y) /\ RepaidTotal(y) \in Int
    <2>1. y.terms \in Terms
      BY <1>3 DEF TypeInv
    <2> QED
      BY <1>1, <1>3, <2>1, ContractKept, RepaidInt DEF AmountsInv, ShippedInv
  <1>4. CASE y.status \in {"repaid", "defaulted"}
    <2>1. /\ x.status = y.status /\ x.item = y.item
          /\ x.released = y.released /\ x.forfeited = y.forfeited
      BY <1>4, ClosedStays
    <2>2. ~IsOpen(x)
      BY <1>4, <2>1 DEF IsOpen
    <2> QED
      BY <1>1, <1>3, <1>4, <2>1, <2>2, SameSplit
  <1>5. CASE IsOpen(y)
    <2>1. y.status # "none"
      BY <1>5 DEF IsOpen
    <2>2. /\ y.terms \in Terms /\ Split(y) /\ SameContract(x, y) /\ RepaidTotal(y) \in Int
      BY <1>3, <2>1
    <2>3. ASSUME ItemsIn(x, "repaid") = ItemsIn(y, "repaid")
          PROVE  RepaidTotal(y) <= RepaidTotal(x)
      <3>1. RepaidTotal(x) = RepaidTotal(y)
        BY <2>2, <2>3, SameRepaid
      <3> QED
        BY <2>2, <3>1
    <2>4. CASE Rests(x, y)
      <3>1. /\ x.released = y.released /\ x.forfeited = y.forfeited /\ x.item = y.item
        BY <2>4 DEF Rests
      <3> QED
        BY <1>1, <1>5, <2>2, <2>3, <3>1, SameSplit DEF ItemsIn
    <2>5. ASSUME NEW t \in Tasks, Swept(t, x, y) PROVE Split(x)
      <3>1. /\ x.released = y.released /\ x.forfeited = y.forfeited
            /\ \A i \in Installments : y.item[i] = "absent" => x.item[i] = "absent"
            /\ ItemsIn(x, "repaid") = ItemsIn(y, "repaid")
        BY <2>5 DEF Swept, PastDue, ItemsIn
      <3> QED
        BY <1>1, <1>5, <2>2, <2>3, <3>1, SameSplit
    <2>6. ASSUME NEW t \in Tasks, Attested(t, x, y) PROVE Split(x)
      <3>1. /\ x.released = y.released /\ x.forfeited = y.forfeited
            /\ \A i \in Installments : y.item[i] = "absent" => x.item[i] = "absent"
        BY <2>6 DEF Attested
      <3>2. RepaidTotal(y) <= RepaidTotal(x)
        BY <1>1, <2>2, <2>6, AttestedRepaid DEF Attested, Split, SameContract
      <3> QED
        BY <1>1, <1>5, <2>2, <3>1, <3>2, SameSplit
    <2>7. ASSUME NEW t \in Tasks, task[t].loan = l, SettledTo(t, x, y) PROVE Split(x)
      <3>1. task[t].at = "release" => task[t].amount =
              IF AllRepaid(y) THEN OutstandingCollateral(y) ELSE CollateralRelease(y)
        BY <2>7 DEF ShippedInv, TurnInv, InHand
      <3> QED
        BY <1>1, <1>5, <2>2, <2>7, <3>1, SettledSplit
    <2>8. ASSUME NEW t \in Tasks, DefaultedTo(t, l, x, y) PROVE Split(x)
      BY <1>1, <1>5, <2>2, <2>8, DefaultedSplit
    <2> QED
      BY <1>5, <2>4, <2>5, <2>6, <2>7, <2>8, OpenLoanMoves DEF OpenMoves
  <1> QED
    BY <1>2, <1>4, <1>5, StatusCases

LEMMA AlwaysSplit ==
  ASSUME OneAtATime, FromTheListing, RoomForCents PROVE Spec => []AmountsInv
  <1>1. Init => AmountsInv
    BY DEF Init, NoLoan, AmountsInv
  <1>2. TypeInv /\ ShippedInv /\ AmountsInv /\ [Next]_vars => AmountsInv'
    BY AmountsKept
  <1> QED
    BY <1>1, <1>2, AlwaysTyped, AlwaysInHand, PTL DEF Spec

LEMMA SplitCovers ==
  ASSUME RoomForCents, FullyBacked, NEW ln \in LoanRecord, ln.terms \in Terms, Split(ln), IsOpen(ln)
  PROVE  /\ OutstandingCollateral(ln) >= OutstandingPrincipal(ln)
         /\ ln.locked >= ln.terms.principal
  <1> DEFINE p == ln.terms.principal
             rep == RepaidTotal(ln)
  <1>1. /\ ln.locked \in Nat /\ ln.released \in Nat /\ ln.forfeited = 0
        /\ OutstandingCollateral(ln) = ln.locked - ln.released - ln.forfeited
        /\ ln.released <= ShareDue(p, ln.locked, rep)
    BY SplitHeld DEF Split
  <1>2. p \in Nat \ {0} /\ ln.terms.ltv \in Nat /\ rep \in Nat /\ rep <= p
    BY TermsRoom, RepaidWithin DEF Split
  <1>3. p <= ln.locked
    <2> DEFINE v == ln.terms.ltv
    <2>1. ln.locked = Round(p * v, 100)
      BY DEF Split, RequiredCollateral
    <2>2. p \in Nat /\ v \in Int /\ 100 <= v
      BY <1>2 DEF FullyBacked
    <2> HIDE DEF p, v
    <2>3. p * 100 <= p * v /\ p * 100 \in Int /\ p * v \in Int
      BY <2>2, TimesMono
    <2>4. Round(p * 100, 100) = p
      BY <2>2, RoundExact
    <2> QED
      BY <2>1, <2>3, <2>4, RoundMono
  <1>4. OutstandingPrincipal(ln) = p - rep
    BY <1>2 DEF OutstandingPrincipal, StillOwed, AtLeastZero
  <1>5. p - rep <= ln.locked - ShareDue(p, ln.locked, rep) /\ ShareDue(p, ln.locked, rep) \in Nat
    <2> HIDE DEF p, rep
    <2> QED
      BY <1>1, <1>2, <1>3, ShareCovers, ShareBounds
  <1>6. OutstandingCollateral(ln) >= OutstandingPrincipal(ln)
    <2> HIDE DEF p, rep
    <2> QED
      BY <1>1, <1>2, <1>4, <1>5
  <1> QED
    BY <1>1, <1>2, <1>3, <1>6

\* With the shipped gateway and partner, and loans backed by as much as they
\* lend, the collateral still locked for an open loan covers what is owed on
\* it, in whatever order installments are attested and however releases are
\* rounded.
THEOREM CollateralCovers ==
  ASSUME OneAtATime, FromTheListing, RoomForCents, FullyBacked
  PROVE  Spec => []CollateralCoversDebt
  <1>1. TypeInv /\ AmountsInv => CollateralCoversDebt
    <2> SUFFICES ASSUME TypeInv, AmountsInv, NEW l \in OpenLoans
                 PROVE  OutstandingCollateral(loan[l]) >= OutstandingPrincipal(loan[l])
      BY DEF CollateralCoversDebt
    <2>1. /\ loan[l] \in LoanRecord /\ loan[l].terms \in Terms
          /\ Split(loan[l]) /\ IsOpen(loan[l])
      BY DEF TypeInv, TypeOK, AmountsInv, OpenLoans, IsOpen
    <2> QED
      BY <2>1, SplitCovers
  <1> QED
    BY <1>1, AlwaysTyped, AlwaysSplit, PTL

-----------------------------------------------------------------------------
(* A vault has locked what its loans still lock                            *)

\* What is still locked for a loan while it is in the store.
HeldBy(bk, lns, l) == IF l \in bk THEN OutstandingCollateral(lns[l]) ELSE 0

\* That, of the loans of one guarantor.
Locks(bk, lns, g) ==
    [l \in LoanIds |-> IF lns[l].guarantor = g THEN HeldBy(bk, lns, l) ELSE 0]

SumInv == \A g \in Guarantors : vault[g].locked = SumOver(Locks(book, loan, g), LoanIds)

\* All of it stays.
HeldStays ==
    /\ \A l \in LoanIds : HeldBy(book', loan', l) = HeldBy(book, loan, l)
    /\ \A g \in Guarantors : vault'[g].locked = vault[g].locked

\* Or that of one loan changes, and its vault changes by as much.
HeldMoves ==
    \/ HeldStays
    \/ \E m \in LoanIds :
         /\ loan[m].status # "none"
         /\ \A l \in LoanIds \ {m} : HeldBy(book', loan', l) = HeldBy(book, loan, l)
         /\ \A g \in Guarantors : vault'[g].locked =
              IF g = loan[m].guarantor
              THEN vault[g].locked + HeldBy(book', loan', m) - HeldBy(book, loan, m)
              ELSE vault[g].locked

\* What is known of the amounts in the book.
BooksInv == ShippedInv /\ DebtInv /\ PaidInv /\ UnwoundInv /\ SolventInv /\ AmountsInv

LEMMA AlwaysBooks ==
  ASSUME AsShipped, RoomForCents PROVE Spec => []BooksInv
  <1>1. OneAtATime /\ FromTheListing /\ "withdraw" \notin YieldsAt
    BY DEF AsShipped, FromTheListing, OneAtATime
  <1> QED
    BY <1>1, AlwaysPaid, AlwaysSplit, AlwaysSolvent, PTL DEF BooksInv

\* What is held of a stored loan, and of one that is not.
LEMMA HeldTyped ==
  ASSUME RoomForCents, TypeInv, BooksInv, NEW l \in LoanIds
  PROVE  /\ HeldBy(book, loan, l) \in Nat
         /\ loan[l].status = "none" => l \notin book
         /\ loan[l].status # "none" =>
              /\ loan[l] \in LoanRecord /\ loan[l].terms \in Terms /\ Split(loan[l])
  <1>1. loan[l].status = "none" => l \notin book
    BY DEF TypeInv
  <1>2. loan[l].status # "none" =>
              /\ loan[l] \in LoanRecord /\ loan[l].terms \in Terms /\ Split(loan[l])
    BY DEF TypeInv, TypeOK, BooksInv, AmountsInv
  <1>3. HeldBy(book, loan, l) \in Nat
    BY <1>1, <1>2, SplitHeld DEF HeldBy
  <1> QED
    BY <1>1, <1>2, <1>3

\* A stored loan is rewritten and holds what it held.
LEMMA HeldRewritten ==
  ASSUME NEW m \in book, \A l \in LoanIds \ {m} : loan'[l] = loan[l],
         book' = book \/ book' = book \cup {m}, UNCHANGED vault,
         OutstandingCollateral(loan'[m]) = OutstandingCollateral(loan[m])
  PROVE  HeldStays
  BY DEF HeldStays, HeldBy

LEMMA HeldUntouched ==
  ASSUME UNCHANGED <<loan, book>>, \A g \in Guarantors : vault'[g].locked = vault[g].locked
  PROVE  HeldStays
  BY DEF HeldStays

\* Noting the outcome of a disbursement moves no collateral.
LEMMA FlagHolds ==
  ASSUME TypeInv, NEW m \in book, NEW o, loan' = [loan EXCEPT ![m].disbursement = o],
         book' = book \cup {m}, UNCHANGED vault
  PROVE  HeldStays
  <1>1. m \in LoanIds /\ loan[m] \in LoanRecord
    BY DEF TypeInv, TypeOK
  <1>2. /\ loan'[m] = [loan[m] EXCEPT !.disbursement = o]
        /\ \A l \in LoanIds \ {m} : loan'[l] = loan[l]
    BY <1>1, OneLoanFlagged
  <1>3. OutstandingCollateral(loan'[m]) = OutstandingCollateral(loan[m])
    <2> DEFINE x == [loan[m] EXCEPT !.disbursement = o]
    <2>1. /\ SameContract(x, loan[m]) /\ x.released = loan[m].released
          /\ x.forfeited = loan[m].forfeited
      BY <1>1, FlaggedFields
    <2> HIDE DEF x
    <2>2. OutstandingCollateral(x) = OutstandingCollateral(loan[m])
      BY <2>1, SameHeld
    <2> QED
      BY <1>2, <2>2 DEF x
  <1> QED
    BY <1>2, <1>3, HeldRewritten

LEMMA ResolveHolds ==
  ASSUME TypeInv, NEW t, NEW m \in book, NEW paid, Resolve(t, m, paid), UNCHANGED vault
  PROVE  HeldStays
  BY FlagHolds, HeldUntouched DEF Resolve

LEMMA RequestHolds ==
  ASSUME FromTheListing, TypeInv, NEW t \in Tasks, Request(t) \/ Sweep(t) PROVE HeldStays
  <1>1. ASSUME NEW l \in LoanIds, Reconcile(t, l) PROVE HeldStays
    <2>1. l \in book
      BY <1>1, LoanBookAssumption
      DEF Reconcile, Reconcilable, UnknownDisbursements, FromTheListing
    <2> QED
      BY <1>1, <2>1, ResolveHolds DEF Reconcile
  <1> QED
    BY <1>1, HeldUntouched DEF Request, Deposit, Withdraw, Originate, Attest, PollStatus, Sweep

\* Settling an installment for which nothing is to be released.
LEMMA SettleHolds ==
  ASSUME TypeInv, NEW t \in Tasks, task[t].loan \in book, UNCHANGED vault,
         SettleInstallment(t, loan[task[t].loan])
  PROVE  HeldStays
  <1> DEFINE m == task[t].loan
             x == Settled(loan[m], task[t].full)
  <1>1. m \in LoanIds /\ loan[m] \in LoanRecord /\ task[t].full \in BOOLEAN
    BY DEF TypeInv, TypeOK, TaskRecord
  <1>2. OutstandingCollateral(x) = OutstandingCollateral(loan[m])
    BY <1>1, SettledFields, SameHeld
  <1> HIDE DEF x
  <1>3. loan' = [loan EXCEPT ![m] = x] /\ book' = book \cup {m}
    BY DEF SettleInstallment, x
  <1>4. loan'[m] = x /\ \A l \in LoanIds \ {m} : loan'[l] = loan[l]
    BY <1>1, <1>3, OneLoanWritten
  <1> QED
    BY <1>2, <1>3, <1>4, HeldRewritten

\* Handlers that move no collateral.
LEMMA QuietStepHolds ==
  ASSUME TypeInv, BooksInv, NEW t \in Tasks,
         \/ DepositReturns(t) \/ WithdrawReturns(t) \/ QuoteReturns(t) \/ RecordReturns(t)
         \/ DisburseReturns(t) \/ DisburseTimesOut(t) \/ DisburseRejects(t)
         \/ UnwindReturns(t) \/ VerifyReturns(t) \/ RepayReturns(t) \/ CloseReturns(t)
         \/ LiquidateCloseReturns(t) \/ StatusReturns(t)
  PROVE  HeldStays
  <1> DEFINE m == task[t].loan
  <1>1. task[t].at \in Stored => m \in book
    BY DEF BooksInv, ShippedInv, TurnInv, InHand
  <1>2. CASE DepositReturns(t) \/ WithdrawReturns(t)
    <2>1. /\ UNCHANGED <<loan, book>>
          /\ \/ UNCHANGED vault
             \/ vault' = [vault EXCEPT ![task[t].guarantor] = Deposited(@, task[t].amount)]
             \/ vault' = [vault EXCEPT ![task[t].guarantor] = Withdrawn(@, task[t].amount)]
      BY <1>2 DEF DepositReturns, WithdrawReturns
    <2>2. \A g \in Guarantors : vault'[g].locked = vault[g].locked
      <3> SUFFICES ASSUME NEW g \in Guarantors PROVE vault'[g].locked = vault[g].locked
        OBVIOUS
      <3>1. vault[g] \in VaultAccount
        BY DEF TypeInv, TypeOK
      <3>2. \/ vault'[g] = vault[g]
            \/ vault'[g] = Deposited(vault[g], task[t].amount)
            \/ vault'[g] = Withdrawn(vault[g], task[t].amount)
        BY <2>1, OneVaultWritten
      <3> QED
        BY <3>1, <3>2 DEF Deposited, Withdrawn, VaultAccount
    <2> QED
      BY <2>1, <2>2, HeldUntouched
  <1>3. CASE QuoteReturns(t)
    <2>1. CASE UNCHANGED loan
      BY <1>3, <2>1, HeldUntouched DEF QuoteReturns
    <2>2. CASE loan' = [loan EXCEPT ![m] = NewLoan(task[t].guarantor, task[t].beneficiary, task[t].terms)]
      <3>1. m \in LoanIds /\ m \notin book
        <4>1. m \in LoanIds /\ loan[m].status = "none"
          BY <1>3 DEF QuoteReturns, Resumes, TypeInv, Fits, BooksInv, ShippedInv, TimelyInv
        <4> QED
          BY <4>1 DEF TypeInv
      <3>2. \A l \in LoanIds \ {m} : loan'[l] = loan[l]
        BY <2>2, <3>1, OneLoanWritten
      <3>3. UNCHANGED <<vault, book>>
        BY <1>3 DEF QuoteReturns
      <3> QED
        BY <3>1, <3>2, <3>3 DEF HeldStays, HeldBy
    <2> QED
      BY <1>3, <2>1, <2>2 DEF QuoteReturns
  <1>4. CASE DisburseReturns(t) \/ DisburseTimesOut(t)
    <2>1. m \in book
      BY <1>1, <1>4 DEF DisburseReturns, DisburseTimesOut, Resumes, Stored
    <2>2. PICK o \in {"completed", "unknown"} : DisbursementEnds(t, o)
      BY <1>4 DEF DisburseReturns, DisburseTimesOut
    <2> QED
      BY <2>1, <2>2, FlagHolds DEF DisbursementEnds
  <1>5. CASE DisburseRejects(t)
    BY <1>5, HeldUntouched DEF DisburseRejects
  <1>6. CASE VerifyReturns(t)
    <2> DEFINE x == WithItems(loan[m], {task[t].n}, "repaid")
    <2>1. m \in book
      BY <1>1, <1>6 DEF VerifyReturns, Resumes, Stored
    <2>2. m \in LoanIds /\ loan[m] \in LoanRecord
      BY <2>1 DEF TypeInv, TypeOK
    <2>3. OutstandingCollateral(x) = OutstandingCollateral(loan[m])
      BY <2>2, ItemsFields, SameHeld
    <2> HIDE DEF x
    <2>4. loan' = [loan EXCEPT ![m] = x] /\ UNCHANGED <<vault, book>>
      BY <1>6 DEF VerifyReturns, x
    <2>5. loan'[m] = x /\ \A l \in LoanIds \ {m} : loan'[l] = loan[l]
      BY <2>2, <2>4, OneLoanWritten
    <2> QED
      BY <2>1, <2>3, <2>4, <2>5, HeldRewritten
  <1>7. CASE RepayReturns(t)
    <2>1. m \in book
      BY <1>1, <1>7 DEF RepayReturns, Resumes, Stored
    <2> QED
      BY <1>7, <2>1, SettleHolds, HeldUntouched DEF RepayReturns
  <1>8. CASE StatusReturns(t)
    BY <1>1, <1>8, ResolveHolds DEF StatusReturns, Resumes, Stored
  <1> QED
    BY <1>2, <1>3, <1>4, <1>5, <1>6, <1>7, <1>8, HeldUntouched
    DEF RecordReturns, UnwindReturns, CloseReturns, LiquidateCloseReturns

\* The sweep moves none either, until it divides a defaulted loan's.
LEMMA SweepHolds ==
  ASSUME TypeInv, BooksInv, NEW t \in Tasks, NEW m \in LoanIds,
         \/ EvaluateClosed(t, m) \/ EvaluateMissed(t, m) \/ EvaluateOther(t, m)
         \/ EvaluateExpired(t, m) /\ UNCHANGED <<vault, book>> /\ loan' = [loan EXCEPT ![m] = Marked(t, m)]
  PROVE  HeldStays
  <1> DEFINE x == Marked(t, m)
             g == InGrace(x, task[t].asOf)
  <1>1. CASE EvaluateClosed(t, m)
    BY <1>1, HeldUntouched DEF EvaluateClosed
  <1>2. CASE ~EvaluateClosed(t, m)
    <2>1. m \in book
      <3>1. task[t].at = "next" /\ m \in task[t].todo
        BY <1>2 DEF EvaluateMissed, EvaluateOther, EvaluateExpired, Evaluates, Resumes
      <3> QED
        BY <3>1 DEF BooksInv, ShippedInv, TurnInv, InHand, Sweeping
    <2>2. loan[m].status # "none" /\ loan[m] \in LoanRecord
      BY <2>1 DEF TypeInv, TypeOK
    <2>3. x \in LoanRecord /\ OutstandingCollateral(x) = OutstandingCollateral(loan[m])
      BY <2>2, MarkedSame
    <2> HIDE DEF x
    <2>4. OutstandingCollateral(g) = OutstandingCollateral(loan[m])
      BY <2>3, InGraceFields, SameHeld
    <2> HIDE DEF g
    <2>5. /\ loan' = [loan EXCEPT ![m] = x] \/ loan' = [loan EXCEPT ![m] = g]
          /\ book' = book \/ book' = book \cup {m}
          /\ UNCHANGED vault
      BY <1>2 DEF EvaluateMissed, EvaluateOther, x, g
    <2>6. /\ loan'[m] = x \/ loan'[m] = g
          /\ \A l \in LoanIds \ {m} : loan'[l] = loan[l]
      BY <2>5, OneLoanWritten
    <2>7. OutstandingCollateral(loan'[m]) = OutstandingCollateral(loan[m])
      BY <2>3, <2>4, <2>6
    <2> QED
      BY <2>1, <2>5, <2>6, <2>7, HeldRewritten
  <1> QED
    BY <1>1, <1>2

\* No loan has more locked for it than its vault has.
HeldWithin ==
    \A l \in LoanIds : loan[l].guarantor \in Guarantors =>
        HeldBy(book, loan, l) <= vault[loan[l].guarantor].locked

LEMMA SumWithin == ASSUME RoomForCents, TypeInv, BooksInv, SumInv PROVE HeldWithin
  <1> SUFFICES ASSUME NEW l \in LoanIds, loan[l].guarantor \in Guarantors
               PROVE  HeldBy(book, loan, l) <= vault[loan[l].guarantor].locked
    BY DEF HeldWithin
  <1> DEFINE g == loan[l].guarantor
             f == Locks(book, loan, g)
  <1>1. \A m \in LoanIds : f[m] \in Nat
    BY HeldTyped DEF Locks
  <1>2. f[l] = HeldBy(book, loan, l) /\ vault[g].locked = SumOver(f, LoanIds)
    BY DEF Locks, SumInv
  <1> HIDE DEF f
  <1> QED
    BY <1>1, <1>2, LoanIdsAssumption, TermWithinSum

LEMMA VaultLockedNat ==
  ASSUME TypeInv, BooksInv, NEW h \in Guarantors
  PROVE  /\ vault[h] \in VaultAccount /\ Solvent(vault[h])
         /\ vault[h].locked \in Int /\ vault[h].locked \in Nat
  BY DEF TypeInv, TypeOK, BooksInv, SolventInv, VaultsSolvent, Solvent, VaultAccount

\* What the vault's operations make of the locked amount.
LEMMA VaultAmounts ==
  ASSUME NEW v \in VaultAccount, Solvent(v), NEW a \in Nat, NEW b \in Nat, a + b <= v.locked
  PROVE  /\ Released(v, a).locked = v.locked - a /\ Released(v, a).balance = v.balance
         /\ Forfeited(v, a) = [balance |-> v.balance - a, locked |-> v.locked - a]
         /\ VaultAfterDefault(v, a, b) = [balance |-> v.balance - a, locked |-> v.locked - a - b]
  <1>1. v.locked \in Int /\ v.balance \in Int /\ a <= v.locked /\ v.locked <= v.balance
    BY DEF VaultAccount, Solvent
  <1>2. Released(v, a).locked = v.locked - a /\ Released(v, a).balance = v.balance
    BY <1>1 DEF Released, VaultAccount
  <1>3. Forfeited(v, a) = [balance |-> v.balance - a, locked |-> v.locked - a]
    BY <1>1 DEF Forfeited, VaultAccount
  <1>4. VaultAfterDefault(v, a, b) = [balance |-> v.balance - a, locked |-> v.locked - a - b]
    BY <1>1, <1>3 DEF VaultAfterDefault, Released
  <1> QED
    BY <1>2, <1>3, <1>4

\* One loan's collateral changes, and its vault's locked amount by as much.
LEMMA HeldMoved ==
  ASSUME TypeInv, NEW m \in LoanIds, loan[m].status # "none", NEW h, loan[m].guarantor = h,
         \A l \in LoanIds \ {m} : loan'[l] = loan[l], book' \ {m} = book \ {m},
         NEW v, vault' = [vault EXCEPT ![h] = v],
         h \in Guarantors =>
           v.locked = vault[h].locked + HeldBy(book', loan', m) - HeldBy(book, loan, m)
  PROVE  HeldMoves
  <1>1. \A g \in Guarantors : vault'[g] = IF g = h THEN v ELSE vault[g]
    BY DEF TypeInv, TypeOK
  <1>2. \A l \in LoanIds \ {m} : HeldBy(book', loan', l) = HeldBy(book, loan, l)
    BY DEF HeldBy
  <1>3. \A g \in Guarantors : vault'[g].locked =
              IF g = h THEN vault[g].locked + HeldBy(book', loan', m) - HeldBy(book, loan, m)
              ELSE vault[g].locked
    BY <1>1
  <1> QED
    BY <1>2, <1>3 DEF HeldMoves

\* A loan just locked has had nothing released or forfeited; no more has one
\* that is being unwound.
LEMMA UntouchedHeld ==
  ASSUME RoomForCents, TypeInv, BooksInv, NEW t \in Tasks, task[t].at \in {"lock", "unwindClose"}
  PROVE  LET ln == loan[task[t].loan]
         IN /\ task[t].loan \in LoanIds /\ ln.status # "none"
            /\ ln.released = 0 /\ ln.forfeited = 0
            /\ ln.locked \in Nat /\ OutstandingCollateral(ln) = ln.locked
            /\ task[t].loan \in book <=> task[t].at = "unwindClose"
  <1> DEFINE m == task[t].loan
             ln == loan[m]
  <1>1. m \in LoanIds /\ ln.status # "none" /\ ln \in LoanRecord /\ ln.terms \in Terms /\ Split(ln)
    BY HeldTyped DEF TypeInv, Fits, LoanAwaits
  <1>2. ln.status # "defaulted"
    <2>1. task[t].at = "lock" => ln.born = now
      BY DEF BooksInv, ShippedInv, TurnInv, InHand
    <2>2. task[t].at = "unwindClose" => IsOpen(ln)
      BY DEF BooksInv, PaidInv
    <2>3. ln.status = "defaulted" => now > FirstDeadline(ln)
      BY <1>1 DEF BooksInv, ShippedInv, TimelyInv, LoanTimely
    <2>4. ln.terms.interval \in Nat /\ now \in Nat /\ GracePeriod \in Nat
      BY <1>1, LoanBookAssumption DEF Term, TypeInv, TypeOK
    <2>5. task[t].at = "lock" => ~(now > FirstDeadline(ln))
      BY <2>1, <2>4 DEF FirstDeadline, DueAt
    <2> QED
      BY <2>2, <2>3, <2>5 DEF IsOpen
  <1>3. payout[m] # "paid"
    <2>1. task[t].at = "lock" => payout[m] = "none"
      BY DEF BooksInv, ShippedInv, PayoutInv, Originating
    <2>2. task[t].at = "unwindClose" => payout[m] = "refused"
      BY DEF BooksInv, UnwoundInv
    <2> QED
      BY <2>1, <2>2
  <1>4. ln.released = 0 /\ ln.forfeited = 0
    BY <1>1, <1>2, <1>3 DEF BooksInv, PaidInv, DebtInv
  <1>5. ln.locked \in Nat /\ OutstandingCollateral(ln) = ln.locked
    BY <1>1, <1>4, SplitHeld
  <1>6. m \in book <=> task[t].at = "unwindClose"
    BY DEF BooksInv, ShippedInv, TurnInv, InHand, Stored
  <1> QED
    BY <1>1, <1>4, <1>5, <1>6

\* Locked here too: the vault's amount grows by what the new loan has locked.
LEMMA LockHeld ==
  ASSUME RoomForCents, TypeInv, BooksInv, NEW t \in Tasks, LockReturns(t) PROVE HeldMoves
  <1> DEFINE m == task[t].loan
             h == loan[m].guarantor
             v == LockedUp(vault[h], loan[m].locked)
  <1>1. CASE ~LockHolds(t, m)
    BY <1>1, HeldUntouched DEF HeldMoves, LockReturns
  <1>2. CASE LockHolds(t, m)
    <2>1. /\ m \in LoanIds /\ loan[m].status # "none" /\ m \notin book
          /\ loan[m].locked \in Nat /\ OutstandingCollateral(loan[m]) = loan[m].locked
      BY UntouchedHeld DEF LockReturns, Resumes
    <2>2. /\ vault' = [vault EXCEPT ![h] = v] /\ book' = book \cup {m} /\ UNCHANGED loan
      BY <1>2 DEF LockReturns
    <2>3. /\ HeldBy(book', loan', m) = loan[m].locked /\ HeldBy(book, loan, m) = 0
          /\ book' \ {m} = book \ {m}
      BY <2>1, <2>2 DEF HeldBy
    <2>4. h \in Guarantors =>
            v.locked = vault[h].locked + HeldBy(book', loan', m) - HeldBy(book, loan, m)
      <3>1. h \in Guarantors => vault[h] \in VaultAccount
        BY DEF TypeInv, TypeOK
      <3> QED
        BY <2>1, <2>3, <3>1 DEF LockedUp, VaultAccount
    <2> HIDE DEF m, h, v
    <2>5. loan[m].guarantor = h
      BY DEF h
    <2> QED
      BY <2>1, <2>2, <2>3, <2>4, <2>5, HeldMoved
  <1> QED
    BY <1>1, <1>2

\* Unwound: all the loan had locked is given back, and it is gone.
LEMMA UnwindCloseHeld ==
  ASSUME RoomForCents, TypeInv, BooksInv, HeldWithin, NEW t \in Tasks, UnwindCloseReturns(t)
  PROVE  HeldMoves
  <1> DEFINE m == task[t].loan
             h == loan[m].guarantor
             v == Released(vault[h], loan[m].locked)
  <1>1. CASE ~Resolved(t)
    BY <1>1, HeldUntouched DEF HeldMoves, UnwindCloseReturns
  <1>2. CASE Resolved(t)
    <2>1. /\ m \in LoanIds /\ loan[m].status # "none" /\ m \in book
          /\ loan[m].locked \in Nat /\ OutstandingCollateral(loan[m]) = loan[m].locked
      BY UntouchedHeld DEF UnwindCloseReturns, Resumes
    <2>2. /\ vault' = [vault EXCEPT ![h] = v] /\ book' = book \ {m} /\ UNCHANGED loan
      BY <1>2 DEF UnwindCloseReturns
    <2>3. /\ HeldBy(book', loan', m) = 0 /\ HeldBy(book, loan, m) = loan[m].locked
          /\ book' \ {m} = book \ {m}
      BY <2>1, <2>2 DEF HeldBy
    <2>4. h \in Guarantors =>
            v.locked = vault[h].locked + HeldBy(book', loan', m) - HeldBy(book, loan, m)
      <3> SUFFICES ASSUME h \in Guarantors
                   PROVE  v.locked = vault[h].locked - loan[m].locked
        BY <2>1, <2>3, VaultLockedNat
      <3>1. vault[h] \in VaultAccount /\ Solvent(vault[h]) /\ vault[h].locked \in Int
        BY VaultLockedNat
      <3>2. loan[m].locked + 0 <= vault[h].locked /\ loan[m].locked \in Nat /\ 0 \in Nat
        BY <2>1, <2>3, <3>1 DEF HeldWithin
      <3> QED
        BY <3>1, <3>2, VaultAmounts
    <2> HIDE DEF m, h, v
    <2>5. loan[m].guarantor = h
      BY DEF h
    <2> QED
      BY <2>1, <2>2, <2>3, <2>4, <2>5, HeldMoved
  <1> QED
    BY <1>1, <1>2

\* What is released of a loan in hand is no more than it holds.
LEMMA ReleaseAmount ==
  ASSUME RoomForCents, TypeInv, BooksInv, NEW t \in Tasks, task[t].at \in {"repay", "release"}
  PROVE  LET ln == loan[task[t].loan]
         IN /\ task[t].loan \in book /\ ln \in LoanRecord /\ ln.status # "none"
            /\ task[t].amount \in Nat /\ task[t].amount <= OutstandingCollateral(ln)
            /\ ln.locked \in Nat /\ ln.released \in Nat /\ ln.forfeited = 0
            /\ OutstandingCollateral(ln) = ln.locked - ln.released
            /\ OutstandingCollateral(ln) \in Nat
  <1> DEFINE ln == loan[task[t].loan]
             held == OutstandingCollateral(ln)
  <1>1. /\ task[t].loan \in book /\ IsOpen(ln)
        /\ task[t].amount = IF task[t].full THEN held ELSE CollateralRelease(ln)
    <2>1. InHand(t)
      BY DEF BooksInv, ShippedInv, TurnInv
    <2> QED
      BY <2>1 DEF InHand, Stored
  <1>2. /\ task[t].loan \in LoanIds /\ ln.status # "none" /\ ln \in LoanRecord
        /\ ln.terms \in Terms /\ Split(ln)
    BY <1>1, HeldTyped DEF TypeInv, TypeOK
  <1>3. ln.forfeited = 0
    BY <1>1, <1>2 DEF Split
  <1>4. /\ ln.locked \in Nat /\ ln.released \in Nat
        /\ held = ln.locked - ln.released - ln.forfeited /\ held \in Nat
    BY <1>2, SplitHeld
  <1>5. CollateralRelease(ln) \in Nat /\ ln.released + CollateralRelease(ln) <= ln.locked
    BY <1>1, <1>2, ShareReleased
  <1> HIDE DEF held
  <1>6. task[t].amount \in Nat /\ task[t].amount <= held /\ held = ln.locked - ln.released
    BY <1>1, <1>3, <1>4, <1>5
  <1> QED
    BY <1>1, <1>2, <1>3, <1>4, <1>6 DEF held
LEMMA ReleaseHeld ==
  ASSUME RoomForCents, TypeInv, BooksInv, HeldWithin, NEW t \in Tasks, ReleaseReturns(t)
  PROVE  /\ HeldMoves
         /\ task[t].answer = "ok" =>
              /\ HeldBy(book', loan', task[t].loan)
                   = HeldBy(book, loan, task[t].loan) - task[t].amount
              /\ \A l \in LoanIds \ {task[t].loan} : loan'[l] = loan[l]
  <1> DEFINE m == task[t].loan
             a == task[t].amount
             y == loan[m]
             h == y.guarantor
             v == Released(vault[h], a)
             z == [y EXCEPT !.released = @ + a]
             x == Settled(z, task[t].full)
  <1>1. CASE task[t].answer # "ok"
    BY <1>1, HeldUntouched DEF HeldMoves, ReleaseReturns
  <1>2. CASE task[t].answer = "ok"
    <2>1. /\ m \in book /\ y \in LoanRecord /\ y.status # "none"
          /\ a \in Nat /\ a <= OutstandingCollateral(y)
          /\ y.locked \in Nat /\ y.released \in Nat /\ y.forfeited = 0
          /\ OutstandingCollateral(y) = y.locked - y.released
          /\ OutstandingCollateral(y) \in Nat
      BY ReleaseAmount DEF ReleaseReturns, Resumes
    <2>2. m \in LoanIds /\ task[t].full \in BOOLEAN /\ a \in Int
      BY <2>1 DEF TypeInv, TypeOK, TaskRecord
    <2>3. /\ vault' = [vault EXCEPT ![h] = v]
          /\ loan' = [loan EXCEPT ![m] = x] /\ book' = book \cup {m}
      BY <1>2 DEF ReleaseReturns, SettleInstallment
    <2>4. OutstandingCollateral(x) = OutstandingCollateral(y) - a
      <3>1. /\ SameContract(z, y) /\ z.forfeited = y.forfeited /\ z.released = y.released + a
            /\ z \in LoanRecord
        BY <2>1, <2>2, ReleasedFields DEF LoanRecord
      <3> HIDE DEF z
      <3>2. SameContract(x, z) /\ x.released = z.released /\ x.forfeited = z.forfeited
        BY <2>2, <3>1, SettledFields
      <3> HIDE DEF x
      <3>3. x.locked = y.locked /\ x.released = y.released + a /\ x.forfeited = 0
        BY <2>1, <3>1, <3>2 DEF SameContract
      <3> HIDE DEF a, y
      <3> QED
        BY <2>1, <3>3 DEF OutstandingCollateral, StillLocked, AtLeastZero
    <2> HIDE DEF x, z
    <2>5. loan'[m] = x /\ \A l \in LoanIds \ {m} : loan'[l] = loan[l]
      BY <2>2, <2>3, OneLoanWritten
    <2>6. /\ HeldBy(book', loan', m) = OutstandingCollateral(y) - a
          /\ HeldBy(book, loan, m) = OutstandingCollateral(y)
          /\ book' \ {m} = book \ {m}
      BY <2>1, <2>3, <2>4, <2>5 DEF HeldBy
    <2>7. h \in Guarantors =>
            v.locked = vault[h].locked + HeldBy(book', loan', m) - HeldBy(book, loan, m)
      <3> SUFFICES ASSUME h \in Guarantors PROVE v.locked = vault[h].locked - a
        BY <2>1, <2>6, VaultLockedNat
      <3>1. vault[h] \in VaultAccount /\ Solvent(vault[h]) /\ vault[h].locked \in Int
        BY VaultLockedNat
      <3>2. OutstandingCollateral(y) <= vault[h].locked
        BY <2>2, <2>6 DEF HeldWithin
      <3> HIDE DEF a, y, h
      <3>3. a + 0 <= vault[h].locked /\ a \in Nat /\ 0 \in Nat
        BY <2>1, <3>1, <3>2
      <3> QED
        BY <3>1, <3>3, VaultAmounts
    <2>8. HeldBy(book', loan', m) = HeldBy(book, loan, m) - a
      BY <2>6
    <2> HIDE DEF m, h, v, a
    <2>9. loan[m].guarantor = h
      BY DEF h
    <2>10. HeldMoves
      BY <2>1, <2>2, <2>3, <2>5, <2>6, <2>7, <2>9, HeldMoved
    <2> QED
      BY <2>5, <2>8, <2>10 DEF m, a
  <1> QED
    BY <1>1, <1>2

\* A default takes all that was held of the loan out of its vault's locked amount.
LEMMA DefaultHeld ==
  ASSUME RoomForCents, TypeInv, BooksInv, HeldWithin, NEW t \in Tasks, NEW m \in book,
         NEW ln \in LoanRecord, Begun(ln), SameContract(ln, loan[m]),
         ln.released = loan[m].released, ln.forfeited = loan[m].forfeited,
         NEW f \in Nat, NEW r \in Nat, f + r = OutstandingCollateral(loan[m]),
         NEW left, SettleDefault(t, m, ln, f, r, left)
  PROVE  /\ HeldMoves
         /\ loan[m].guarantor \in Guarantors =>
              /\ OutstandingCollateral(loan[m]) <= vault[loan[m].guarantor].locked
              /\ vault'[loan[m].guarantor].balance = vault[loan[m].guarantor].balance - f
         /\ HeldBy(book', loan', m) = 0 /\ loan'[m].status = "defaulted"
         /\ \A l \in LoanIds \ {m} : loan'[l] = loan[l]
         /\ \A g \in Guarantors \ {loan[m].guarantor} : vault'[g] = vault[g]
  <1> DEFINE y == loan[m]
             h == ln.guarantor
             v == VaultAfterDefault(vault[h], f, r)
             x == Defaulted(ln, f, r)
  <1>1. m \in LoanIds /\ y.status # "none" /\ h = y.guarantor
    BY DEF TypeInv, TypeOK, SameContract
  <1>2. y.terms \in Terms /\ Split(y) /\ y \in LoanRecord
    BY <1>1, HeldTyped
  <1>3. /\ y.locked \in Nat /\ y.released \in Nat /\ y.forfeited \in Nat
        /\ OutstandingCollateral(y) = y.locked - y.released - y.forfeited
    BY <1>2, SplitHeld
  <1>4. /\ vault' = [vault EXCEPT ![h] = v] /\ loan' = [loan EXCEPT ![m] = x]
        /\ book' = book \cup {m}
    BY DEF SettleDefault
  <1>5. OutstandingCollateral(x) = 0 /\ x.status = "defaulted"
    <2>1. f \in Int /\ r \in Int
      OBVIOUS
    <2>2. /\ x.locked = ln.locked /\ x.released = ln.released + r /\ x.forfeited = ln.forfeited + f
          /\ x.status = "defaulted"
      BY <2>1, DefaultedFields DEF SameContract
    <2> HIDE DEF x
    <2>3. x.locked = y.locked /\ x.released = y.released + r /\ x.forfeited = y.forfeited + f
      BY <2>2 DEF SameContract
    <2> HIDE DEF y
    <2> QED
      BY <1>3, <2>2, <2>3 DEF OutstandingCollateral, StillLocked, AtLeastZero, y
  <1> HIDE DEF x
  <1>6. loan'[m] = x /\ \A l \in LoanIds \ {m} : loan'[l] = loan[l]
    BY <1>1, <1>4, OneLoanWritten
  <1>7. /\ HeldBy(book', loan', m) = 0 /\ HeldBy(book, loan, m) = f + r
        /\ book' \ {m} = book \ {m}
    BY <1>4, <1>5, <1>6 DEF HeldBy
  <1>8. h \in Guarantors =>
          /\ f + r <= vault[h].locked /\ v.balance = vault[h].balance - f
          /\ v.locked = vault[h].locked + HeldBy(book', loan', m) - HeldBy(book, loan, m)
    <2> SUFFICES ASSUME h \in Guarantors
                 PROVE  /\ f + r <= vault[h].locked /\ v.balance = vault[h].balance - f
                        /\ v.locked = vault[h].locked - f - r
      BY <1>7, VaultLockedNat
    <2>1. vault[h] \in VaultAccount /\ Solvent(vault[h]) /\ vault[h].locked \in Int
      BY VaultLockedNat
    <2>2. f + r <= vault[h].locked
      BY <1>1, <1>7 DEF HeldWithin
    <2> HIDE DEF h
    <2>3. v = [balance |-> vault[h].balance - f, locked |-> vault[h].locked - f - r]
      BY <2>1, <2>2, VaultAmounts
    <2> HIDE DEF v
    <2> QED
      BY <2>2, <2>3
  <1> HIDE DEF h, v
  <1>9. loan[m].guarantor = h
    BY <1>1
  <1>10. HeldMoves
    BY <1>1, <1>4, <1>6, <1>7, <1>8, <1>9, HeldMoved
  <1>11. \A g \in Guarantors : vault'[g] = IF g = h THEN v ELSE vault[g]
    BY <1>4 DEF TypeInv, TypeOK
  <1> QED
    BY <1>5, <1>6, <1>7, <1>8, <1>9, <1>10, <1>11
\* What the sweep has computed for a loan it liquidates.
LEMMA LiquidateAmounts ==
  ASSUME RoomForCents, TypeInv, BooksInv, NEW t \in Tasks, task[t].at = "liquidate"
  PROVE  LET ln == loan[task[t].loan]
         IN /\ task[t].loan \in book /\ ln \in LoanRecord /\ Begun(ln)
            /\ task[t].amount \in Nat /\ task[t].excess \in Nat
            /\ task[t].amount + task[t].excess = OutstandingCollateral(ln)
  <1> DEFINE ln == loan[task[t].loan]
             held == OutstandingCollateral(ln)
  <1>1. task[t].loan \in book /\ task[t].excess = held - task[t].amount
    <2>1. InHand(t)
      BY DEF BooksInv, ShippedInv, TurnInv
    <2> QED
      BY <2>1 DEF InHand, Stored
  <1>2. ln \in LoanRecord /\ Begun(ln) /\ Split(ln) /\ ln.terms \in Terms
    BY <1>1, HeldTyped DEF TypeInv, TypeOK, Begun
  <1>3. held \in Nat
    BY <1>2, SplitHeld
  <1>4. task[t].amount \in Nat /\ task[t].excess \in Nat
    BY DEF BooksInv, SolventInv
  <1> HIDE DEF held
  <1>5. task[t].amount + task[t].excess = held
    BY <1>1, <1>3, <1>4
  <1> QED
    BY <1>1, <1>2, <1>4, <1>5 DEF held

LEMMA LiquidateHeld ==
  ASSUME RoomForCents, TypeInv, BooksInv, HeldWithin, NEW t \in Tasks, LiquidateReturns(t)
  PROVE  HeldMoves
  <1> DEFINE m == task[t].loan
             f == task[t].amount
             r == task[t].excess
             left == task[t].todo
  <1>1. CASE task[t].answer # "ok"
    BY <1>1, HeldUntouched DEF HeldMoves, LiquidateReturns
  <1>2. CASE task[t].answer = "ok"
    <2>1. /\ m \in book /\ loan[m] \in LoanRecord /\ Begun(loan[m])
          /\ f \in Nat /\ r \in Nat /\ f + r = OutstandingCollateral(loan[m])
      BY LiquidateAmounts DEF LiquidateReturns, Resumes
    <2>2. SettleDefault(t, m, loan[m], f, r, left)
      BY <1>2 DEF LiquidateReturns
    <2>3. SameContract(loan[m], loan[m])
      BY DEF SameContract
    <2> HIDE DEF m, f, r, left
    <2> QED
      BY <2>1, <2>2, <2>3, DefaultHeld
  <1> QED
    BY <1>1, <1>2

LEMMA ExpiredHeld ==
  ASSUME RoomForCents, TypeInv, BooksInv, HeldWithin, NEW t \in Tasks, NEW m \in LoanIds,
         EvaluateExpired(t, m)
  PROVE  HeldMoves
  <1> DEFINE ln == Marked(t, m)
             held == OutstandingCollateral(ln)
             left == task[t].todo \ {m}
  <1>1. m \in book
    <2>1. task[t].at = "next" /\ m \in task[t].todo
      BY DEF EvaluateExpired, Evaluates, Resumes
    <2> QED
      BY <2>1 DEF BooksInv, ShippedInv, TurnInv, InHand, Sweeping
  <1>2. CASE UNCHANGED <<vault, book>> /\ loan' = [loan EXCEPT ![m] = ln]
    BY <1>2, SweepHolds DEF HeldMoves
  <1>3. CASE SettleDefault(t, m, ln, 0, held, left)
    <2>1. loan[m].status # "none"
      BY <1>1 DEF TypeInv
    <2>2. /\ ln \in LoanRecord /\ Begun(ln) /\ SameContract(ln, loan[m])
          /\ ln.released = loan[m].released /\ ln.forfeited = loan[m].forfeited
          /\ held = OutstandingCollateral(loan[m])
      BY <2>1, MarkedSame
    <2>3. held \in Nat
      <3>1. loan[m].terms \in Terms /\ Split(loan[m]) /\ loan[m] \in LoanRecord
        BY <2>1, HeldTyped
      <3> QED
        BY <2>2, <3>1, SplitHeld
    <2>4. 0 \in Nat /\ 0 + held = OutstandingCollateral(loan[m])
      BY <2>2, <2>3
    <2> HIDE DEF ln, held, left
    <2> QED
      BY <1>1, <1>3, <2>2, <2>3, <2>4, DefaultHeld
  <1> QED
    BY <1>2, <1>3 DEF EvaluateExpired

\* The loans and the vaults move together, whatever the step.
LEMMA EveryHeldMoves ==
  ASSUME AsShipped, RoomForCents, TypeInv, BooksInv, HeldWithin, [Next]_vars PROVE HeldMoves
  <1>1. FromTheListing
    BY DEF AsShipped, FromTheListing
  <1>2. ASSUME NEW t \in Tasks, Continue(t) PROVE HeldMoves
    <2>1. CASE LockReturns(t)
      BY <2>1, LockHeld
    <2>2. CASE UnwindCloseReturns(t)
      BY <2>2, UnwindCloseHeld
    <2>3. CASE ReleaseReturns(t)
      BY <2>3, ReleaseHeld
    <2>4. CASE LiquidateReturns(t)
      BY <2>4, LiquidateHeld
    <2>5. ASSUME NEW m \in LoanIds,
                 \/ EvaluateClosed(t, m) \/ EvaluateMissed(t, m) \/ EvaluateOther(t, m)
                 \/ EvaluateExpired(t, m)
          PROVE  HeldMoves
      BY <2>5, SweepHolds, ExpiredHeld DEF HeldMoves
    <2>6. CASE \/ DepositReturns(t) \/ WithdrawReturns(t) \/ QuoteReturns(t) \/ RecordReturns(t)
               \/ DisburseReturns(t) \/ DisburseTimesOut(t) \/ DisburseRejects(t)
               \/ UnwindReturns(t) \/ VerifyReturns(t) \/ RepayReturns(t) \/ CloseReturns(t)
               \/ LiquidateCloseReturns(t) \/ StatusReturns(t)
      BY <2>6, QuietStepHolds DEF HeldMoves
    <2> QED
      BY <1>2, <2>1, <2>2, <2>3, <2>4, <2>5, <2>6 DEF Continue
  <1>3. ASSUME NEW t \in Tasks, Request(t) \/ Sweep(t) PROVE HeldMoves
    BY <1>1, <1>3, RequestHolds DEF HeldMoves
  <1>4. CASE UNCHANGED <<vault, loan, book>>
    BY <1>4, HeldUntouched DEF HeldMoves
  <1> QED
    BY <1>2, <1>3, <1>4 DEF Next, vars, PartnerDecides, DayPasses, Tasks

LEMMA SumKept ==
  ASSUME AsShipped, RoomForCents, TypeInv, BooksInv, SumInv, [Next]_vars, TypeInv', BooksInv'
  PROVE  SumInv'
  <1> SUFFICES ASSUME NEW g \in Guarantors
               PROVE  vault'[g].locked = SumOver(Locks(book', loan', g), LoanIds)
    BY DEF SumInv
  <1> DEFINE f == Locks(book, loan, g)
             f2 == Locks(book', loan', g)
  <1>1. HeldMoves
    BY SumWithin, EveryHeldMoves
  <1>2. \A l \in LoanIds : /\ HeldBy(book, loan, l) \in Nat /\ HeldBy(book', loan', l) \in Nat
                           /\ loan[l].status = "none" => HeldBy(book, loan, l) = 0
    <2>1. \A l \in LoanIds : /\ HeldBy(book, loan, l) \in Nat
                             /\ loan[l].status = "none" => l \notin book
      BY HeldTyped
    <2>2. \A l \in LoanIds : HeldBy(book', loan', l) \in Nat
      <3> SUFFICES ASSUME NEW l \in LoanIds PROVE HeldBy(book', loan', l) \in Nat
        OBVIOUS
      <3> DEFINE x == loan'[l]
      <3>1. l \in book' => x.status # "none"
        BY DEF TypeInv
      <3>2. x.status # "none" => x \in LoanRecord /\ x.terms \in Terms /\ Split(x)
        BY DEF TypeInv, TypeOK, BooksInv, AmountsInv
      <3> HIDE DEF x
      <3>3. l \in book' => OutstandingCollateral(x) \in Nat
        BY <3>1, <3>2, SplitHeld
      <3> QED
        BY <3>3 DEF HeldBy, x
    <2> QED
      BY <2>1, <2>2 DEF HeldBy
  <1>3. \A l \in LoanIds : loan[l].status # "none" => loan'[l].guarantor = loan[l].guarantor
    BY ContractKept DEF BooksInv, ShippedInv, SameContract
  <1>4. vault[g].locked = SumOver(f, LoanIds)
    BY DEF SumInv
  <1>5. \A l \in LoanIds : f[l] \in Int /\ f2[l] \in Int
    BY <1>2 DEF Locks
  <1>6. CASE /\ \A l \in LoanIds : HeldBy(book', loan', l) = HeldBy(book, loan, l)
             /\ vault'[g].locked = vault[g].locked
    <2>1. \A l \in LoanIds : f2[l] = f[l]
      BY <1>2, <1>3, <1>6 DEF Locks
    <2> HIDE DEF f, f2
    <2>2. SumOver(f2, LoanIds) = SumOver(f, LoanIds)
      BY <2>1, LoanIdsAssumption, SumSame
    <2> QED
      BY <1>4, <1>6, <2>2 DEF f2
  <1>7. ASSUME NEW m \in LoanIds, loan[m].status # "none",
               \A l \in LoanIds \ {m} : HeldBy(book', loan', l) = HeldBy(book, loan, l),
               vault'[g].locked =
                 IF g = loan[m].guarantor
                 THEN vault[g].locked + HeldBy(book', loan', m) - HeldBy(book, loan, m)
                 ELSE vault[g].locked
        PROVE  vault'[g].locked = SumOver(f2, LoanIds)
    <2>1. \A l \in LoanIds \ {m} : f2[l] = f[l]
      BY <1>2, <1>3, <1>7 DEF Locks
    <2>2. vault'[g].locked = vault[g].locked - f[m] + f2[m]
      <3>1. loan'[m].guarantor = loan[m].guarantor
        BY <1>3, <1>7
      <3>2. vault[g].locked \in Int /\ HeldBy(book, loan, m) \in Nat /\ HeldBy(book', loan', m) \in Nat
        BY <1>2, VaultLockedNat
      <3> QED
        BY <1>7, <3>1, <3>2 DEF Locks
    <2> HIDE DEF f, f2
    <2>3. SumOver(f2, LoanIds) = SumOver(f, LoanIds) - f[m] + f2[m]
      BY <1>5, <2>1, LoanIdsAssumption, SumChanges
    <2> QED
      BY <1>4, <2>2, <2>3
  <1> QED
    BY <1>1, <1>6, <1>7 DEF HeldMoves, HeldStays
LEMMA SumStart == ASSUME Init PROVE SumInv
  <1> SUFFICES ASSUME NEW g \in Guarantors
               PROVE  vault[g].locked = SumOver(Locks(book, loan, g), LoanIds)
    BY DEF SumInv
  <1> DEFINE f == Locks(book, loan, g)
  <1>1. \A l \in LoanIds : f[l] = 0
    BY DEF Init, Locks, HeldBy
  <1>2. vault[g].locked = 0
    BY DEF Init, EmptyVault
  <1> HIDE DEF f
  <1>3. {} \subseteq LoanIds /\ \A l \in LoanIds : f[l] \in Int
    BY <1>1
  <1>4. SumOver(f, {}) = SumOver(f, LoanIds)
    BY <1>1, <1>3, LoanIdsAssumption, SumOfPart
  <1> QED
    BY <1>2, <1>4, SumOfNone DEF f

LEMMA AlwaysSum ==
  ASSUME AsShipped, RoomForCents PROVE Spec => [](TypeInv /\ BooksInv /\ SumInv)
  <1>1. TypeInv /\ BooksInv /\ SumInv /\ [Next]_vars /\ TypeInv' /\ BooksInv' => SumInv'
    BY SumKept
  <1> QED
    BY <1>1, SumStart, AlwaysTyped, AlwaysBooks, PTL DEF Spec

\* The sum over one guarantor's stored loans is the sum over all of them of what
\* each adds to its vault.
LEMMA SumOfLoans ==
  ASSUME RoomForCents, TypeInv, BooksInv, NEW g \in Guarantors
  PROVE  MapThenSumSet(LAMBDA l : OutstandingCollateral(loan[l]), LoansOf(g))
           = SumOver(Locks(book, loan, g), LoanIds)
  <1> DEFINE S == LoansOf(g)
             h == [l \in S |-> OutstandingCollateral(loan[l])]
             f == Locks(book, loan, g)
  <1>1. MapThenSumSet(LAMBDA l : OutstandingCollateral(loan[l]), S)
          = MapThenSumSet(LAMBDA l : [x \in S |-> OutstandingCollateral(loan[x])][l], S)
    BY DEF MapThenSumSet, MapThenFoldSet
  <1>2. MapThenSumSet(LAMBDA l : [x \in S |-> OutstandingCollateral(loan[x])][l], S) = SumOver(h, S)
    BY DEF SumOver
  <1>3. S \subseteq LoanIds
    BY DEF LoansOf, TypeInv, TypeOK
  <1>4. \A l \in S : h[l] = f[l]
    BY <1>3 DEF Locks, HeldBy, LoansOf
  <1>5. \A l \in LoanIds \ S : f[l] = 0
    BY DEF Locks, HeldBy, LoansOf
  <1>6. \A l \in LoanIds : f[l] \in Int
    BY HeldTyped DEF Locks
  <1> HIDE DEF S, h, f
  <1>7. SumOver(h, S) = SumOver(f, S)
    BY <1>3, <1>4, LoanIdsAssumption, FS_Subset, SumSame
  <1>8. SumOver(f, S) = SumOver(f, LoanIds)
    BY <1>3, <1>5, <1>6, LoanIdsAssumption, SumOfPart
  <1> QED
    BY <1>1, <1>2, <1>7, <1>8 DEF S, f

\* A vault has locked exactly what its stored loans still lock, whichever
\* handlers release, forfeit or unwind them and in whatever order, with the
\* gateway and partner the repository ships (whose calls, the disbursement
\* apart, give nobody else a turn) and any way they fail: what releaseCollateral
\* and forfeitCollateral take is always that of one loan (vault.service.ts).
THEOREM VaultsLockTheirLoans ==
  ASSUME AsShipped, RoomForCents PROVE Spec => []LockedIsSum
  <1>1. TypeInv /\ BooksInv /\ SumInv => LockedIsSum
    <2> SUFFICES ASSUME TypeInv, BooksInv, SumInv PROVE LockedIsSum
      OBVIOUS
    <2>1. ASSUME NEW g \in Guarantors
          PROVE  vault[g].locked
                   = MapThenSumSet(LAMBDA l : OutstandingCollateral(loan[l]), LoansOf(g))
      <3>1. vault[g].locked = SumOver(Locks(book, loan, g), LoanIds)
        BY DEF SumInv
      <3> QED
        BY <3>1, SumOfLoans
    <2> QED
      BY <2>1 DEF LockedIsSum
  <1> QED
    BY <1>1, AlwaysSum, PTL
-----------------------------------------------------------------------------
(***************************************************************************)
(* The gateway holds what the book counts on.  The gateway is told first,  *)
(* so while the handler that told it has yet to resume, the two accounts   *)
(* differ by what that handler is moving; everyone else waits meanwhile.   *)
(***************************************************************************)

\* A gateway that may refuse, but neither throws nor loses an answer.
Refusing == GatewayFaults \subseteq {"refused"}

\* What the gateway should hold of the loan l, while x is the task whose turn it is.
Expected(x, bk, lns, l) ==
    IF x.loan = l /\ x.at = "lock" /\ x.answer = "ok"
    THEN lns[l].locked
    ELSE IF x.loan = l /\ x.at \in {"release", "liquidate"} /\ x.answer = "ok"
    THEN HeldBy(bk, lns, l) - x.amount
    ELSE IF x.loan = l /\ x.at \in {"unwind", "unwindClose"}
    THEN 0
    ELSE HeldBy(bk, lns, l)

\* What it has already added to the balance of g, or taken off it.
Ahead(x, lns, g) ==
    IF x.at = "deposit" /\ x.answer = "ok" /\ x.guarantor = g
    THEN x.amount
    ELSE IF \/ x.at = "withdraw" /\ x.answer = "ok" /\ x.guarantor = g
            \/ x.at = "liquidate" /\ x.answer = "ok" /\ lns[x.loan].guarantor = g
    THEN - x.amount
    ELSE 0

\* A refused release leaves more on the gateway than the book counts on; of a
\* defaulted loan it keeps the excess.
Agrees(amount, expected, ln) ==
    /\ amount >= expected
    /\ Faultless /\ ln.status # "defaulted" => amount = expected

AgreesOn(x, bk, lns, pos, l) ==
    IF lns[l].status = "none"
    THEN \A g \in Guarantors : pos[g].perLoan[l] = 0
    ELSE lns[l].guarantor \in Guarantors =>
           Agrees(pos[lns[l].guarantor].perLoan[l], Expected(x, bk, lns, l), lns[l])

\* The vault can still follow suit when the gateway has locked.
RoomToLock(x, lns, vlt) ==
    x.at = "lock" /\ lns[x.loan].guarantor \in Guarantors =>
        CanLock(vlt[lns[x.loan].guarantor], lns[x.loan].locked)

Accord(x, bk, lns, vlt, pos) ==
    /\ \A l \in LoanIds : AgreesOn(x, bk, lns, pos, l)
    /\ \A g \in Guarantors : pos[g].balance = vlt[g].balance + Ahead(x, lns, g)
    /\ RoomToLock(x, lns, vlt)

AnswersInv == \A t \in Tasks : task[t].answer \in {"ok", "refused"}

PositionInv ==
    \A t \in Tasks : HasTurn(t) => Accord(task[t], book, loan, vault, position)
LEMMA RefusedOnly ==
  ASSUME Refusing, NEW o \in Outcomes
  PROVE  /\ o \in {"ok", "refused"} /\ (TookEffect(o) <=> o = "ok")
         /\ Faultless => o = "ok"
  BY DEF Refusing, Outcomes, TookEffect, Faultless

LEMMA BegunStays ==
  ASSUME TypeInv, ShippedInv, [Next]_vars, NEW l \in LoanIds, loan[l].status # "none"
  PROVE  loan'[l].status # "none"
  <1>1. CASE loan[l].status \in {"repaid", "defaulted"}
    BY <1>1, ClosedStays
  <1>2. CASE IsOpen(loan[l])
    <2>1. OpenMoves(l)
      BY <1>2, OpenLoanMoves
    <2> QED
      BY <1>2, <2>1 DEF OpenMoves, IsOpen, Rests, Swept, Attested, SettledTo, DefaultedTo
  <1>3. loan[l] \in LoanRecord
    BY DEF TypeInv, TypeOK
  <1> QED
    BY <1>1, <1>2, <1>3 DEF LoanRecord, LoanStatus, IsOpen

\* Awaits of tasks that move no collateral and no balance.
Still(x) ==
    x.at \notin {"lock", "release", "liquidate", "unwind", "unwindClose", "deposit", "withdraw"}

LEMMA StillExpects ==
  ASSUME NEW x, Still(x), NEW bk, NEW lns
  PROVE  /\ \A l : Expected(x, bk, lns, l) = HeldBy(bk, lns, l)
         /\ \A g : Ahead(x, lns, g) = 0
         /\ \A vlt : RoomToLock(x, lns, vlt)
  BY DEF Still, Expected, Ahead, RoomToLock

\* Nor do they differ from each other.
LEMMA StillAlike ==
  ASSUME NEW x, NEW y, Still(x), Still(y), NEW bk, NEW lns, NEW vlt, NEW pos,
         Accord(x, bk, lns, vlt, pos)
  PROVE  Accord(y, bk, lns, vlt, pos)
  BY StillExpects DEF Accord, AgreesOn

\* What the task whose turn it is leaves in accord is so for the next one's turn.
LEMMA TurnPasses ==
  ASSUME OneAtATime, NEW t \in Tasks, HasTurn(t), \A u \in Tasks \ {t} : task'[u] = task[u],
         Accord(task'[t], book', loan', vault', position')
  PROVE  PositionInv'
  <1> SUFFICES ASSUME NEW u \in Tasks, \A w \in Tasks \ {u} : task'[w].at \in YieldsAt \cup {"idle"}
               PROVE  Accord(task'[u], book', loan', vault', position')
    BY DEF PositionInv, HasTurn, Parked
  <1>1. CASE u = t
    BY <1>1
  <1>2. CASE u # t
    <2>1. task'[t].at \in {"disburse", "idle"} /\ task'[u].at \in {"disburse", "idle"}
      BY <1>2 DEF HasTurn, Parked, OneAtATime
    <2>2. Still(task'[t]) /\ Still(task'[u])
      BY <2>1 DEF Still
    <2> QED
      BY <2>2, StillAlike
  <1> QED
    BY <1>1, <1>2

\* A step that moves nothing, by a task that was not moving anything.
LEMMA StillStep ==
  ASSUME TypeInv, BooksInv, [Next]_vars, HeldStays, UNCHANGED <<vault, position>>,
         \A l \in LoanIds : loan[l].status = "none" => loan'[l].status = "none",
         NEW x, NEW y, Still(x), Still(y), Accord(x, book, loan, vault, position)
  PROVE  Accord(y, book', loan', vault', position')
  <1>1. ASSUME NEW l \in LoanIds PROVE AgreesOn(y, book', loan', position', l)
    <2>1. AgreesOn(x, book, loan, position, l)
      BY DEF Accord
    <2>2. CASE loan[l].status = "none"
      BY <2>1, <2>2 DEF AgreesOn
    <2>3. CASE loan[l].status # "none"
      <3>1. loan'[l].status # "none" /\ loan'[l].guarantor = loan[l].guarantor
        BY <2>3, ContractKept, BegunStays DEF BooksInv, ShippedInv, SameContract
      <3>2. loan[l].status = "defaulted" => loan'[l].status = "defaulted"
        BY ClosedStays DEF BooksInv
      <3>3. Expected(y, book', loan', l) = Expected(x, book, loan, l)
        BY StillExpects DEF HeldStays
      <3> QED
        BY <2>1, <2>3, <3>1, <3>2, <3>3 DEF AgreesOn, Agrees
    <2> QED
      BY <2>2, <2>3
  <1>2. \A g \in Guarantors : position'[g].balance = vault'[g].balance + Ahead(y, loan', g)
    BY StillExpects DEF Accord
  <1>3. RoomToLock(y, loan', vault')
    BY StillExpects
  <1> QED
    BY <1>1, <1>2, <1>3 DEF Accord

\* A step that moves the collateral of one loan.
LEMMA OneLoanStep ==
  ASSUME NEW m \in LoanIds, NEW h, loan'[m].status # "none", loan'[m].guarantor = h,
         NEW x, NEW y, Accord(x, book, loan, vault, position),
         x.loan = m \/ Still(x), y.loan = m \/ Still(y),
         \A l \in LoanIds \ {m} : loan'[l] = loan[l] /\ (l \in book' <=> l \in book),
         \A g \in Guarantors, l \in LoanIds \ {m} :
           position'[g].perLoan[l] = position[g].perLoan[l],
         h \in Guarantors =>
           Agrees(position'[h].perLoan[m], Expected(y, book', loan', m), loan'[m]),
         \A g \in Guarantors : position'[g].balance = vault'[g].balance + Ahead(y, loan', g),
         RoomToLock(y, loan', vault')
  PROVE  Accord(y, book', loan', vault', position')
  <1>1. ASSUME NEW l \in LoanIds, l # m PROVE AgreesOn(y, book', loan', position', l)
    <2>1. AgreesOn(x, book, loan, position, l)
      BY DEF Accord
    <2>2. /\ Expected(x, book, loan, l) = HeldBy(book, loan, l)
          /\ Expected(y, book', loan', l) = HeldBy(book', loan', l)
          /\ HeldBy(book', loan', l) = HeldBy(book, loan, l)
      <3>1. x.loan # l \/ Still(x)
        BY <1>1
      <3>2. y.loan # l \/ Still(y)
        BY <1>1
      <3>3. Expected(x, book, loan, l) = HeldBy(book, loan, l)
        BY <3>1, StillExpects DEF Expected
      <3>4. Expected(y, book', loan', l) = HeldBy(book', loan', l)
        BY <3>2, StillExpects DEF Expected
      <3>5. HeldBy(book', loan', l) = HeldBy(book, loan, l)
        BY <1>1 DEF HeldBy
      <3> QED
        BY <3>3, <3>4, <3>5
    <2>3. /\ loan'[l] = loan[l]
          /\ \A g \in Guarantors : position'[g].perLoan[l] = position[g].perLoan[l]
      BY <1>1
    <2> QED
      BY <2>1, <2>2, <2>3 DEF AgreesOn
  <1>2. AgreesOn(y, book', loan', position', m)
    BY DEF AgreesOn
  <1> QED
    BY <1>1, <1>2 DEF Accord
\* Every answer a task resumes with is one a refusing gateway gives.
LEMMA AlwaysAnswers == ASSUME Refusing PROVE Spec => []AnswersInv
  <1>1. Init => AnswersInv
    BY DEF Init, AnswersInv, Idle
  <1>2. TypeInv /\ AnswersInv /\ [Next]_vars => AnswersInv'
    <2> SUFFICES ASSUME TypeInv, AnswersInv, [Next]_vars, NEW t \in Tasks
                 PROVE  task'[t].answer \in {"ok", "refused"}
      BY DEF AnswersInv
    <2>1. TaskMoves(t)
      BY EveryTaskMoves
    <2> QED
      BY <2>1 DEF TaskMoves, Arrives, AnswersInv, Outcomes, Refusing
  <1> QED
    BY <1>1, <1>2, AlwaysTyped, PTL DEF Spec

\* What the position invariant is proved with.
AccordInv == BooksInv /\ HeldWithin /\ AnswersInv /\ PositionInv

\* Only a handler that has been quoted a price begins a loan.
LEMMA NoNewLoan ==
  ASSUME OneAtATime, TypeInv, [Next]_vars, NEW t \in Tasks, HasTurn(t), task[t].at # "quote"
  PROVE  \A l \in LoanIds : loan[l].status = "none" => loan'[l].status = "none"
  <1>1. \A u \in Tasks : task[u].at # "quote"
    BY DEF HasTurn, Parked, OneAtATime
  <1> QED
    BY <1>1, UnbegunMoves

LEMMA StillTurn ==
  ASSUME OneAtATime, TypeInv, AccordInv, [Next]_vars, NEW t \in Tasks, HasTurn(t),
         task[t].at # "quote" \/ UNCHANGED loan,
         Still(task[t]), Still(task'[t]), HeldStays, UNCHANGED <<vault, position>>
  PROVE  Accord(task'[t], book', loan', vault', position')
  <1>1. \A l \in LoanIds : loan[l].status = "none" => loan'[l].status = "none"
    BY NoNewLoan
  <1>2. Accord(task[t], book, loan, vault, position) /\ BooksInv
    BY DEF AccordInv, PositionInv
  <1> QED
    BY <1>1, <1>2, StillStep

\* A step that moves a balance, or the one the other account has moved already.
LEMMA BalanceStep ==
  ASSUME NEW x, NEW y, Accord(x, book, loan, vault, position), UNCHANGED <<loan, book>>,
         Still(x) \/ x.at \in {"deposit", "withdraw"},
         Still(y) \/ y.at \in {"deposit", "withdraw"},
         \A g \in Guarantors, l \in LoanIds : position'[g].perLoan[l] = position[g].perLoan[l],
         \A g \in Guarantors : position'[g].balance = vault'[g].balance + Ahead(y, loan', g)
  PROVE  Accord(y, book', loan', vault', position')
  <1>1. /\ \A l : Expected(x, book, loan, l) = HeldBy(book, loan, l)
        /\ \A l : Expected(y, book', loan', l) = HeldBy(book, loan, l)
        /\ RoomToLock(y, loan', vault')
    <2>1. CASE Still(x) /\ Still(y)
      BY <2>1, StillExpects
    <2>2. CASE Still(x) /\ y.at \in {"deposit", "withdraw"}
      BY <2>2, StillExpects DEF Expected, RoomToLock
    <2>3. CASE x.at \in {"deposit", "withdraw"} /\ Still(y)
      BY <2>3, StillExpects DEF Expected
    <2>4. CASE x.at \in {"deposit", "withdraw"} /\ y.at \in {"deposit", "withdraw"}
      BY <2>4 DEF Expected, RoomToLock
    <2> QED
      BY <2>1, <2>2, <2>3, <2>4
  <1>2. ASSUME NEW l \in LoanIds PROVE AgreesOn(y, book', loan', position', l)
    <2>1. AgreesOn(x, book, loan, position, l)
      BY DEF Accord
    <2> QED
      BY <1>1, <2>1 DEF AgreesOn
  <1> QED
    BY <1>1, <1>2 DEF Accord

LEMMA OnePositionWritten ==
  ASSUME TypeInv, NEW h, NEW q, position' = [position EXCEPT ![h] = q], NEW g \in Guarantors
  PROVE  position'[g] = IF g = h THEN q ELSE position[g]
  BY DEF TypeInv, TypeOK

LEMMA GatewayFields ==
  ASSUME NEW p \in Position, NEW m \in LoanIds, NEW a
  PROVE  /\ GwDeposit(p, a).balance = p.balance + a /\ GwDeposit(p, a).perLoan = p.perLoan
         /\ GwWithdraw(p, a).balance = p.balance - a /\ GwWithdraw(p, a).perLoan = p.perLoan
         /\ GwLock(p, m, a).balance = p.balance
         /\ GwLock(p, m, a).perLoan[m] = p.perLoan[m] + a
         /\ GwRelease(p, m, a).balance = p.balance
         /\ GwRelease(p, m, a).perLoan[m] = IF p.perLoan[m] > a THEN p.perLoan[m] - a ELSE 0
         /\ GwLiquidate(p, m, a).balance = IF p.balance > a THEN p.balance - a ELSE 0
         /\ GwLiquidate(p, m, a).perLoan[m] = IF p.perLoan[m] > a THEN p.perLoan[m] - a ELSE 0
         /\ \A l \in LoanIds \ {m} : /\ GwLock(p, m, a).perLoan[l] = p.perLoan[l]
                                     /\ GwRelease(p, m, a).perLoan[l] = p.perLoan[l]
                                     /\ GwLiquidate(p, m, a).perLoan[l] = p.perLoan[l]
  BY DEF GwDeposit, GwWithdraw, GwLock, GwRelease, GwLiquidate, Position

\* What the invariant says before a step.
LEMMA AccordBefore ==
  ASSUME TypeInv, AccordInv, NEW t \in Tasks, HasTurn(t)
  PROVE  /\ Accord(task[t], book, loan, vault, position)
         /\ \A g \in Guarantors :
              /\ position[g] \in Position /\ vault[g] \in VaultAccount
              /\ position[g].balance \in Int /\ vault[g].balance \in Int
              /\ \A l \in LoanIds : position[g].perLoan[l] \in Int
              /\ position[g].balance = vault[g].balance + Ahead(task[t], loan, g)
         /\ \A l \in LoanIds :
              loan[l].status # "none" /\ loan[l].guarantor \in Guarantors =>
                Agrees(position[loan[l].guarantor].perLoan[l],
                       Expected(task[t], book, loan, l), loan[l])
         /\ \A l \in LoanIds, g \in Guarantors :
              loan[l].status = "none" => position[g].perLoan[l] = 0
         /\ RoomToLock(task[t], loan, vault)
  <1>1. Accord(task[t], book, loan, vault, position)
    BY DEF AccordInv, PositionInv
  <1>2. \A g \in Guarantors : position[g] \in Position /\ vault[g] \in VaultAccount
    BY DEF TypeInv, TypeOK
  <1>3. \A g \in Guarantors : /\ position[g].balance \in Int /\ vault[g].balance \in Int
                              /\ \A l \in LoanIds : position[g].perLoan[l] \in Int
    BY <1>2 DEF Position, VaultAccount
  <1> QED
    BY <1>1, <1>2, <1>3 DEF Accord, AgreesOn

LEMMA DepositAccord ==
  ASSUME Refusing, TypeInv, AccordInv, NEW t \in Tasks, NEW g \in Guarantors, NEW a \in Amounts,
         Deposit(t, g, a) \/ Withdraw(t, g, a)
  PROVE  Accord(task'[t], book', loan', vault', position')
  <1>1. HasTurn(t) /\ Still(task[t]) /\ UNCHANGED <<vault, loan, book>>
    BY DEF Deposit, Withdraw, Starts, Still
  <1>2. a \in Int
    BY LoanBookAssumption
  <1>3. CASE Deposit(t, g, a)
    <2>1. PICK o \in Outcomes :
            /\ position' = IF TookEffect(o) THEN [position EXCEPT ![g] = GwDeposit(@, a)] ELSE position
            /\ task' = [task EXCEPT ![t] = [Idle EXCEPT !.at = "deposit", !.answer = o,
                                                        !.guarantor = g, !.amount = a]]
      BY <1>3 DEF Deposit
    <2> DEFINE y == [Idle EXCEPT !.at = "deposit", !.answer = o, !.guarantor = g, !.amount = a]
    <2>2. y.at = "deposit" /\ y.answer = o /\ y.guarantor = g /\ y.amount = a
      BY DEF Idle
    <2>3. task' = [task EXCEPT ![t] = y]
      BY <2>1
    <2> HIDE DEF y
    <2>4. task'[t] = y
      BY <2>3, TaskWritten
    <2>5. ASSUME NEW k \in Guarantors
          PROVE  /\ position'[k].balance = vault'[k].balance + Ahead(y, loan', k)
                 /\ \A l \in LoanIds : position'[k].perLoan[l] = position[k].perLoan[l]
      <3>1. /\ position[k] \in Position /\ vault[k].balance \in Int
            /\ position[k].balance = vault[k].balance
        BY <1>1, AccordBefore, StillExpects
      <3>2. /\ GwDeposit(position[k], a).balance = position[k].balance + a
            /\ GwDeposit(position[k], a).perLoan = position[k].perLoan
        BY <3>1 DEF GwDeposit, Position
      <3>3. o = "ok" \/ o = "refused"
        BY RefusedOnly
      <3>4. CASE o = "ok"
        <4>1. position'[k] = IF k = g THEN GwDeposit(position[k], a) ELSE position[k]
          BY <2>1, <3>4 DEF TookEffect, TypeInv, TypeOK
        <4>2. Ahead(y, loan', k) = IF k = g THEN a ELSE 0
          BY <2>2, <3>4 DEF Ahead
        <4> QED
          BY <1>1, <1>2, <3>1, <3>2, <4>1, <4>2
      <3>5. CASE o = "refused"
        <4>1. position' = position
          BY <2>1, <3>5 DEF TookEffect
        <4>2. Ahead(y, loan', k) = 0
          BY <2>2, <3>5 DEF Ahead
        <4> QED
          BY <1>1, <3>1, <4>1, <4>2
      <3> QED
        BY <3>3, <3>4, <3>5
    <2> QED
      BY <1>1, <2>2, <2>4, <2>5, AccordBefore, BalanceStep
  <1>4. CASE Withdraw(t, g, a)
    <2>1. PICK o \in Outcomes, done \in BOOLEAN :
            /\ done = (TookEffect(o) /\ a <= PositionAvailable(position[g]))
            /\ position' = IF done THEN [position EXCEPT ![g] = GwWithdraw(@, a)] ELSE position
            /\ task' = [task EXCEPT ![t] = [Idle EXCEPT !.at = "withdraw", !.guarantor = g,
                 !.amount = a, !.answer = IF TookEffect(o) /\ ~done THEN "refused" ELSE o]]
      BY <1>4 DEF Withdraw
    <2> DEFINE w == IF TookEffect(o) /\ ~done THEN "refused" ELSE o
               y == [Idle EXCEPT !.at = "withdraw", !.guarantor = g, !.amount = a, !.answer = w]
    <2>2. w = IF done THEN "ok" ELSE "refused"
      BY <2>1, RefusedOnly
    <2> HIDE DEF w
    <2>3. y.at = "withdraw" /\ y.answer = w /\ y.guarantor = g /\ y.amount = a
      BY DEF Idle
    <2>4. task' = [task EXCEPT ![t] = y]
      BY <2>1 DEF w
    <2> HIDE DEF y
    <2>5. task'[t] = y
      BY <2>4, TaskWritten
    <2>6. ASSUME NEW k \in Guarantors
          PROVE  /\ position'[k].balance = vault'[k].balance + Ahead(y, loan', k)
                 /\ \A l \in LoanIds : position'[k].perLoan[l] = position[k].perLoan[l]
      <3>1. /\ position[k] \in Position /\ vault[k].balance \in Int
            /\ position[k].balance = vault[k].balance
        BY <1>1, AccordBefore, StillExpects
      <3>2. /\ GwWithdraw(position[k], a).balance = position[k].balance - a
            /\ GwWithdraw(position[k], a).perLoan = position[k].perLoan
        BY <3>1 DEF GwWithdraw, Position
      <3>3. CASE done
        <4>1. position'[k] = IF k = g THEN GwWithdraw(position[k], a) ELSE position[k]
          BY <2>1, <3>3 DEF TypeInv, TypeOK
        <4>2. Ahead(y, loan', k) = IF k = g THEN - a ELSE 0
          BY <2>2, <2>3, <3>3 DEF Ahead
        <4> QED
          BY <1>1, <1>2, <3>1, <3>2, <4>1, <4>2
      <3>4. CASE ~done
        <4>1. position' = position
          BY <2>1, <3>4
        <4>2. Ahead(y, loan', k) = 0
          BY <2>2, <2>3, <3>4 DEF Ahead
        <4> QED
          BY <1>1, <3>1, <4>1, <4>2
      <3> QED
        BY <3>3, <3>4
    <2> QED
      BY <1>1, <2>3, <2>5, <2>6, AccordBefore, BalanceStep
  <1> QED
    BY <1>3, <1>4

LEMMA DepositReturnsAccord ==
  ASSUME TypeInv, AccordInv, NEW t \in Tasks, DepositReturns(t) \/ WithdrawReturns(t)
  PROVE  Accord(task'[t], book', loan', vault', position')
  <1> DEFINE x == task[t]
             y == task'[t]
             g == x.guarantor
  <1>1. /\ HasTurn(t) /\ x.at \in {"deposit", "withdraw"} /\ Ends(t)
        /\ UNCHANGED <<position, loan, book>>
    BY DEF DepositReturns, WithdrawReturns, Resumes
  <1>2. Still(y) /\ g \in Guarantors /\ x.amount \in Int
    <2>1. y.at = "idle"
      BY <1>1, EndsIdle
    <2> QED
      BY <1>1, <2>1 DEF Still, TypeInv, TypeOK, TaskRecord, Fits
  <1>3. ASSUME NEW k \in Guarantors
        PROVE  position'[k].balance = vault'[k].balance + Ahead(y, loan', k)
    <2>1. /\ position[k].balance = vault[k].balance + Ahead(x, loan, k)
          /\ vault[k] \in VaultAccount /\ vault[k].balance \in Int
      BY <1>1, AccordBefore
    <2>2. Ahead(y, loan', k) = 0
      BY <1>2, StillExpects
    <2>3. /\ Deposited(vault[k], x.amount).balance = vault[k].balance + x.amount
          /\ Withdrawn(vault[k], x.amount).balance = vault[k].balance - x.amount
      BY <2>1 DEF VaultAccount, Deposited, Withdrawn
    <2>4. CASE x.answer # "ok"
      <3>1. vault' = vault
        BY <2>4 DEF DepositReturns, WithdrawReturns
      <3>2. Ahead(x, loan, k) = 0
        BY <1>1, <2>4 DEF Ahead
      <3> QED
        BY <1>1, <2>1, <2>2, <3>1, <3>2
    <2>5. CASE x.answer = "ok" /\ x.at = "deposit"
      <3>1. vault'[k] = IF k = g THEN Deposited(vault[k], x.amount) ELSE vault[k]
        BY <2>5 DEF DepositReturns, WithdrawReturns, Resumes, TypeInv, TypeOK
      <3>2. Ahead(x, loan, k) = IF k = g THEN x.amount ELSE 0
        BY <2>5 DEF Ahead
      <3> QED
        BY <1>1, <1>2, <2>1, <2>2, <2>3, <3>1, <3>2
    <2>6. CASE x.answer = "ok" /\ x.at = "withdraw"
      <3>1. vault'[k] = IF k = g THEN Withdrawn(vault[k], x.amount) ELSE vault[k]
        BY <2>6 DEF DepositReturns, WithdrawReturns, Resumes, TypeInv, TypeOK
      <3>2. Ahead(x, loan, k) = IF k = g THEN - x.amount ELSE 0
        BY <2>6 DEF Ahead
      <3> QED
        BY <1>1, <1>2, <2>1, <2>2, <2>3, <3>1, <3>2
    <2> QED
      BY <1>1, <2>4, <2>5, <2>6
  <1> HIDE DEF y
  <1> QED
    BY <1>1, <1>2, <1>3, AccordBefore, BalanceStep DEF y

\* Where the handlers that move nothing go on to.
LEMMA GoesOnStill ==
  ASSUME TypeInv, NEW t \in Tasks,
         \/ Ends(t)
         \/ \E left : Proceeds(t, left)
         \/ Sweep(t)
         \/ \E g, b, tm : Originate(t, g, b, tm)
         \/ \E l, i : Attest(t, l, i)
         \/ \E l : PollStatus(t, l)
         \/ \E ln : SettleInstallment(t, ln)
  PROVE  Still(task'[t])
  <1>1. CASE Ends(t)
    BY <1>1, EndsIdle DEF Still
  <1>2. ASSUME NEW left, Proceeds(t, left) PROVE Still(task'[t])
    <2>1. CASE left = {}
      BY <1>1, <1>2, <2>1 DEF Proceeds, Ends
    <2>2. CASE left # {}
      <3> DEFINE x == [Idle EXCEPT !.at = "next", !.todo = left, !.asOf = task[t].asOf]
      <3>1. x.at = "next"
        BY DEF Idle
      <3>2. task' = [task EXCEPT ![t] = x]
        BY <1>2, <2>2 DEF Proceeds
      <3> HIDE DEF x
      <3> QED
        BY <3>1, <3>2, TaskWritten DEF Still
    <2> QED
      BY <2>1, <2>2
  <1>3. CASE Sweep(t)
    <2> DEFINE x == [Idle EXCEPT !.at = "next", !.todo = OpenLoans, !.asOf = now]
    <2>1. x.at = "next"
      BY DEF Idle
    <2>2. task' = [task EXCEPT ![t] = x]
      BY <1>3 DEF Sweep
    <2> HIDE DEF x
    <2> QED
      BY <2>1, <2>2, TaskWritten DEF Still
  <1>4. ASSUME NEW g, NEW b, NEW tm, Originate(t, g, b, tm) PROVE Still(task'[t])
    <2>1. PICK l : task' = [task EXCEPT ![t] = [Idle EXCEPT !.at = "quote", !.loan = l,
                              !.guarantor = g, !.beneficiary = b, !.terms = tm]]
      BY <1>4 DEF Originate
    <2> DEFINE x == [Idle EXCEPT !.at = "quote", !.loan = l, !.guarantor = g,
                                 !.beneficiary = b, !.terms = tm]
    <2>2. x.at = "quote"
      BY DEF Idle
    <2>3. task' = [task EXCEPT ![t] = x]
      BY <2>1
    <2> HIDE DEF x
    <2> QED
      BY <2>2, <2>3, TaskWritten DEF Still
  <1>5. ASSUME NEW l, NEW i, Attest(t, l, i) PROVE Still(task'[t])
    <2> DEFINE x == [Idle EXCEPT !.at = "verify", !.loan = l, !.n = i]
    <2>1. x.at = "verify"
      BY DEF Idle
    <2>2. task' = [task EXCEPT ![t] = x]
      BY <1>5 DEF Attest
    <2> HIDE DEF x
    <2> QED
      BY <2>1, <2>2, TaskWritten DEF Still
  <1>6. ASSUME NEW l, PollStatus(t, l) PROVE Still(task'[t])
    <2> DEFINE x == [Idle EXCEPT !.at = "status", !.loan = l]
    <2>1. x.at = "status"
      BY DEF Idle
    <2>2. task' = [task EXCEPT ![t] = x]
      BY <1>6 DEF PollStatus
    <2> HIDE DEF x
    <2> QED
      BY <2>1, <2>2, TaskWritten DEF Still
  <1>7. ASSUME NEW ln, SettleInstallment(t, ln), ~Ends(t) PROVE Still(task'[t])
    <2>1. PICK o : task' = [task EXCEPT ![t] = [Idle EXCEPT !.at = "close", !.loan = task[t].loan,
                                                            !.answer = o]]
      BY <1>7 DEF SettleInstallment
    <2> DEFINE x == [Idle EXCEPT !.at = "close", !.loan = task[t].loan, !.answer = o]
    <2>2. x.at = "close"
      BY DEF Idle
    <2>3. task' = [task EXCEPT ![t] = x]
      BY <2>1
    <2> HIDE DEF x
    <2> QED
      BY <2>2, <2>3, TaskWritten DEF Still
  <1> QED
    BY <1>1, <1>2, <1>3, <1>4, <1>5, <1>6, <1>7

\* Requests that only look before their first await, or note an outcome.
LEMMA QuietRequestAccord ==
  ASSUME OneAtATime, FromTheListing, TypeInv, AccordInv, [Next]_vars, NEW t \in Tasks,
         \/ Sweep(t)
         \/ \E g \in Guarantors, b \in Beneficiaries, tm \in Terms : Originate(t, g, b, tm)
         \/ \E l \in LoanIds, i \in Installments : Attest(t, l, i)
         \/ \E l \in LoanIds : PollStatus(t, l) \/ (Reconcile(t, l) /\ payout[l] = "paid")
  PROVE  Accord(task'[t], book', loan', vault', position')
  <1>1. HasTurn(t) /\ task[t].at = "idle" /\ UNCHANGED <<vault, position>>
    BY DEF Sweep, Originate, Attest, PollStatus, Reconcile, Resolve, Starts
  <1>2. HeldStays
    BY RequestHolds DEF Request
  <1>3. Still(task'[t])
    BY GoesOnStill DEF Reconcile, Resolve
  <1> QED
    BY <1>1, <1>2, <1>3, StillTurn DEF Still

\* A repayment that releases nothing, or has not been recorded.
LEMMA RepayWithout ==
  ASSUME NEW t \in Tasks, RepayReturns(t), task[t].amount = 0 \/ Threw(t)
  PROVE  UNCHANGED position /\ (Ends(t) \/ SettleInstallment(t, loan[task[t].loan]))
  <1>1. \/ Threw(t) /\ Ends(t) /\ UNCHANGED <<position, loan, book>>
        \/ SettleInstallment(t, loan[task[t].loan]) /\ UNCHANGED position
        \/ Resolved(t) /\ task[t].amount > 0
    BY DEF RepayReturns
  <1>2. ~(Resolved(t) /\ task[t].amount > 0)
    BY DEF Resolved, Threw
  <1> QED
    BY <1>1, <1>2

\* Handlers that resume and move no collateral.
LEMMA QuietReturnAccord ==
  ASSUME OneAtATime, TypeInv, AccordInv, [Next]_vars, NEW t \in Tasks,
         \/ QuoteReturns(t) /\ UNCHANGED <<position, loan>> /\ Ends(t)
         \/ RecordReturns(t) \/ DisburseReturns(t) \/ DisburseTimesOut(t)
         \/ VerifyReturns(t) \/ CloseReturns(t) \/ LiquidateCloseReturns(t)
         \/ RepayReturns(t) /\ (task[t].amount = 0 \/ Threw(t))
         \/ StatusReturns(t) /\ payout[task[t].loan] = "paid"
         \/ \E l \in LoanIds : EvaluateClosed(t, l) \/ EvaluateMissed(t, l) \/ EvaluateOther(t, l)
  PROVE  Accord(task'[t], book', loan', vault', position')
  <1>1. /\ HasTurn(t) /\ UNCHANGED <<vault, position>>
        /\ task[t].at \in {"quote", "record", "disburse", "verify", "close", "liquidateClose",
                           "repay", "status", "next"}
        /\ task[t].at # "quote" \/ UNCHANGED loan
    <2>1. CASE RepayReturns(t) /\ (task[t].amount = 0 \/ Threw(t))
      <3>1. UNCHANGED position
        BY <2>1, RepayWithout
      <3> QED
        BY <2>1, <3>1 DEF RepayReturns, Resumes
    <2>2. CASE StatusReturns(t) /\ payout[task[t].loan] = "paid"
      BY <2>2 DEF StatusReturns, Resolve, Resumes
    <2>3. CASE QuoteReturns(t) /\ UNCHANGED <<position, loan>> /\ Ends(t)
      BY <2>3 DEF QuoteReturns, Resumes
    <2>4. CASE DisburseReturns(t) \/ DisburseTimesOut(t)
      BY <2>4 DEF DisburseReturns, DisburseTimesOut, DisbursementEnds, Resumes
    <2>5. CASE RecordReturns(t) \/ VerifyReturns(t) \/ CloseReturns(t) \/ LiquidateCloseReturns(t)
      BY <2>5 DEF RecordReturns, VerifyReturns, CloseReturns, LiquidateCloseReturns, Resumes
    <2>6. CASE \E l \in LoanIds : EvaluateClosed(t, l) \/ EvaluateMissed(t, l) \/ EvaluateOther(t, l)
      BY <2>6 DEF EvaluateClosed, EvaluateMissed, EvaluateOther, Evaluates, Resumes
    <2> QED
      BY <2>1, <2>2, <2>3, <2>4, <2>5, <2>6
  <1>2. HeldStays
    BY QuietStepHolds, SweepHolds DEF AccordInv
  <1>3. Still(task'[t])
    <2>1. CASE task[t].at \in {"record", "verify", "close", "liquidateClose"}
      <3>1. TaskMoves(t)
        BY EveryTaskMoves
      <3> QED
        BY <2>1, <3>1 DEF TaskMoves, Arrives, Beginnings, Disproved, Still
    <2>2. CASE task[t].at \notin {"record", "verify", "close", "liquidateClose"}
      <3>1. \/ Ends(t) \/ (\E left : Proceeds(t, left)) \/ (\E ln : SettleInstallment(t, ln))
        <4>1. CASE RepayReturns(t) /\ (task[t].amount = 0 \/ Threw(t))
          BY <4>1, RepayWithout
        <4>2. CASE StatusReturns(t) /\ payout[task[t].loan] = "paid"
          BY <4>2 DEF StatusReturns, Resolve
        <4>3. CASE DisburseReturns(t) \/ DisburseTimesOut(t)
          BY <4>3 DEF DisburseReturns, DisburseTimesOut, DisbursementEnds
        <4>4. CASE QuoteReturns(t) /\ UNCHANGED <<position, loan>> /\ Ends(t)
          BY <4>4
        <4>5. ~(RecordReturns(t) \/ VerifyReturns(t) \/ CloseReturns(t) \/ LiquidateCloseReturns(t))
          BY <2>2 DEF RecordReturns, VerifyReturns, CloseReturns, LiquidateCloseReturns, Resumes
        <4>6. CASE \E l \in LoanIds : EvaluateClosed(t, l) \/ EvaluateMissed(t, l) \/ EvaluateOther(t, l)
          BY <4>6 DEF EvaluateClosed, EvaluateMissed, EvaluateOther
        <4> QED
          BY <4>1, <4>2, <4>3, <4>4, <4>5, <4>6
      <3> QED
        BY <3>1, GoesOnStill
    <2> QED
      BY <2>1, <2>2
  <1> QED
    BY <1>1, <1>2, <1>3, StillTurn DEF Still

-----------------------------------------------------------------------------
(* The handlers that move the collateral of one loan                       *)

\* Priced: the gateway has been asked to lock.
LEMMA QuoteAccord ==
  ASSUME Refusing, TypeInv, AccordInv, NEW t \in Tasks, QuoteReturns(t),
         loan' = [loan EXCEPT ![task[t].loan] =
                    NewLoan(task[t].guarantor, task[t].beneficiary, task[t].terms)],
         Available(vault[task[t].guarantor])
           >= NewLoan(task[t].guarantor, task[t].beneficiary, task[t].terms).locked,
         ~(Ends(t) /\ UNCHANGED <<position, loan>>)
  PROVE  Accord(task'[t], book', loan', vault', position')
  <1> DEFINE m == task[t].loan
             h == task[t].guarantor
             ln == NewLoan(h, task[t].beneficiary, task[t].terms)
             a == ln.locked
  <1>1. /\ HasTurn(t) /\ task[t].at = "quote" /\ UNCHANGED <<vault, book>>
        /\ m \in LoanIds /\ h \in Guarantors /\ task[t].terms \in Terms
    BY DEF QuoteReturns, Resumes, TypeInv, Fits
  <1>2. loan[m].status = "none" /\ m \notin book
    <2>1. loan[m].status = "none"
      BY <1>1 DEF AccordInv, BooksInv, ShippedInv, TimelyInv
    <2> QED
      BY <2>1 DEF TypeInv
  <1>3. ln.status = "active" /\ ln.guarantor = h /\ a \in Int
    BY <1>1, NewLoanFields, RequiredInt
  <1>4. PICK o \in Outcomes, done \in BOOLEAN :
          /\ done = (TookEffect(o) /\ a <= PositionAvailable(position[h]))
          /\ position' = IF done THEN [position EXCEPT ![h] = GwLock(@, m, a)] ELSE position
          /\ task' = [task EXCEPT ![t] = [Idle EXCEPT !.at = "lock", !.loan = m,
               !.answer = IF TookEffect(o) /\ ~done THEN "refused" ELSE o]]
    BY DEF QuoteReturns
  <1> DEFINE w == IF TookEffect(o) /\ ~done THEN "refused" ELSE o
             y == [Idle EXCEPT !.at = "lock", !.loan = m, !.answer = w]
  <1>5. w = IF done THEN "ok" ELSE "refused"
    BY <1>4, RefusedOnly
  <1>6. task' = [task EXCEPT ![t] = y]
    BY <1>4
  <1> HIDE DEF w
  <1>7. y.at = "lock" /\ y.loan = m /\ y.answer = w
    BY DEF Idle
  <1> HIDE DEF y
  <1>8. task'[t] = y
    BY <1>6, TaskWritten
  <1>9. loan'[m] = ln /\ \A l \in LoanIds \ {m} : loan'[l] = loan[l]
    BY <1>1, OneLoanWritten
  <1>10. CanLock(vault'[h], a)
    BY <1>1 DEF CanLock, Available
  <1> HIDE DEF ln
  <1>11. /\ \A g \in Guarantors : position[g] \in Position /\ position[g].perLoan[m] = 0
         /\ Accord(task[t], book, loan, vault, position)
         /\ \A g \in Guarantors : position[g].balance = vault[g].balance
    BY <1>1, <1>2, AccordBefore, StillExpects DEF Still, Ahead
  <1>12. Expected(y, book', loan', m) = IF done THEN a ELSE 0
    BY <1>1, <1>2, <1>5, <1>7, <1>9 DEF Expected, HeldBy
  <1>13. ASSUME NEW g \in Guarantors
         PROVE  /\ position'[g].balance = position[g].balance
                /\ \A l \in LoanIds \ {m} : position'[g].perLoan[l] = position[g].perLoan[l]
                /\ position'[g].perLoan[m] = IF done /\ g = h THEN a ELSE 0
    <2>1. position[g] \in Position /\ position[g].perLoan[m] = 0
      BY <1>11
    <2>2. CASE ~done
      BY <1>4, <2>1, <2>2
    <2>3. CASE done
      <3>1. position'[g] = IF g = h THEN GwLock(position[g], m, a) ELSE position[g]
        BY <1>4, <2>3 DEF TypeInv, TypeOK
      <3> QED
        BY <1>1, <1>3, <2>1, <2>3, <3>1, GatewayFields
    <2> QED
      BY <2>2, <2>3
  <1>14. Agrees(position'[h].perLoan[m], Expected(y, book', loan', m), loan'[m])
    BY <1>1, <1>3, <1>12, <1>13 DEF Agrees
  <1>15. \A g \in Guarantors : position'[g].balance = vault'[g].balance + Ahead(y, loan', g)
    <2> SUFFICES ASSUME NEW g \in Guarantors
                 PROVE  position'[g].balance = vault'[g].balance + Ahead(y, loan', g)
      OBVIOUS
    <2>1. Ahead(y, loan', g) = 0
      BY <1>7 DEF Ahead
    <2>2. vault[g].balance \in Int
      BY DEF TypeInv, TypeOK, VaultAccount
    <2>3. position'[g].balance = vault[g].balance /\ vault' = vault
      BY <1>1, <1>11, <1>13
    <2> HIDE DEF y
    <2> QED
      BY <2>1, <2>2, <2>3
  <1>16. RoomToLock(y, loan', vault')
    BY <1>3, <1>7, <1>9, <1>10 DEF RoomToLock
  <1>17. loan'[m].status # "none" /\ loan'[m].guarantor = h
    BY <1>3, <1>9
  <1> HIDE DEF m, h, a
  <1>18. \A l \in LoanIds \ {m} : loan'[l] = loan[l] /\ (l \in book' <=> l \in book)
    BY <1>1, <1>9
  <1>19. Still(task[t])
    BY <1>1 DEF Still
  <1>20. Accord(y, book', loan', vault', position')
    BY <1>1, <1>7, <1>11, <1>13, <1>14, <1>15, <1>16, <1>17, <1>18, <1>19, OneLoanStep
  <1> QED
    BY <1>8, <1>20

\* The gateway's answer to it: the vault follows suit, or nothing was locked.
LEMMA LockAccord ==
  ASSUME RoomForCents, TypeInv, AccordInv, NEW t \in Tasks, LockReturns(t)
  PROVE  Accord(task'[t], book', loan', vault', position')
  <1> DEFINE m == task[t].loan
             h == loan[m].guarantor
             x == task[t]
             y == task'[t]
  <1>1. HasTurn(t) /\ x.at = "lock" /\ UNCHANGED <<position, loan>>
    BY DEF LockReturns, Resumes
  <1>2. /\ m \in LoanIds /\ loan[m].status # "none" /\ m \notin book
        /\ OutstandingCollateral(loan[m]) = loan[m].locked
    BY <1>1, UntouchedHeld DEF AccordInv
  <1>3. x.answer \in {"ok", "refused"}
    BY DEF AccordInv, AnswersInv
  <1>4. /\ Accord(x, book, loan, vault, position) /\ RoomToLock(x, loan, vault)
        /\ h \in Guarantors =>
             Agrees(position[h].perLoan[m], Expected(x, book, loan, m), loan[m])
        /\ \A g \in Guarantors : /\ position[g].balance = vault[g].balance
                                 /\ vault[g] \in VaultAccount
    <2>1. \A g : Ahead(x, loan, g) = 0
      BY <1>1 DEF Ahead
    <2> QED
      BY <1>1, <1>2, <2>1, AccordBefore
  <1>5. Still(y)
    <2>1. Continue(t) /\ [Next]_vars
      BY DEF Continue, Next
    <2>2. Arrives(t, task'[t])
      BY <2>1, EveryTaskMoves, GoesOn DEF TaskMoves
    <2> QED
      BY <1>1, <2>2 DEF Arrives, Beginnings, Disproved, Still
  <1>6. \A g \in Guarantors : vault'[g].balance = vault[g].balance
    <2>1. \A g \in Guarantors : LockedUp(vault[g], loan[m].locked).balance = vault[g].balance
      BY <1>4 DEF LockedUp, VaultAccount
    <2>2. UNCHANGED vault \/ vault' = [vault EXCEPT ![h] = LockedUp(vault[h], loan[m].locked)]
      BY DEF LockReturns
    <2>3. \A g \in Guarantors : vault'[g] = vault[g] \/ vault'[g] = LockedUp(vault[g], loan[m].locked)
      BY <2>2 DEF TypeInv, TypeOK
    <2> QED
      BY <2>1, <2>3
  <1>7. h \in Guarantors =>
          Expected(y, book', loan', m) = Expected(x, book, loan, m)
    <2>1. Expected(y, book', loan', m) = HeldBy(book', loan', m)
      BY <1>5, StillExpects
    <2>2. CASE LockHolds(t, m)
      <3>1. m \in book'
        BY <2>2 DEF LockReturns
      <3> QED
        BY <1>1, <1>2, <2>1, <2>2, <3>1 DEF LockHolds, Expected, HeldBy
    <2>3. CASE ~LockHolds(t, m)
      <3>1. UNCHANGED book
        BY <2>3 DEF LockReturns
      <3>2. h \in Guarantors => x.answer # "ok"
        BY <1>1, <1>4, <2>3 DEF LockHolds, RoomToLock
      <3> QED
        BY <1>1, <1>2, <2>1, <3>1, <3>2 DEF Expected, HeldBy
    <2> QED
      BY <2>2, <2>3
  <1>8. /\ \A g \in Guarantors : position'[g].balance = vault'[g].balance + Ahead(y, loan', g)
        /\ RoomToLock(y, loan', vault')
    <2>1. \A g \in Guarantors : vault[g].balance \in Int
      BY <1>4 DEF VaultAccount
    <2>2. \A g : Ahead(y, loan', g) = 0
      BY <1>5, StillExpects
    <2> QED
      BY <1>1, <1>4, <1>5, <1>6, <2>1, <2>2, StillExpects
  <1>9. \A l \in LoanIds \ {m} : loan'[l] = loan[l] /\ (l \in book' <=> l \in book)
    BY <1>1 DEF LockReturns
  <1>10. h \in Guarantors =>
          Agrees(position'[h].perLoan[m], Expected(y, book', loan', m), loan'[m])
    BY <1>1, <1>4, <1>7
  <1>11. loan'[m].status # "none" /\ loan'[m].guarantor = h /\ x.loan = m
    BY <1>1, <1>2
  <1> HIDE DEF m, h, x, y
  <1>12. Accord(y, book', loan', vault', position')
    BY <1>1, <1>2, <1>4, <1>5, <1>8, <1>9, <1>10, <1>11, OneLoanStep
  <1> QED
    BY <1>12 DEF y

\* A loan begins to be unwound: the gateway gives back what it holds for it.
LEMMA StartUnwindAccord ==
  ASSUME Refusing, RoomForCents, TypeInv, AccordInv, NEW t \in Tasks, HasTurn(t), Still(task[t]),
         NEW m \in book, StartUnwind(t, m), UNCHANGED <<vault, loan, book>>
  PROVE  Accord(task'[t], book', loan', vault', position')
  <1> DEFINE h == loan[m].guarantor
             held == HeldBy(book, loan, m)
             a == loan[m].locked
  <1>1. PICK o \in Outcomes :
          /\ position' = IF TookEffect(o) THEN [position EXCEPT ![h] = GwRelease(@, m, a)]
                                          ELSE position
          /\ task' = [task EXCEPT ![t] = [Idle EXCEPT !.at = "unwind", !.loan = m, !.answer = o]]
    BY DEF StartUnwind
  <1> DEFINE y == [Idle EXCEPT !.at = "unwind", !.loan = m, !.answer = o]
  <1>2. y.at = "unwind" /\ y.loan = m
    BY DEF Idle
  <1>3. task' = [task EXCEPT ![t] = y]
    BY <1>1
  <1> HIDE DEF y
  <1>4. task'[t] = y
    BY <1>3, TaskWritten
  <1>5. m \in LoanIds /\ loan[m].status # "none"
    BY DEF TypeInv, TypeOK
  <1>6. held \in Nat /\ a \in Nat /\ held <= a
    <2>1. loan[m] \in LoanRecord /\ loan[m].terms \in Terms /\ Split(loan[m])
      BY <1>5, HeldTyped DEF AccordInv
    <2> QED
      BY <2>1, SplitHeld DEF HeldBy
  <1>7. /\ Accord(task[t], book, loan, vault, position)
        /\ h \in Guarantors =>
             Agrees(position[h].perLoan[m], held, loan[m]) /\ position[h].perLoan[m] \in Int
        /\ \A g \in Guarantors : /\ position[g].balance = vault[g].balance
                                 /\ vault[g].balance \in Int /\ position[g] \in Position
    BY <1>5, AccordBefore, StillExpects
  <1>8. o = "ok" \/ (o = "refused" /\ ~Faultless)
    BY RefusedOnly
  <1>9. Expected(y, book', loan', m) = 0 /\ \A g : Ahead(y, loan', g) = 0
    BY <1>2 DEF Expected, Ahead
  <1> HIDE DEF held, a
  <1>10. ASSUME NEW g \in Guarantors
         PROVE  /\ position'[g].balance = position[g].balance
                /\ \A l \in LoanIds \ {m} : position'[g].perLoan[l] = position[g].perLoan[l]
                /\ position'[g].perLoan[m] =
                     IF o = "ok" /\ g = h
                     THEN IF position[g].perLoan[m] > a THEN position[g].perLoan[m] - a ELSE 0
                     ELSE position[g].perLoan[m]
    <2>1. position[g] \in Position
      BY <1>7
    <2>2. CASE o # "ok"
      BY <1>1, <1>8, <2>2 DEF TookEffect
    <2>3. CASE o = "ok"
      <3>1. position'[g] = IF g = h THEN GwRelease(position[g], m, a) ELSE position[g]
        BY <1>1, <2>3 DEF TypeInv, TypeOK, TookEffect
      <3> QED
        BY <1>5, <2>1, <2>3, <3>1, GatewayFields
    <2> QED
      BY <2>2, <2>3
  <1>11. h \in Guarantors =>
           Agrees(position'[h].perLoan[m], Expected(y, book', loan', m), loan'[m])
    <2> SUFFICES ASSUME h \in Guarantors PROVE Agrees(position'[h].perLoan[m], 0, loan[m])
      BY <1>9
    <2> DEFINE p == position[h].perLoan[m]
               q == position'[h].perLoan[m]
    <2>1. /\ p \in Int /\ p >= held
          /\ Faultless /\ loan[m].status # "defaulted" => p = held
      BY <1>7 DEF Agrees
    <2>2. q = IF o = "ok" THEN IF p > a THEN p - a ELSE 0 ELSE p
      BY <1>10
    <2> HIDE DEF p, q
    <2>3. q >= 0 /\ (Faultless /\ loan[m].status # "defaulted" => q = 0)
      BY <1>6, <1>8, <2>1, <2>2
    <2> QED
      BY <2>3 DEF Agrees, q
  <1>12. /\ \A g \in Guarantors : position'[g].balance = vault'[g].balance + Ahead(y, loan', g)
         /\ RoomToLock(y, loan', vault')
    BY <1>2, <1>7, <1>9, <1>10 DEF RoomToLock
  <1>13. loan'[m].status # "none" /\ loan'[m].guarantor = h
    BY <1>5
  <1> HIDE DEF h
  <1>14. Accord(y, book', loan', vault', position')
    BY <1>2, <1>5, <1>7, <1>10, <1>11, <1>12, <1>13, OneLoanStep
  <1> QED
    BY <1>4, <1>14

\* The gateway closes the loan; the vault and the store then follow.
LEMMA UnwindAccord ==
  ASSUME TypeInv, AccordInv, [Next]_vars, NEW t \in Tasks,
         UnwindReturns(t) \/ UnwindCloseReturns(t)
  PROVE  Accord(task'[t], book', loan', vault', position')
  <1> DEFINE m == task[t].loan
             h == loan[m].guarantor
             x == task[t]
             y == task'[t]
  <1>1. /\ HasTurn(t) /\ x.at \in {"unwind", "unwindClose"} /\ UNCHANGED <<position, loan>>
        /\ m \in LoanIds /\ loan[m].status # "none" /\ Resolved(t)
    <2>1. /\ HasTurn(t) /\ x.at \in {"unwind", "unwindClose"} /\ UNCHANGED <<position, loan>>
      BY DEF UnwindReturns, UnwindCloseReturns, Resumes
    <2> QED
      BY <2>1 DEF TypeInv, Fits, LoanAwaits, AccordInv, AnswersInv, Resolved
  <1>2. /\ Accord(x, book, loan, vault, position)
        /\ h \in Guarantors =>
             Agrees(position[h].perLoan[m], Expected(x, book, loan, m), loan[m])
        /\ \A g \in Guarantors : /\ position[g].balance = vault[g].balance
                                 /\ vault[g] \in VaultAccount /\ vault[g].balance \in Int
        /\ Expected(x, book, loan, m) = 0
    <2>1. /\ \A g : Ahead(x, loan, g) = 0
          /\ Expected(x, book, loan, m) = 0
      BY <1>1 DEF Ahead, Expected
    <2> QED
      BY <1>1, <2>1, AccordBefore
  <1>3. /\ Still(y) \/ (y.at = "unwindClose" /\ y.loan = m)
        /\ Expected(y, book', loan', m) = 0
        /\ \A g \in Guarantors : vault'[g].balance = vault[g].balance
        /\ \A l \in LoanIds \ {m} : l \in book' <=> l \in book
    <2>1. CASE UnwindReturns(t)
      <3>1. PICK o : task' = [task EXCEPT ![t].at = "unwindClose", ![t].answer = o]
        BY <1>1, <2>1 DEF UnwindReturns
      <3>2. y = [x EXCEPT !.at = "unwindClose", !.answer = o] /\ x \in TaskRecord
        BY <3>1 DEF TypeInv, TypeOK
      <3>3. y.at = "unwindClose" /\ y.loan = m
        BY <3>2 DEF TaskRecord
      <3>4. UNCHANGED <<vault, book>>
        BY <2>1 DEF UnwindReturns
      <3> QED
        BY <3>3, <3>4 DEF Expected
    <2>2. CASE UnwindCloseReturns(t)
      <3>1. Still(y)
        BY <2>2, GoesOnStill DEF UnwindCloseReturns
      <3>2. /\ book' = book \ {m}
            /\ vault' = [vault EXCEPT ![h] = Released(vault[h], loan[m].locked)]
        BY <1>1, <2>2 DEF UnwindCloseReturns
      <3>3. Expected(y, book', loan', m) = 0
        BY <3>1, <3>2, StillExpects DEF HeldBy
      <3>4. \A g \in Guarantors : Released(vault[g], loan[m].locked).balance = vault[g].balance
        BY <1>2 DEF Released, VaultAccount
      <3>5. \A g \in Guarantors :
              vault'[g] = vault[g] \/ vault'[g] = Released(vault[g], loan[m].locked)
        BY <3>2 DEF TypeInv, TypeOK
      <3> QED
        BY <3>1, <3>2, <3>3, <3>4, <3>5
    <2> QED
      BY <2>1, <2>2
  <1>4. /\ \A g \in Guarantors : position'[g].balance = vault'[g].balance + Ahead(y, loan', g)
        /\ RoomToLock(y, loan', vault')
    <2>1. (\A g : Ahead(y, loan', g) = 0) /\ RoomToLock(y, loan', vault')
      BY <1>3, StillExpects DEF Ahead, RoomToLock
    <2> QED
      BY <1>1, <1>2, <1>3, <2>1
  <1>5. h \in Guarantors =>
          Agrees(position'[h].perLoan[m], Expected(y, book', loan', m), loan'[m])
    BY <1>1, <1>2, <1>3
  <1>6. loan'[m].status # "none" /\ loan'[m].guarantor = h /\ x.loan = m
    BY <1>1
  <1> HIDE DEF m, h, x, y
  <1>7. Accord(y, book', loan', vault', position')
    BY <1>1, <1>2, <1>3, <1>4, <1>5, <1>6, OneLoanStep
  <1> QED
    BY <1>7 DEF y

\* The gateway is asked to release what a repayment frees.
LEMMA RepayAccord ==
  ASSUME Refusing, RoomForCents, TypeInv, AccordInv, NEW t \in Tasks, RepayReturns(t),
         Resolved(t), task[t].amount > 0
  PROVE  Accord(task'[t], book', loan', vault', position')
  <1> DEFINE m == task[t].loan
             h == loan[m].guarantor
             held == HeldBy(book, loan, m)
             a == task[t].amount
  <1>1. /\ HasTurn(t) /\ task[t].at = "repay" /\ UNCHANGED <<vault, loan, book>>
    BY DEF RepayReturns, Resumes, Resolved, Threw
  <1>2. PICK o \in Outcomes :
          /\ position' = IF TookEffect(o) THEN [position EXCEPT ![h] = GwRelease(@, m, a)]
                                          ELSE position
          /\ task' = [task EXCEPT ![t].at = "release", ![t].answer = o]
    BY DEF RepayReturns, Resolved, Threw
  <1> DEFINE y == [task[t] EXCEPT !.at = "release", !.answer = o]
  <1>3. y.at = "release" /\ y.loan = m /\ y.answer = o /\ y.amount = a /\ y = task'[t]
    BY <1>2 DEF TypeInv, TypeOK, TaskRecord
  <1> HIDE DEF y
  <1>4. /\ m \in LoanIds /\ loan[m].status # "none" /\ a \in Nat /\ held \in Nat /\ a <= held
    <2>1. /\ m \in book /\ loan[m].status # "none" /\ a \in Nat
          /\ a <= OutstandingCollateral(loan[m]) /\ OutstandingCollateral(loan[m]) \in Nat
      BY <1>1, ReleaseAmount DEF AccordInv
    <2> QED
      BY <2>1 DEF HeldBy, TypeInv, TypeOK
  <1>5. Still(task[t])
    BY <1>1 DEF Still
  <1>6. /\ Accord(task[t], book, loan, vault, position)
        /\ h \in Guarantors =>
             Agrees(position[h].perLoan[m], held, loan[m]) /\ position[h].perLoan[m] \in Int
        /\ \A g \in Guarantors : /\ position[g].balance = vault[g].balance
                                 /\ vault[g].balance \in Int /\ position[g] \in Position
    BY <1>1, <1>4, <1>5, AccordBefore, StillExpects
  <1>7. o = "ok" \/ o = "refused"
    BY RefusedOnly
  <1>8. /\ Expected(y, book', loan', m) = IF o = "ok" THEN held - a ELSE held
        /\ \A g : Ahead(y, loan', g) = 0
    <2>1. UNCHANGED <<loan, book>>
      BY <1>1
    <2> QED
      BY <1>3, <2>1 DEF Expected, Ahead
  <1> HIDE DEF held, a
  <1>9. ASSUME NEW g \in Guarantors
        PROVE  /\ position'[g].balance = position[g].balance
               /\ \A l \in LoanIds \ {m} : position'[g].perLoan[l] = position[g].perLoan[l]
               /\ position'[g].perLoan[m] =
                    IF o = "ok" /\ g = h
                    THEN IF position[g].perLoan[m] > a THEN position[g].perLoan[m] - a ELSE 0
                    ELSE position[g].perLoan[m]
    <2>1. position[g] \in Position
      BY <1>6
    <2>2. CASE o # "ok"
      BY <1>2, <1>7, <2>2 DEF TookEffect
    <2>3. CASE o = "ok"
      <3>1. position'[g] = IF g = h THEN GwRelease(position[g], m, a) ELSE position[g]
        BY <1>2, <2>3 DEF TypeInv, TypeOK, TookEffect
      <3> QED
        BY <1>4, <2>1, <2>3, <3>1, GatewayFields
    <2> QED
      BY <2>2, <2>3
  <1>10. h \in Guarantors =>
           Agrees(position'[h].perLoan[m], Expected(y, book', loan', m), loan'[m])
    <2> SUFFICES ASSUME h \in Guarantors
                 PROVE  Agrees(position'[h].perLoan[m], IF o = "ok" THEN held - a ELSE held, loan[m])
      BY <1>1, <1>8
    <2> DEFINE p == position[h].perLoan[m]
               q == position'[h].perLoan[m]
               e == IF o = "ok" THEN held - a ELSE held
    <2>1. /\ p \in Int /\ p >= held
          /\ Faultless /\ loan[m].status # "defaulted" => p = held
      BY <1>6 DEF Agrees
    <2>2. q = IF o = "ok" THEN IF p > a THEN p - a ELSE 0 ELSE p
      BY <1>9
    <2> HIDE DEF p, q
    <2>3. q >= e /\ (Faultless /\ loan[m].status # "defaulted" => q = e)
      BY <1>4, <1>7, <2>1, <2>2
    <2> QED
      BY <2>3 DEF Agrees, q
  <1>11. /\ \A g \in Guarantors : position'[g].balance = vault'[g].balance + Ahead(y, loan', g)
         /\ RoomToLock(y, loan', vault')
    BY <1>1, <1>3, <1>6, <1>8, <1>9 DEF RoomToLock
  <1>12. loan'[m].status # "none" /\ loan'[m].guarantor = h
    BY <1>1, <1>4
  <1>13. \A l \in LoanIds \ {m} : loan'[l] = loan[l] /\ (l \in book' <=> l \in book)
    BY <1>1
  <1>14. \A g \in Guarantors, l \in LoanIds \ {m} :
            position'[g].perLoan[l] = position[g].perLoan[l]
    BY <1>9
  <1> HIDE DEF h, m
  <1>15. Accord(y, book', loan', vault', position')
    BY <1>3, <1>4, <1>5, <1>6, <1>10, <1>11, <1>12, <1>13, <1>14, OneLoanStep
  <1> QED
    BY <1>3, <1>15

\* What a step keeps of a loan that has begun.
LEMMA StaysBegun ==
  ASSUME TypeInv, BooksInv, [Next]_vars, NEW m \in LoanIds, loan[m].status # "none"
  PROVE  /\ loan'[m].status # "none" /\ loan'[m].guarantor = loan[m].guarantor
         /\ loan[m].status = "defaulted" => loan'[m].status = "defaulted"
  BY BegunStays, ContractKept, ClosedStays DEF BooksInv, ShippedInv, SameContract

\* It has answered, and the vault and the loan follow suit if it did release.
LEMMA ReleaseAccord ==
  ASSUME RoomForCents, TypeInv, AccordInv, [Next]_vars, NEW t \in Tasks, ReleaseReturns(t)
  PROVE  Accord(task'[t], book', loan', vault', position')
  <1> DEFINE m == task[t].loan
             h == loan[m].guarantor
             x == task[t]
             y == task'[t]
  <1>1. /\ HasTurn(t) /\ x.at = "release" /\ UNCHANGED position
        /\ m \in LoanIds /\ loan[m].status # "none" /\ m \in book
    <2>1. HasTurn(t) /\ x.at = "release" /\ UNCHANGED position
      BY DEF ReleaseReturns, Resumes
    <2> QED
      BY <2>1, ReleaseAmount DEF TypeInv, Fits, LoanAwaits, AccordInv
  <1>2. /\ Accord(x, book, loan, vault, position)
        /\ h \in Guarantors =>
             Agrees(position[h].perLoan[m], Expected(x, book, loan, m), loan[m])
        /\ \A g \in Guarantors : /\ position[g].balance = vault[g].balance
                                 /\ vault[g] \in VaultAccount /\ vault[g].balance \in Int
    <2>1. \A g : Ahead(x, loan, g) = 0
      BY <1>1 DEF Ahead
    <2> QED
      BY <1>1, <2>1, AccordBefore
  <1>3. Still(y)
    BY GoesOnStill DEF ReleaseReturns
  <1>4. /\ Expected(y, book', loan', m) = Expected(x, book, loan, m)
        /\ \A l \in LoanIds \ {m} : loan'[l] = loan[l] /\ (l \in book' <=> l \in book)
        /\ \A g \in Guarantors : vault'[g].balance = vault[g].balance
    <2>1. Expected(y, book', loan', m) = HeldBy(book', loan', m)
      BY <1>3, StillExpects
    <2>2. CASE x.answer = "ok"
      <3>1. /\ HeldBy(book', loan', m) = HeldBy(book, loan, m) - x.amount
            /\ \A l \in LoanIds \ {m} : loan'[l] = loan[l]
        BY <2>2, ReleaseHeld DEF AccordInv
      <3>2. /\ vault' = [vault EXCEPT ![h] = Released(vault[h], x.amount)]
            /\ book' = book \cup {m}
        BY <2>2 DEF ReleaseReturns, SettleInstallment
      <3>3. \A g \in Guarantors : Released(vault[g], x.amount).balance = vault[g].balance
        BY <1>2 DEF Released, VaultAccount
      <3>4. \A g \in Guarantors : vault'[g] = vault[g] \/ vault'[g] = Released(vault[g], x.amount)
        BY <3>2 DEF TypeInv, TypeOK
      <3>5. Expected(x, book, loan, m) = HeldBy(book, loan, m) - x.amount
        BY <1>1, <2>2 DEF Expected
      <3> QED
        BY <2>1, <3>1, <3>2, <3>3, <3>4, <3>5
    <2>3. CASE x.answer # "ok"
      <3>1. UNCHANGED <<vault, loan, book>>
        BY <2>3 DEF ReleaseReturns
      <3>2. Expected(x, book, loan, m) = HeldBy(book, loan, m)
        BY <1>1, <2>3 DEF Expected
      <3> QED
        BY <2>1, <3>1, <3>2
    <2> QED
      BY <2>2, <2>3
  <1>5. /\ \A g \in Guarantors : position'[g].balance = vault'[g].balance + Ahead(y, loan', g)
        /\ RoomToLock(y, loan', vault')
    <2>1. (\A g : Ahead(y, loan', g) = 0) /\ RoomToLock(y, loan', vault')
      BY <1>3, StillExpects
    <2> QED
      BY <1>1, <1>2, <1>4, <2>1
  <1>6. /\ loan'[m].status # "none" /\ loan'[m].guarantor = h /\ x.loan = m
        /\ loan[m].status = "defaulted" => loan'[m].status = "defaulted"
    BY <1>1, StaysBegun DEF AccordInv
  <1>7. h \in Guarantors =>
          Agrees(position'[h].perLoan[m], Expected(y, book', loan', m), loan'[m])
    BY <1>1, <1>2, <1>4, <1>6 DEF Agrees
  <1> HIDE DEF m, h, x, y
  <1>8. Accord(y, book', loan', vault', position')
    BY <1>1, <1>2, <1>3, <1>4, <1>5, <1>6, <1>7, OneLoanStep
  <1> QED
    BY <1>8 DEF y

\* A defaulted loan's collateral is divided, once the gateway has taken its
\* part or when there was nothing for it to take.
LEMMA DefaultAccord ==
  ASSUME RoomForCents, TypeInv, AccordInv, [Next]_vars, NEW t \in Tasks, NEW m \in book,
         task[t].loan = m \/ Still(task[t]), HasTurn(t), UNCHANGED position,
         NEW ln \in LoanRecord, Begun(ln), SameContract(ln, loan[m]),
         ln.released = loan[m].released, ln.forfeited = loan[m].forfeited,
         NEW f \in Nat, NEW r \in Nat, f + r = OutstandingCollateral(loan[m]),
         NEW left, SettleDefault(t, m, ln, f, r, left),
         Expected(task[t], book, loan, m) \in Nat,
         \A g : Ahead(task[t], loan, g) = IF g = loan[m].guarantor THEN - f ELSE 0
  PROVE  Accord(task'[t], book', loan', vault', position')
  <1> DEFINE h == loan[m].guarantor
             x == task[t]
             y == task'[t]
  <1>1. /\ h \in Guarantors => vault'[h].balance = vault[h].balance - f
        /\ HeldBy(book', loan', m) = 0 /\ loan'[m].status = "defaulted"
        /\ \A l \in LoanIds \ {m} : loan'[l] = loan[l]
        /\ \A g \in Guarantors \ {h} : vault'[g] = vault[g]
    BY DefaultHeld DEF AccordInv
  <1>2. m \in LoanIds /\ loan[m].status # "none"
    BY DEF TypeInv, TypeOK
  <1>3. book' = book \cup {m}
    BY DEF SettleDefault
  <1>4. Still(y)
    BY GoesOnToLiquidateClose DEF Still
  <1>5. /\ Accord(x, book, loan, vault, position)
        /\ h \in Guarantors =>
             /\ Agrees(position[h].perLoan[m], Expected(x, book, loan, m), loan[m])
             /\ position[h].perLoan[m] \in Int
        /\ \A g \in Guarantors :
             /\ position[g].balance = vault[g].balance + Ahead(x, loan, g)
             /\ vault[g].balance \in Int
    BY <1>2, AccordBefore
  <1>6. Expected(y, book', loan', m) = 0
    <2> HIDE DEF h, x, y
    <2>1. Expected(y, book', loan', m) = HeldBy(book', loan', m)
      BY <1>4, StillExpects
    <2> QED
      BY <1>1, <2>1
  <1>7. h \in Guarantors =>
          Agrees(position'[h].perLoan[m], Expected(y, book', loan', m), loan'[m])
    <2>1. h \in Guarantors => position[h].perLoan[m] >= 0
      <3> DEFINE e == Expected(x, book, loan, m)
                 p == position[h].perLoan[m]
      <3>1. h \in Guarantors => p >= e /\ p \in Int
        BY <1>5 DEF Agrees
      <3>2. e \in Nat
        OBVIOUS
      <3> HIDE DEF e, p
      <3> QED
        BY <3>1, <3>2 DEF p
    <2> QED
      BY <1>1, <1>6, <2>1 DEF Agrees
  <1>8. \A g \in Guarantors : position'[g].balance = vault'[g].balance + Ahead(y, loan', g)
    <2> SUFFICES ASSUME NEW g \in Guarantors
                 PROVE  position'[g].balance = vault'[g].balance + Ahead(y, loan', g)
      OBVIOUS
    <2>1. Ahead(y, loan', g) = 0
      BY <1>4, StillExpects
    <2>2. CASE g = h
      BY <1>1, <1>5, <2>1, <2>2
    <2>3. CASE g # h
      BY <1>1, <1>5, <2>1, <2>3
    <2> QED
      BY <2>2, <2>3
  <1>9. RoomToLock(y, loan', vault')
    BY <1>4, StillExpects
  <1>10. /\ loan'[m].status # "none" /\ loan'[m].guarantor = h
         /\ \A l \in LoanIds \ {m} : loan'[l] = loan[l] /\ (l \in book' <=> l \in book)
         /\ \A g \in Guarantors, l \in LoanIds \ {m} :
              position'[g].perLoan[l] = position[g].perLoan[l]
    BY <1>1, <1>2, <1>3, StaysBegun DEF AccordInv
  <1>11. x.loan = m \/ Still(x)
    OBVIOUS
  <1> HIDE DEF h, x, y
  <1>12. Accord(y, book', loan', vault', position')
    BY <1>2, <1>4, <1>5, <1>7, <1>8, <1>9, <1>10, <1>11, OneLoanStep
  <1> QED
    BY <1>12 DEF y

LEMMA LiquidateAccord ==
  ASSUME RoomForCents, OneAtATime, TypeInv, AccordInv, [Next]_vars, NEW t \in Tasks, LiquidateReturns(t)
  PROVE  Accord(task'[t], book', loan', vault', position')
  <1> DEFINE m == task[t].loan
             f == task[t].amount
             r == task[t].excess
             left == task[t].todo
  <1>1. HasTurn(t) /\ task[t].at = "liquidate" /\ UNCHANGED position
    BY DEF LiquidateReturns, Resumes
  <1>2. /\ m \in book /\ loan[m] \in LoanRecord /\ Begun(loan[m])
        /\ f \in Nat /\ r \in Nat /\ f + r = OutstandingCollateral(loan[m])
    BY <1>1, LiquidateAmounts DEF AccordInv
  <1>3. CASE task[t].answer = "ok"
    <2>1. SettleDefault(t, m, loan[m], f, r, left) /\ SameContract(loan[m], loan[m])
      BY <1>3 DEF LiquidateReturns, SameContract
    <2>2. Expected(task[t], book, loan, m) = OutstandingCollateral(loan[m]) - f
      BY <1>1, <1>2, <1>3 DEF Expected, HeldBy
    <2>3. \A g : Ahead(task[t], loan, g) = IF g = loan[m].guarantor THEN - f ELSE 0
      BY <1>1, <1>3 DEF Ahead
    <2>4. task[t].loan = m
      OBVIOUS
    <2> HIDE DEF m, f, r, left
    <2>5. Expected(task[t], book, loan, m) \in Nat
      BY <1>2, <2>2
    <2> QED
      BY <1>1, <1>2, <2>1, <2>3, <2>4, <2>5, DefaultAccord
  <1>4. CASE task[t].answer # "ok"
    <2>1. UNCHANGED <<vault, loan, book>> /\ Still(task'[t])
      BY <1>4, GoesOnStill DEF LiquidateReturns
    <2>2. /\ \A l : Expected(task[t], book, loan, l) = HeldBy(book, loan, l)
          /\ \A g : Ahead(task[t], loan, g) = 0
          /\ \A lns, vlt : RoomToLock(task[t], lns, vlt)
      BY <1>1, <1>4 DEF Expected, Ahead, RoomToLock
    <2>3. Accord(task[t], book, loan, vault, position)
      BY <1>1, AccordBefore
    <2>4. /\ \A l \in LoanIds : AgreesOn(task'[t], book, loan, position, l)
          /\ \A g \in Guarantors : position[g].balance = vault[g].balance + Ahead(task'[t], loan, g)
          /\ RoomToLock(task'[t], loan, vault)
      BY <2>1, <2>2, <2>3, StillExpects DEF Accord, AgreesOn
    <2>5. Accord(task'[t], book, loan, vault, position)
      BY <2>4 DEF Accord
    <2> QED
      BY <1>1, <2>1, <2>5
  <1> QED
    BY <1>3, <1>4

\* The sweep has the gateway take what is owed of an expired loan, or divides
\* its collateral at once.
LEMMA ExpiredAccord ==
  ASSUME Refusing, RoomForCents, OneAtATime, TypeInv, AccordInv, [Next]_vars, NEW t \in Tasks,
         NEW m \in LoanIds, EvaluateExpired(t, m)
  PROVE  Accord(task'[t], book', loan', vault', position')
  <1> DEFINE y == loan[m]
             ln == Marked(t, m)
             h == y.guarantor
             held == OutstandingCollateral(ln)
             f == Forfeit(OutstandingPrincipal(ln), held)
             left == task[t].todo \ {m}
  <1>1. HasTurn(t) /\ task[t].at = "next" /\ m \in task[t].todo /\ Still(task[t])
    BY DEF EvaluateExpired, Evaluates, Resumes, Still
  <1>2. m \in book /\ y.status # "none"
    BY <1>1 DEF AccordInv, BooksInv, ShippedInv, TurnInv, InHand, Sweeping, TypeInv
  <1>3. /\ ln \in LoanRecord /\ Begun(ln) /\ SameContract(ln, y) /\ ln.status = y.status
        /\ ln.released = y.released /\ ln.forfeited = y.forfeited
        /\ held = OutstandingCollateral(y) /\ held = HeldBy(book, loan, m)
        /\ OutstandingPrincipal(ln) \in Int
    BY <1>2, MarkedSame DEF HeldBy
  <1>4. held \in Nat
    BY <1>3, HeldTyped DEF AccordInv
  <1>5. f \in Int /\ f <= held
    <2> HIDE DEF held, ln
    <2> QED
      BY <1>3, <1>4 DEF Forfeit, Least
  <1>6. ln.guarantor = h
    BY <1>3 DEF SameContract
  <1>7. /\ Accord(task[t], book, loan, vault, position)
        /\ h \in Guarantors =>
             Agrees(position[h].perLoan[m], held, y) /\ position[h].perLoan[m] \in Int
        /\ \A g \in Guarantors : /\ position[g].balance = vault[g].balance
                                 /\ vault[g].balance \in Int /\ position[g] \in Position
        /\ \A g : Ahead(task[t], loan, g) = 0
        /\ Expected(task[t], book, loan, m) = held
    BY <1>1, <1>2, <1>3, AccordBefore, StillExpects
  <1>8. CASE f = 0 /\ SettleDefault(t, m, ln, 0, held, left) /\ UNCHANGED position
    <2>1. 0 \in Nat /\ 0 + held = OutstandingCollateral(loan[m])
      BY <1>3, <1>4
    <2>2. \A g : Ahead(task[t], loan, g) = IF g = loan[m].guarantor THEN - 0 ELSE 0
      BY <1>7
    <2>3. SettleDefault(t, m, ln, 0, held, left) /\ UNCHANGED position
      BY <1>8
    <2>4. /\ ln \in LoanRecord /\ Begun(ln) /\ SameContract(ln, loan[m])
          /\ ln.released = loan[m].released /\ ln.forfeited = loan[m].forfeited
      BY <1>3
    <2> HIDE DEF y, ln, held, left, f, h
    <2> QED
      BY <1>1, <1>2, <1>4, <1>7, <2>1, <2>2, <2>3, <2>4, DefaultAccord
  <1>9. CASE /\ f > 0 /\ loan' = [loan EXCEPT ![m] = ln] /\ UNCHANGED <<vault, book>>
             /\ ~(f = 0)
    <2>1. PICK o \in Outcomes :
            /\ position' = IF TookEffect(o)
                           THEN [position EXCEPT ![h] = GwLiquidate(@, m, f)] ELSE position
            /\ task' = [task EXCEPT ![t] = [Idle EXCEPT !.at = "liquidate", !.answer = o,
                 !.loan = m, !.amount = f, !.excess = held - f, !.todo = left,
                 !.asOf = task[t].asOf]]
      BY <1>6, <1>9 DEF EvaluateExpired
    <2> DEFINE z == [Idle EXCEPT !.at = "liquidate", !.answer = o, !.loan = m, !.amount = f,
                                 !.excess = held - f, !.todo = left, !.asOf = task[t].asOf]
    <2>2. z.at = "liquidate" /\ z.answer = o /\ z.loan = m /\ z.amount = f
      BY DEF Idle
    <2>3. task' = [task EXCEPT ![t] = z]
      BY <2>1
    <2> HIDE DEF z
    <2>4. task'[t] = z
      BY <2>3, TaskWritten
    <2>5. loan'[m] = ln /\ \A l \in LoanIds \ {m} : loan'[l] = loan[l]
      BY <1>9, OneLoanWritten
    <2>6. o = "ok" \/ o = "refused"
      BY RefusedOnly
    <2>7. /\ Expected(z, book', loan', m) = IF o = "ok" THEN held - f ELSE held
          /\ \A g : Ahead(z, loan', g) = IF o = "ok" /\ g = h THEN - f ELSE 0
      <3>1. HeldBy(book', loan', m) = held
        BY <1>2, <1>9, <2>5 DEF HeldBy
      <3>2. loan'[z.loan].guarantor = h
        BY <1>6, <2>2, <2>5
      <3> HIDE DEF held, f, h
      <3> QED
        BY <2>2, <2>6, <3>1, <3>2 DEF Expected, Ahead
    <2>8. ASSUME h \in Guarantors PROVE f <= vault[h].balance
      <3>1. /\ vault[h] \in VaultAccount /\ Solvent(vault[h]) /\ vault[h].locked \in Int
        BY <2>8, VaultLockedNat DEF AccordInv
      <3>2. held <= vault[h].locked
        BY <1>3, <2>8 DEF AccordInv, HeldWithin
      <3>3. vault[h].locked <= vault[h].balance /\ vault[h].balance \in Int
        BY <3>1 DEF Solvent, VaultAccount
      <3> HIDE DEF held, f, h
      <3> QED
        BY <1>4, <1>5, <3>1, <3>2, <3>3
    <2> HIDE DEF held, f, ln
    <2>9. ASSUME NEW g \in Guarantors
          PROVE  /\ position'[g].balance = vault'[g].balance + Ahead(z, loan', g)
                 /\ \A l \in LoanIds \ {m} : position'[g].perLoan[l] = position[g].perLoan[l]
                 /\ position'[g].perLoan[m] =
                      IF o = "ok" /\ g = h
                      THEN IF position[g].perLoan[m] > f THEN position[g].perLoan[m] - f ELSE 0
                      ELSE position[g].perLoan[m]
      <3>1. /\ position[g] \in Position /\ position[g].balance = vault[g].balance
            /\ vault[g].balance \in Int /\ vault' = vault
        BY <1>7, <1>9
      <3>2. CASE o # "ok" \/ g # h
        <4>1. position'[g] = position[g]
          BY <2>1, <2>6, <3>2 DEF TookEffect, TypeInv, TypeOK
        <4>2. Ahead(z, loan', g) = 0
          BY <2>7, <3>2
        <4> QED
          BY <3>1, <3>2, <4>1, <4>2
      <3>3. CASE o = "ok" /\ g = h
        <4>1. position'[g] = GwLiquidate(position[g], m, f)
          BY <2>1, <3>3 DEF TypeInv, TypeOK, TookEffect
        <4>2. Ahead(z, loan', g) = - f
          BY <2>7, <3>3
        <4>3. f <= vault[g].balance
          BY <2>8, <3>3
        <4>4. position'[g].balance = vault[g].balance - f
          <5>1. position'[g].balance = IF position[g].balance > f THEN position[g].balance - f ELSE 0
            BY <3>1, <4>1, GatewayFields
          <5> QED
            BY <1>5, <3>1, <4>3, <5>1
        <4>5. /\ \A l \in LoanIds \ {m} : position'[g].perLoan[l] = position[g].perLoan[l]
              /\ position'[g].perLoan[m] =
                   IF position[g].perLoan[m] > f THEN position[g].perLoan[m] - f ELSE 0
          BY <3>1, <4>1, GatewayFields
        <4> QED
          BY <1>5, <3>1, <3>3, <4>2, <4>4, <4>5
      <3> QED
        BY <3>2, <3>3
    <2>10. h \in Guarantors =>
             Agrees(position'[h].perLoan[m], Expected(z, book', loan', m), loan'[m])
      <3> SUFFICES ASSUME h \in Guarantors
                   PROVE  Agrees(position'[h].perLoan[m], IF o = "ok" THEN held - f ELSE held, ln)
        BY <2>5, <2>7
      <3> DEFINE p == position[h].perLoan[m]
                 q == position'[h].perLoan[m]
                 e == IF o = "ok" THEN held - f ELSE held
      <3>1. /\ p \in Int /\ p >= held
            /\ Faultless /\ ln.status # "defaulted" => p = held
        BY <1>3, <1>7 DEF Agrees
      <3>2. q = IF o = "ok" THEN IF p > f THEN p - f ELSE 0 ELSE p
        BY <2>9
      <3> HIDE DEF p, q
      <3>3. q >= e /\ (Faultless /\ ln.status # "defaulted" => q = e)
        BY <1>4, <1>5, <1>9, <2>6, <3>1, <3>2
      <3> QED
        BY <3>3 DEF Agrees, q
    <2>11. RoomToLock(z, loan', vault')
      BY <2>2 DEF RoomToLock
    <2>12. /\ loan'[m].status # "none" /\ loan'[m].guarantor = h
           /\ \A l \in LoanIds \ {m} : loan'[l] = loan[l] /\ (l \in book' <=> l \in book)
      BY <1>2, <1>3, <1>6, <1>9, <2>5
    <2>13. \A g \in Guarantors, l \in LoanIds \ {m} :
             position'[g].perLoan[l] = position[g].perLoan[l]
      BY <2>9
    <2>14. \A g \in Guarantors : position'[g].balance = vault'[g].balance + Ahead(z, loan', g)
      BY <2>9
    <2> HIDE DEF h
    <2>15. Accord(z, book', loan', vault', position')
      BY <1>1, <1>7, <2>2, <2>10, <2>11, <2>12, <2>13, <2>14, OneLoanStep
    <2> QED
      BY <2>4, <2>15
  <1>10. \/ /\ f > 0 /\ loan' = [loan EXCEPT ![m] = ln] /\ UNCHANGED <<vault, book>>
         \/ f = 0 /\ SettleDefault(t, m, ln, 0, held, left) /\ UNCHANGED position
    BY DEF EvaluateExpired
  <1> HIDE DEF f, ln, held, left
  <1>11. f > 0 => ~(f = 0)
    BY <1>5
  <1> QED
    BY <1>8, <1>9, <1>10, <1>11

-----------------------------------------------------------------------------
(* So the two accounts agree whenever nobody is half-way through a change  *)

LEMMA RequestAccord ==
  ASSUME Refusing, RoomForCents, OneAtATime, FromTheListing, TypeInv, AccordInv, [Next]_vars,
         NEW t \in Tasks, Request(t) \/ Sweep(t)
  PROVE  Accord(task'[t], book', loan', vault', position')
  <1>1. ASSUME NEW l \in LoanIds, Reconcile(t, l), payout[l] # "paid"
        PROVE  Accord(task'[t], book', loan', vault', position')
    <2>1. l \in book
      BY <1>1, LoanBookAssumption
      DEF Reconcile, Reconcilable, UnknownDisbursements, FromTheListing
    <2>2. /\ HasTurn(t) /\ Still(task[t]) /\ StartUnwind(t, l)
          /\ UNCHANGED <<vault, loan, book>>
      BY <1>1 DEF Reconcile, Resolve, Starts, Still
    <2> QED
      BY <2>1, <2>2, StartUnwindAccord
  <1> QED
    BY <1>1, DepositAccord, QuietRequestAccord DEF Request

LEMMA ContinueAccord ==
  ASSUME Refusing, RoomForCents, OneAtATime, TypeInv, AccordInv, [Next]_vars,
         NEW t \in Tasks, Continue(t)
  PROVE  Accord(task'[t], book', loan', vault', position')
  <1>1. task[t].at \in Stored => task[t].loan \in book
    BY DEF AccordInv, BooksInv, ShippedInv, TurnInv, InHand
  <1>2. CASE QuoteReturns(t)
    <2>1. CASE Ends(t) /\ UNCHANGED <<position, loan>>
      BY <1>2, <2>1, QuietReturnAccord
    <2>2. CASE ~(Ends(t) /\ UNCHANGED <<position, loan>>)
      <3>1. /\ loan' = [loan EXCEPT ![task[t].loan] =
                          NewLoan(task[t].guarantor, task[t].beneficiary, task[t].terms)]
            /\ Available(vault[task[t].guarantor])
                 >= NewLoan(task[t].guarantor, task[t].beneficiary, task[t].terms).locked
        BY <1>2, <2>2 DEF QuoteReturns
      <3> QED
        BY <1>2, <2>2, <3>1, QuoteAccord
    <2> QED
      BY <2>1, <2>2
  <1>3. CASE DisburseRejects(t)
    <2>1. /\ HasTurn(t) /\ task[t].at = "disburse" /\ StartUnwind(t, task[t].loan)
          /\ UNCHANGED <<vault, loan, book>>
      BY <1>3 DEF DisburseRejects, Resumes
    <2> QED
      BY <1>1, <2>1, StartUnwindAccord DEF Still, Stored
  <1>4. CASE StatusReturns(t)
    <2>1. CASE payout[task[t].loan] = "paid"
      BY <1>4, <2>1, QuietReturnAccord
    <2>2. CASE payout[task[t].loan] # "paid"
      <3>1. /\ HasTurn(t) /\ task[t].at = "status" /\ StartUnwind(t, task[t].loan)
            /\ UNCHANGED <<vault, loan, book>>
        BY <1>4, <2>2 DEF StatusReturns, Resolve, Resumes
      <3> QED
        BY <1>1, <3>1, StartUnwindAccord DEF Still, Stored
    <2> QED
      BY <2>1, <2>2
  <1>5. CASE RepayReturns(t)
    <2>1. CASE task[t].amount = 0 \/ Threw(t)
      BY <1>5, <2>1, QuietReturnAccord
    <2>2. CASE ~(task[t].amount = 0 \/ Threw(t))
      <3>1. Resolved(t) /\ task[t].amount > 0
        BY <1>5, <2>2 DEF RepayReturns
      <3> QED
        BY <1>5, <3>1, RepayAccord
    <2> QED
      BY <2>1, <2>2
  <1>6. CASE LockReturns(t) \/ UnwindReturns(t) \/ UnwindCloseReturns(t) \/ ReleaseReturns(t)
             \/ LiquidateReturns(t)
    BY <1>6, LockAccord, UnwindAccord, ReleaseAccord, LiquidateAccord
  <1>7. CASE DepositReturns(t) \/ WithdrawReturns(t)
    BY <1>7, DepositReturnsAccord
  <1>8. CASE \/ RecordReturns(t) \/ DisburseReturns(t) \/ DisburseTimesOut(t)
             \/ VerifyReturns(t) \/ CloseReturns(t) \/ LiquidateCloseReturns(t)
    BY <1>8, QuietReturnAccord
  <1>9. ASSUME NEW l \in LoanIds, \/ EvaluateClosed(t, l) \/ EvaluateMissed(t, l)
                                  \/ EvaluateOther(t, l) \/ EvaluateExpired(t, l)
        PROVE  Accord(task'[t], book', loan', vault', position')
    BY <1>9, QuietReturnAccord, ExpiredAccord
  <1> QED
    BY <1>2, <1>3, <1>4, <1>5, <1>6, <1>7, <1>8, <1>9 DEF Continue

LEMMA PositionKept ==
  ASSUME AsShipped, RoomForCents, Refusing, TypeInv, AccordInv, [Next]_vars PROVE PositionInv'
  <1>1. OneAtATime /\ FromTheListing
    BY DEF AsShipped, FromTheListing
  <1>2. ASSUME NEW t \in Tasks, Request(t) \/ Sweep(t) \/ Continue(t) PROVE PositionInv'
    <2>1. HasTurn(t)
      <3>1. CASE Request(t) \/ Sweep(t)
        BY <3>1 DEF Request, Deposit, Withdraw, Originate, Attest, Reconcile, PollStatus,
           Sweep, Starts
      <3>2. CASE Continue(t)
        BY <3>2 DEF Continue, DepositReturns, WithdrawReturns, QuoteReturns, LockReturns,
           RecordReturns, DisburseReturns, DisburseTimesOut, DisburseRejects, UnwindReturns,
           UnwindCloseReturns, VerifyReturns, RepayReturns, ReleaseReturns, CloseReturns,
           LiquidateReturns, LiquidateCloseReturns, StatusReturns, EvaluateClosed,
           EvaluateMissed, EvaluateOther, EvaluateExpired, Evaluates, Resumes
      <3> QED
        BY <1>2, <3>1, <3>2
    <2>2. Accord(task'[t], book', loan', vault', position')
      BY <1>1, <1>2, RequestAccord, ContinueAccord
    <2>3. \A u \in Tasks \ {t} : task'[u] = task[u]
      BY <1>2, OneTaskSteps
    <2> QED
      BY <1>1, <2>1, <2>2, <2>3, TurnPasses
  <1>3. CASE UNCHANGED <<vault, position, loan, book, task>>
    BY <1>3 DEF AccordInv, PositionInv, HasTurn, Parked
  <1> QED
    BY <1>2, <1>3 DEF Next, vars, PartnerDecides, DayPasses, Tasks

LEMMA PositionStart == ASSUME Init PROVE PositionInv
  <1> SUFFICES ASSUME NEW t \in Tasks PROVE Accord(task[t], book, loan, vault, position)
    BY DEF PositionInv
  <1>1. Still(task[t])
    BY DEF Init, Idle, Still
  <1>2. \A l \in LoanIds : loan[l].status = "none"
    BY DEF Init, NoLoan
  <1>3. \A g \in Guarantors : /\ \A l \in LoanIds : position[g].perLoan[l] = 0
                              /\ position[g].balance = 0 /\ vault[g].balance = 0
    BY DEF Init, EmptyPosition, EmptyVault
  <1> QED
    BY <1>1, <1>2, <1>3, StillExpects DEF Accord, AgreesOn

LEMMA AlwaysAccord ==
  ASSUME AsShipped, RoomForCents, Refusing PROVE Spec => [](TypeInv /\ BooksInv /\ PositionInv)
  <1>1. TypeInv /\ BooksInv /\ SumInv => HeldWithin
    BY SumWithin
  <1>2. TypeInv /\ BooksInv /\ HeldWithin /\ AnswersInv /\ PositionInv /\ [Next]_vars => PositionInv'
    BY PositionKept DEF AccordInv
  <1> QED
    BY <1>1, <1>2, PositionStart, AlwaysSum, AlwaysAnswers, PTL DEF Spec

\* Between two requests everyone is idle or waits for a disbursement.
LEMMA QuietAccord ==
  ASSUME OneAtATime, TypeInv, PositionInv, Quiet
  PROVE  /\ \A g \in Guarantors : position[g].balance = vault[g].balance
         /\ \A l \in LoanIds :
              loan[l].guarantor \in Guarantors /\ loan[l].status # "none" =>
                Agrees(position[loan[l].guarantor].perLoan[l], HeldBy(book, loan, l), loan[l])
         /\ \A l \in LoanIds, g \in Guarantors :
              loan[l].status = "none" => position[g].perLoan[l] = 0
  <1>1. HasTurn(Job) /\ Job \in Tasks
    BY DEF Quiet, HasTurn, Tasks
  <1>2. Still(task[Job])
    BY <1>1 DEF Quiet, Parked, OneAtATime, Still
  <1>3. Accord(task[Job], book, loan, vault, position)
    BY <1>1 DEF PositionInv
  <1>4. \A g \in Guarantors : position[g].balance = vault[g].balance
    <2> SUFFICES ASSUME NEW g \in Guarantors PROVE position[g].balance = vault[g].balance
      OBVIOUS
    <2>1. vault[g].balance \in Int
      BY DEF TypeInv, TypeOK, VaultAccount
    <2>2. position[g].balance = vault[g].balance + 0
      BY <1>2, <1>3, StillExpects DEF Accord
    <2> QED
      BY <2>1, <2>2
  <1>5. \A l \in LoanIds : /\ AgreesOn(task[Job], book, loan, position, l)
                           /\ Expected(task[Job], book, loan, l) = HeldBy(book, loan, l)
    BY <1>2, <1>3, StillExpects DEF Accord
  <1> QED
    BY <1>4, <1>5 DEF AgreesOn

\* Whatever the gateway refuses, between two requests it holds for every stored
\* loan at least what the backend still counts on, and the two balances are the
\* same: every handler asks it before it moves its own account, and drops the
\* change when it says no (loan.service.ts, liquidation.service.ts).
THEOREM GatewayHoldsCollateral ==
  ASSUME AsShipped, RoomForCents, Refusing PROVE Spec => []GatewayHoldsEnough
  <1>1. OneAtATime
    BY DEF AsShipped
  <1>2. TypeInv /\ PositionInv => GatewayHoldsEnough
    <2> SUFFICES ASSUME TypeInv, PositionInv, Quiet, NEW g \in Guarantors
                 PROVE  /\ vault[g].balance = position[g].balance
                        /\ \A l \in LoansOf(g) :
                             OutstandingCollateral(loan[l]) <= position[g].perLoan[l]
      BY DEF GatewayHoldsEnough
    <2>1. vault[g].balance = position[g].balance
      BY <1>1, QuietAccord
    <2>2. ASSUME NEW l \in LoansOf(g)
          PROVE  OutstandingCollateral(loan[l]) <= position[g].perLoan[l]
      <3> DEFINE held == HeldBy(book, loan, l)
                 p == position[g].perLoan[l]
      <3>1. l \in book /\ l \in LoanIds /\ loan[l].guarantor = g /\ loan[l].status # "none"
        BY DEF LoansOf, TypeInv, TypeOK
      <3>2. Agrees(p, held, loan[l])
        BY <1>1, <3>1, QuietAccord
      <3>3. held = OutstandingCollateral(loan[l]) /\ held \in Int
        <4>1. loan[l] \in LoanRecord /\ Begun(loan[l])
          BY <3>1 DEF TypeInv, TypeOK, Begun
        <4> QED
          BY <3>1, <4>1, AmountsInt DEF HeldBy, Begun
      <3>4. p \in Int
        BY <3>1 DEF TypeInv, TypeOK, Position
      <3> HIDE DEF held, p
      <3>5. held <= p
        BY <3>2, <3>3, <3>4 DEF Agrees
      <3> QED
        BY <3>3, <3>5 DEF p
    <2> QED
      BY <2>1, <2>2
  <1> QED
    BY <1>2, AlwaysAccord, PTL

\* A gateway that refuses nothing that it can do agrees with the backend between
\* two requests, vault by vault and loan by loan: origination, repayment,
\* liquidation and unwinding tell it the same amounts they book themselves, up
\* to the excess of a default, which it is never told to give back
\* (liquidation.service.ts:285).
THEOREM GatewayTellsTheSame ==
  ASSUME AsShipped, RoomForCents, Faultless PROVE Spec => []GatewayAgrees
  <1>1. OneAtATime /\ Refusing
    BY DEF AsShipped, Faultless, Refusing
  <1>2. TypeInv /\ PositionInv => GatewayAgrees
    <2> SUFFICES ASSUME TypeInv, PositionInv, Quiet, NEW g \in Guarantors
                 PROVE  /\ vault[g].balance = position[g].balance
                        /\ \A l \in LoanIds :
                             loan[l].guarantor = g /\ loan[l].status # "defaulted" =>
                               position[g].perLoan[l] =
                                 IF l \in book THEN OutstandingCollateral(loan[l]) ELSE 0
      BY DEF GatewayAgrees
    <2>1. vault[g].balance = position[g].balance
      BY <1>1, QuietAccord
    <2>2. ASSUME NEW l \in LoanIds, loan[l].guarantor = g, loan[l].status # "defaulted"
          PROVE  position[g].perLoan[l] =
                   IF l \in book THEN OutstandingCollateral(loan[l]) ELSE 0
      <3>1. CASE loan[l].status = "none"
        <4>1. l \notin book
          BY <3>1 DEF TypeInv
        <4> QED
          BY <1>1, <3>1, <4>1, QuietAccord
      <3>2. CASE loan[l].status # "none"
        <4>1. Agrees(position[g].perLoan[l], HeldBy(book, loan, l), loan[l])
          BY <1>1, <2>2, <3>2, QuietAccord
        <4> QED
          BY <2>2, <4>1 DEF Agrees, HeldBy
      <3> QED
        BY <3>1, <3>2
    <2> QED
      BY <2>1, <2>2
  <1> QED
    BY <1>1, <1>2, AlwaysAccord, PTL

-----------------------------------------------------------------------------
(* The lifecycle a loan promises                                           *)

LEMMA OwesSomething ==
  ASSUME RoomForCents, NEW ln \in LoanRecord, ln.terms \in Terms, ItemsWithin(ln), ~AllRepaid(ln)
  PROVE  OutstandingPrincipal(ln) \in Nat \ {0}
  <1> DEFINE c == ln.terms.count
             p == ln.terms.principal
             S == ItemsIn(ln, "repaid")
  <1>1. c \in Nat \ {0} /\ p \in Nat \ {0} /\ c * (c - 1) < 2 * p
    BY TermsRoom
  <1>2. S \subseteq 1 .. c /\ RepaidTotal(ln) = TotalRepaid(p, c, S)
    BY RepaidWithin DEF RepaidTotal
  <1>3. PICK i \in Installments : ln.item[i] \in {"pending", "overdue"}
    BY DEF AllRepaid, ItemsIn
  <1>4. i \in 1 .. c /\ i \notin S
    <2>1. i \in Nat \ {0} /\ ~(i > c)
      BY <1>3, LoanBookAssumption DEF Installments, Term, ItemsWithin
    <2>2. i \notin S
      BY <1>3 DEF ItemsIn
    <2> HIDE DEF c, S
    <2> QED
      BY <1>1, <2>1, <2>2
  <1> HIDE DEF c, p, S
  <1>5. /\ TotalRepaid(p, c, S \cup {i}) = TotalRepaid(p, c, S) + InstallmentAmount(p, c, i)
        /\ TotalRepaid(p, c, S \cup {i}) <= p /\ TotalRepaid(p, c, S) \in Nat
        /\ InstallmentAmount(p, c, i) \in Nat \ {0}
    <2>1. S \cup {i} \subseteq 1 .. c
      BY <1>2, <1>4
    <2>2. TotalRepaid(p, c, S \cup {i}) <= p /\ TotalRepaid(p, c, S) \in Nat
      BY <1>1, <1>2, <2>1, RepaidBounds
    <2>3. InstallmentAmount(p, c, i) \in Nat \ {0}
      BY <1>1, <1>4, InstallmentIsPositive
    <2>4. TotalRepaid(p, c, S \cup {i}) = TotalRepaid(p, c, S) + InstallmentAmount(p, c, i)
      <3>1. /\ c \in Nat \ {0} /\ p \in Nat \ {0}
            /\ S \subseteq 1 .. c /\ i \in 1 .. c /\ i \notin S
        BY <1>1, <1>2, <1>4
      <3> QED
        BY ONLY <3>1, RepaidGrows
    <2> QED
      BY <2>2, <2>3, <2>4
  <1>6. p - RepaidTotal(ln) \in Nat \ {0}
    BY <1>1, <1>2, <1>5
  <1> QED
    BY <1>6 DEF OutstandingPrincipal, StillOwed, AtLeastZero, p

\* A request that waits for the gateway's lock has a loan nobody has looked at.
LockingInv ==
    \A t \in Tasks : task[t].at = "lock" => loan[task[t].loan].status = "active"

LEMMA LockingKept ==
  ASSUME OneAtATime, TypeInv, LockingInv, [Next]_vars PROVE LockingInv'
  <1> SUFFICES ASSUME NEW t \in Tasks, task'[t].at = "lock"
               PROVE  loan'[task'[t].loan].status = "active"
    BY DEF LockingInv
  <1>1. CASE task'[t] = task[t]
    <2>1. ~Parked(t)
      BY <1>1 DEF Parked, OneAtATime
    <2> QED
      BY <1>1, <2>1, BusyRests DEF LockingInv
  <1>2. CASE Arrives(t, task'[t])
    BY <1>2, NewLoanFields DEF Arrives
  <1> QED
    BY <1>1, <1>2, EveryTaskMoves DEF TaskMoves

LEMMA AlwaysLocking == ASSUME OneAtATime PROVE Spec => []LockingInv
  <1>1. Init => LockingInv
    BY DEF Init, LockingInv, Idle
  <1>2. TypeInv /\ LockingInv /\ [Next]_vars => LockingInv'
    BY LockingKept
  <1> QED
    BY <1>1, <1>2, AlwaysTyped, PTL DEF Spec

\* What the promise says of one loan, as it stands and after a step.
GivenBack(l) ==
    CASE LifecycleStatus(l) = "none"    -> 0
      [] LifecycleStatus(l) = "unwound" -> loan[l].locked
      [] OTHER                          -> loan[l].released

TakenFor(l) == IF l \in book THEN loan[l].forfeited ELSE 0

StageStays(l) ==
    /\ LifecycleStatus(l)' = LifecycleStatus(l)
    /\ HeldBy(book', loan', l) = HeldBy(book, loan, l)
    /\ GivenBack(l)' = GivenBack(l) /\ TakenFor(l)' = TakenFor(l)

\* One loan's share of each action of the lifecycle.
Stage(s, sn, h, hn, r, rn, k, kn) ==
    \/ s = "none" /\ sn = "active" /\ hn > 0 /\ rn = r /\ kn = k
    \/ s = "active" /\ sn = "grace" /\ hn = h /\ rn = r /\ kn = k
    \/ /\ s \in {"active", "grace"} /\ sn \in {"active", s} /\ hn \in 1 .. h /\ kn = k
       /\ rn = r + (h - hn) - (kn - k)
    \/ /\ s \in {"active", "grace"} /\ sn = "repaid" /\ hn = 0 /\ kn = k
       /\ rn = r + (h - hn) - (kn - k)
    \/ /\ s = "grace" /\ sn = "defaulted" /\ hn = 0 /\ kn \in 1 .. h
       /\ rn = r + (h - hn) - (kn - k)
    \/ /\ s \in {"active", "grace"} /\ sn = "unwound" /\ r = 0 /\ hn = 0 /\ kn = k
       /\ rn = r + (h - hn) - (kn - k)

StageMoves(l) ==
    Stage(LifecycleStatus(l), LifecycleStatus(l)',
          HeldBy(book, loan, l), HeldBy(book', loan', l),
          GivenBack(l), GivenBack(l)', TakenFor(l), TakenFor(l)')

\* A loan that is not stored is stored by its request, or stays as it is.
LEMMA UnstoredStage ==
  ASSUME AsShipped, RoomForCents, FullyBacked, TypeInv, BooksInv, LockingInv, [Next]_vars,
         NEW l \in LoanIds, l \notin book
  PROVE  StageStays(l) \/ StageMoves(l)
  <1>1. OneAtATime /\ FromTheListing
    BY DEF AsShipped, FromTheListing
  <1>2. CASE l \in book'
    <2>1. PICK t \in Tasks : LockReturns(t) /\ task[t].loan = l /\ UNCHANGED loan
      BY <1>1, <1>2, BookGrows DEF BooksInv, ShippedInv
    <2>2. task[t].at = "lock" /\ UNCHANGED payout
      BY <2>1 DEF LockReturns, Resumes
    <2>3. payout[l] = "none" /\ loan[l].status = "active"
      BY <2>1, <2>2 DEF BooksInv, ShippedInv, PayoutInv, Originating, LockingInv
    <2>4. /\ loan[l].released = 0 /\ loan[l].forfeited = 0 /\ loan[l].status # "none"
          /\ OutstandingCollateral(loan[l]) = loan[l].locked /\ loan[l].locked \in Nat
      BY <2>1, <2>2, UntouchedHeld
    <2>5. loan[l] \in LoanRecord /\ loan[l].terms \in Terms /\ Split(loan[l]) /\ IsOpen(loan[l])
      BY <2>3, HeldTyped DEF IsOpen
    <2>6. OutstandingCollateral(loan[l]) > 0
      <3>1. loan[l].locked >= loan[l].terms.principal /\ loan[l].terms.principal \in Nat \ {0}
        BY <2>5, SplitCovers, TermsRoom
      <3> QED
        BY <2>4, <3>1
    <2>7. /\ LifecycleStatus(l) = "none" /\ LifecycleStatus(l)' = "active"
          /\ HeldBy(book', loan', l) = OutstandingCollateral(loan[l])
          /\ GivenBack(l) = 0 /\ TakenFor(l) = 0
      BY <1>2, <2>1, <2>3 DEF LifecycleStatus, HeldBy, GivenBack, TakenFor
    <2>8. GivenBack(l)' = 0 /\ TakenFor(l)' = 0
      BY <1>2, <2>1, <2>4, <2>7 DEF GivenBack, TakenFor
    <2> QED
      BY <2>6, <2>7, <2>8 DEF StageMoves, Stage
  <1>3. CASE l \notin book' /\ payout[l] = "none"
    <2>1. payout'[l] = "none"
      BY <1>3, PayoutMoves DEF BooksInv, ShippedInv, PayoutInv
    <2> QED
      BY <1>3, <2>1 DEF StageStays, LifecycleStatus, HeldBy, GivenBack, TakenFor
  <1>4. CASE l \notin book' /\ payout[l] # "none"
    <2>1. payout'[l] # "none"
      BY <1>4, AskedStays DEF BooksInv, ShippedInv
    <2>2. loan[l].status # "none"
      BY <1>4 DEF BooksInv, ShippedInv, PayoutInv
    <2>3. loan'[l].locked = loan[l].locked
      BY <2>2, ContractKept DEF BooksInv, ShippedInv, SameContract
    <2>4. LifecycleStatus(l) = "unwound" /\ LifecycleStatus(l)' = "unwound"
      BY <1>4, <2>1 DEF LifecycleStatus
    <2> QED
      BY <1>4, <2>3, <2>4 DEF StageStays, HeldBy, GivenBack, TakenFor
  <1> QED
    BY <1>2, <1>3, <1>4

\* A stored loan leaves the store only as it came, its collateral with it.
LEMMA UnwoundStage ==
  ASSUME AsShipped, RoomForCents, TypeInv, BooksInv, [Next]_vars,
         NEW l \in LoanIds, l \in book, l \notin book'
  PROVE  StageMoves(l)
  <1>1. PICK t \in Tasks : task[t].at = "unwindClose" /\ task[t].loan = l /\ UnwindCloseReturns(t)
    BY LeavesUnwound
  <1>2. UNCHANGED <<loan, payout>>
    BY <1>1 DEF UnwindCloseReturns
  <1>3. IsOpen(loan[l]) /\ payout[l] = "refused"
    BY <1>1 DEF BooksInv, PaidInv, UnwoundInv
  <1>4. /\ loan[l].released = 0 /\ loan[l].forfeited = 0 /\ loan[l].locked \in Nat
        /\ OutstandingCollateral(loan[l]) = loan[l].locked
    BY <1>1, UntouchedHeld
  <1>5. /\ LifecycleStatus(l) \in {"active", "grace"} /\ LifecycleStatus(l)' = "unwound"
        /\ HeldBy(book, loan, l) = loan[l].locked /\ HeldBy(book', loan', l) = 0
        /\ TakenFor(l) = 0 /\ TakenFor(l)' = 0
    BY <1>2, <1>3, <1>4 DEF LifecycleStatus, HeldBy, TakenFor, IsOpen
  <1>6. GivenBack(l) = 0 /\ GivenBack(l)' = loan[l].locked
    BY <1>2, <1>4, <1>5 DEF GivenBack
  <1>7. loan[l].locked = 0 + (loan[l].locked - 0) - (0 - 0)
    BY <1>4
  <1> QED
    BY <1>5, <1>6, <1>7 DEF StageMoves, Stage

\* What is known of a stored loan that stays stored.
LEMMA StoredStage ==
  ASSUME RoomForCents, TypeInv, BooksInv, TypeInv', BooksInv', [Next]_vars,
         NEW l \in LoanIds, l \in book, l \in book'
  PROVE  LET x == loan'[l]
             y == loan[l]
         IN /\ y.status \in {"active", "grace", "repaid", "defaulted"}
            /\ x.status \in {"active", "grace", "repaid", "defaulted"}
            /\ y \in LoanRecord /\ y.terms \in Terms /\ Split(y)
            /\ x \in LoanRecord /\ x.terms \in Terms /\ Split(x)
            /\ SameContract(x, y)
            /\ LifecycleStatus(l) = y.status /\ LifecycleStatus(l)' = x.status
            /\ HeldBy(book, loan, l) = OutstandingCollateral(y)
            /\ HeldBy(book', loan', l) = OutstandingCollateral(x)
            /\ GivenBack(l) = y.released /\ GivenBack(l)' = x.released
            /\ TakenFor(l) = y.forfeited /\ TakenFor(l)' = x.forfeited
  <1>1. loan[l].status # "none" /\ loan'[l].status # "none"
    BY DEF TypeInv
  <1>2. /\ loan[l] \in LoanRecord /\ loan[l].terms \in Terms /\ Split(loan[l])
        /\ loan'[l] \in LoanRecord /\ loan'[l].terms \in Terms /\ Split(loan'[l])
    BY <1>1 DEF TypeInv, TypeOK, BooksInv, AmountsInv
  <1>3. /\ loan[l].status \in {"active", "grace", "repaid", "defaulted"}
        /\ loan'[l].status \in {"active", "grace", "repaid", "defaulted"}
    BY <1>1, <1>2 DEF LoanRecord, LoanStatus
  <1>4. SameContract(loan'[l], loan[l])
    BY <1>1, ContractKept DEF BooksInv, ShippedInv
  <1>5. LifecycleStatus(l) = loan[l].status /\ LifecycleStatus(l)' = loan'[l].status
    BY DEF LifecycleStatus
  <1>6. GivenBack(l) = loan[l].released /\ GivenBack(l)' = loan'[l].released
    BY <1>3, <1>5 DEF GivenBack
  <1> QED
    BY <1>2, <1>3, <1>4, <1>5, <1>6 DEF HeldBy, TakenFor

LEMMA ClosedStage ==
  ASSUME RoomForCents, TypeInv, BooksInv, TypeInv', BooksInv', [Next]_vars,
         NEW l \in LoanIds, l \in book, l \in book', loan[l].status \in {"repaid", "defaulted"}
  PROVE  StageStays(l)
  <1>1. /\ loan'[l].status = loan[l].status /\ loan'[l].released = loan[l].released
        /\ loan'[l].forfeited = loan[l].forfeited
    BY ClosedStays DEF BooksInv
  <1>2. OutstandingCollateral(loan'[l]) = OutstandingCollateral(loan[l])
    BY <1>1, StoredStage, SameHeld
  <1> QED
    BY <1>1, <1>2, StoredStage DEF StageStays

\* The end of an attestation's handling: an installment, or the last of them.
LEMMA SettledStage ==
  ASSUME AsShipped, RoomForCents, FullyBacked, TypeInv, BooksInv, TypeInv', BooksInv',
         ScheduleInv', [Next]_vars, NEW l \in LoanIds, l \in book, l \in book',
         IsOpen(loan[l]), NEW t \in Tasks, task[t].loan = l, SettledTo(t, loan'[l], loan[l])
  PROVE  StageMoves(l)
  <1> DEFINE x == loan'[l]
             y == loan[l]
             hx == OutstandingCollateral(x)
             hy == OutstandingCollateral(y)
             a == task[t].amount
  <1>1. /\ x \in LoanRecord /\ x.terms \in Terms /\ Split(x)
        /\ y \in LoanRecord /\ y.terms \in Terms /\ Split(y) /\ SameContract(x, y)
        /\ y.status \in {"active", "grace"}
    BY StoredStage DEF IsOpen
  <1>2. task[t].at \in {"repay", "release"} /\ x.forfeited = y.forfeited /\ x.item = y.item
        /\ (task[t].at = "repay" => x.released = y.released /\ a = 0)
        /\ (task[t].at = "release" => x.released = y.released + a)
    BY DEF SettledTo
  <1>3. a \in Nat /\ a <= hy /\ hy \in Nat /\ y.forfeited = 0 /\ y.released \in Nat
        /\ hy = y.locked - y.released /\ y.locked \in Nat
    BY <1>2, ReleaseAmount
  <1>4. x.released = y.released + a
    BY <1>2, <1>3
  <1>5. hx = hy - a
    <2>1. hx = x.locked - x.released - x.forfeited /\ x.locked = y.locked
      BY <1>1, SplitHeld DEF SameContract
    <2> QED
      BY <1>2, <1>3, <1>4, <2>1
  <1>6. x.released = y.released + (hy - hx) - (x.forfeited - y.forfeited)
    BY <1>2, <1>3, <1>4, <1>5
  <1>7. CASE AllRepaid(y)
    <2>1. x.status = "repaid"
      BY <1>7 DEF SettledTo
    <2>2. hx = 0
      BY <2>1 DEF ScheduleInv, OnSchedule
    <2> QED
      BY <1>1, <1>2, <1>6, <2>1, <2>2, StoredStage DEF StageMoves, Stage
  <1>8. CASE ~AllRepaid(y)
    <2>1. x.status \in {"active", y.status}
      BY <1>8 DEF SettledTo
    <2>2. IsOpen(x) /\ ~AllRepaid(x)
      BY <1>1, <1>2, <1>8, <2>1 DEF IsOpen, AllRepaid, ItemsIn
    <2>3. hx >= OutstandingPrincipal(x) /\ OutstandingPrincipal(x) \in Nat \ {0}
      BY <1>1, <2>2, SplitCovers, OwesSomething DEF Split
    <2>4. hx \in 1 .. hy
      BY <1>3, <1>5, <2>3
    <2> QED
      BY <1>1, <1>2, <1>6, <2>1, <2>4, StoredStage DEF StageMoves, Stage
  <1> QED
    BY <1>7, <1>8

LEMMA DefaultedStage ==
  ASSUME AsShipped, RoomForCents, FullyBacked, TypeInv, BooksInv, ScheduleInv, TypeInv', BooksInv',
         [Next]_vars, NEW l \in LoanIds, l \in book, l \in book',
         IsOpen(loan[l]), NEW t \in Tasks, HasTurn(t), DefaultedTo(t, l, loan'[l], loan[l])
  PROVE  StageMoves(l)
  <1> DEFINE x == loan'[l]
             y == loan[l]
             hx == OutstandingCollateral(x)
             hy == OutstandingCollateral(y)
             f == Forfeit(OutstandingPrincipal(y), hy)
  <1>1. /\ x \in LoanRecord /\ x.terms \in Terms /\ Split(x)
        /\ y \in LoanRecord /\ y.terms \in Terms /\ Split(y) /\ SameContract(x, y)
    BY StoredStage
  <1>2. y.status = "grace" /\ x.status = "defaulted" /\ task[t].at \in {"next", "liquidate"}
        /\ x.forfeited = y.forfeited + f /\ x.released = y.released + (hy - f)
    BY DEF DefaultedTo, GraceExpired
  <1>3. ~Settling(l)
    BY <1>2 DEF Settling, HasTurn, Parked, AsShipped, OneAtATime
  <1>4. ~AllRepaid(y)
    BY <1>2, <1>3 DEF ScheduleInv, Unsettled, AllRepaid
  <1>5. hy >= OutstandingPrincipal(y) /\ OutstandingPrincipal(y) \in Nat \ {0}
    BY <1>1, <1>4, SplitCovers, OwesSomething DEF Split
  <1>6. hy \in Nat /\ y.forfeited = 0 /\ y.released \in Nat
    BY <1>1, SplitHeld DEF Split
  <1>7. f \in 1 .. hy
    BY <1>5, <1>6 DEF Forfeit, Least
  <1>8. hx = 0
    <2>1. /\ hx = x.locked - x.released - x.forfeited /\ x.locked = y.locked
          /\ hy = y.locked - y.released - y.forfeited /\ y.locked \in Nat
      BY <1>1, SplitHeld DEF SameContract
    <2> HIDE DEF f, hx, hy
    <2> QED
      BY <1>2, <1>6, <1>7, <2>1
  <1>9. x.forfeited \in 1 .. hy /\ x.released = y.released + (hy - hx) - (x.forfeited - y.forfeited)
    <2> HIDE DEF f, hx, hy
    <2> QED
      BY <1>2, <1>6, <1>7, <1>8
  <1> QED
    BY <1>2, <1>8, <1>9, StoredStage DEF StageMoves, Stage

LEMMA OpenStage ==
  ASSUME AsShipped, RoomForCents, FullyBacked, TypeInv, BooksInv, ScheduleInv,
         TypeInv', BooksInv', ScheduleInv', [Next]_vars,
         NEW l \in LoanIds, l \in book, l \in book', IsOpen(loan[l])
  PROVE  StageStays(l) \/ StageMoves(l)
  <1> DEFINE x == loan'[l]
             y == loan[l]
  <1>1. ASSUME x.released = y.released, x.forfeited = y.forfeited
        PROVE  OutstandingCollateral(x) = OutstandingCollateral(y)
    BY <1>1, StoredStage, SameHeld
  <1>2. CASE Rests(x, y)
    BY <1>1, <1>2, StoredStage DEF StageStays, Rests
  <1>3. ASSUME NEW t \in Tasks, Swept(t, x, y) PROVE StageStays(l) \/ StageMoves(l)
    BY <1>1, <1>3, StoredStage DEF StageStays, StageMoves, Stage, Swept
  <1>4. ASSUME NEW t \in Tasks, Attested(t, x, y) PROVE StageStays(l)
    BY <1>1, <1>4, StoredStage DEF StageStays, Attested
  <1> QED
    BY <1>2, <1>3, <1>4, SettledStage, DefaultedStage, OpenLoanMoves DEF OpenMoves, BooksInv

LEMMA EveryStage ==
  ASSUME AsShipped, RoomForCents, FullyBacked, TypeInv, BooksInv, ScheduleInv, LockingInv,
         TypeInv', BooksInv', ScheduleInv', [Next]_vars, NEW l \in LoanIds
  PROVE  StageStays(l) \/ StageMoves(l)
  <1>1. l \in book => IsOpen(loan[l]) \/ loan[l].status \in {"repaid", "defaulted"}
    BY StatusCases DEF TypeInv
  <1> QED
    BY <1>1, UnstoredStage, UnwoundStage, ClosedStage, OpenStage

-----------------------------------------------------------------------------
\* A step touches one loan: the one its handler works on, or none.
LeavesOthers(m) ==
    \A l \in LoanIds \ {m} :
        loan'[l] = loan[l] /\ (l \in book' <=> l \in book) /\ payout'[l] = payout[l]

LEMMA OneLoanTouched ==
  ASSUME TypeInv, [Next]_vars PROVE \E m : LeavesOthers(m)
  <1>1. loan \in [LoanIds -> LoanRecord]
    BY DEF TypeInv, TypeOK
  <1>2. CASE UNCHANGED <<loan, book, payout>>
    BY <1>2 DEF LeavesOthers
  <1>3. ASSUME NEW m, \A l \in LoanIds \ {m} : loan'[l] = loan[l],
               book' \in {book, book \cup {m}, book \ {m}}, UNCHANGED payout
        PROVE  LeavesOthers(m)
    BY <1>3 DEF LeavesOthers
  <1>4. ASSUME NEW t \in Tasks, Request(t) \/ Sweep(t) PROVE \E m : LeavesOthers(m)
    <2>1. CASE UNCHANGED <<loan, book, payout>>
      BY <1>2, <2>1
    <2>2. ASSUME NEW m \in LoanIds, Reconcile(t, m) PROVE LeavesOthers(m)
      <3>1. CASE UNCHANGED <<loan, book, payout>>
        BY <3>1 DEF LeavesOthers
      <3>2. CASE loan' = [loan EXCEPT ![m].disbursement = "completed"] /\ book' = book \cup {m}
        BY <1>1, <1>3, <2>2, <3>2 DEF Reconcile
      <3> QED
        BY <2>2, <3>1, <3>2 DEF Reconcile, Resolve
    <2> QED
      BY <1>4, <2>1, <2>2 DEF Request, Deposit, Withdraw, Originate, Attest, PollStatus, Sweep
  <1>5. ASSUME NEW t \in Tasks, Continue(t) PROVE \E m : LeavesOthers(m)
    <2> DEFINE m == task[t].loan
    <2>1. CASE UNCHANGED <<loan, book, payout>>
      BY <1>2, <2>1
    <2>2. CASE RecordReturns(t)
      BY <2>2 DEF RecordReturns, LeavesOthers, TypeInv, TypeOK
    <2>3. CASE QuoteReturns(t) \/ LockReturns(t) \/ UnwindCloseReturns(t) \/ VerifyReturns(t)
      <3>1. UNCHANGED payout /\ book' \in {book, book \cup {m}, book \ {m}}
        BY <2>3 DEF QuoteReturns, LockReturns, UnwindCloseReturns, VerifyReturns
      <3>2. \A l \in LoanIds \ {m} : loan'[l] = loan[l]
        BY <1>1, <2>3 DEF QuoteReturns, LockReturns, UnwindCloseReturns, VerifyReturns
      <3> QED
        BY <1>3, <3>1, <3>2
    <2>4. CASE DisburseReturns(t) \/ DisburseTimesOut(t) \/ StatusReturns(t)
      <3>1. UNCHANGED payout /\ book' \in {book, book \cup {m}}
        BY <2>4 DEF DisburseReturns, DisburseTimesOut, StatusReturns, DisbursementEnds, Resolve
      <3>2. \A l \in LoanIds \ {m} : loan'[l] = loan[l]
        BY <1>1, <2>4 DEF DisburseReturns, DisburseTimesOut, StatusReturns, DisbursementEnds, Resolve
      <3> QED
        BY <1>3, <3>1, <3>2
    <2>5. CASE RepayReturns(t) \/ ReleaseReturns(t)
      <3>1. UNCHANGED payout /\ book' \in {book, book \cup {m}}
        BY <2>5 DEF RepayReturns, ReleaseReturns, SettleInstallment
      <3>2. \A l \in LoanIds \ {m} : loan'[l] = loan[l]
        BY <1>1, <2>5 DEF RepayReturns, ReleaseReturns, SettleInstallment
      <3> QED
        BY <1>3, <3>1, <3>2
    <2>6. CASE LiquidateReturns(t)
      <3>1. UNCHANGED payout /\ book' \in {book, book \cup {m}}
        BY <2>6 DEF LiquidateReturns, SettleDefault
      <3>2. \A l \in LoanIds \ {m} : loan'[l] = loan[l]
        BY <1>1, <2>6 DEF LiquidateReturns, SettleDefault
      <3> QED
        BY <1>3, <3>1, <3>2
    <2>7. ASSUME NEW n \in LoanIds,
                 EvaluateMissed(t, n) \/ EvaluateOther(t, n) \/ EvaluateExpired(t, n)
          PROVE  LeavesOthers(n)
      <3>1. UNCHANGED payout /\ book' \in {book, book \cup {n}}
        BY <2>7 DEF EvaluateMissed, EvaluateOther, EvaluateExpired, SettleDefault
      <3>2. \A l \in LoanIds \ {n} : loan'[l] = loan[l]
        BY <1>1, <2>7 DEF EvaluateMissed, EvaluateOther, EvaluateExpired, SettleDefault
      <3> QED
        BY <1>3, <3>1, <3>2
    <2> HIDE DEF m
    <2> QED
      BY <1>5, <2>1, <2>2, <2>3, <2>4, <2>5, <2>6, <2>7
      DEF Continue, DepositReturns, WithdrawReturns, DisburseRejects, UnwindReturns,
          CloseReturns, LiquidateCloseReturns, EvaluateClosed
  <1>6. ASSUME NEW m \in LoanIds, PartnerDecides(m) PROVE LeavesOthers(m)
    BY <1>6 DEF PartnerDecides, LeavesOthers, TypeInv, TypeOK
  <1> QED
    BY <1>2, <1>4, <1>5, <1>6 DEF Next, vars, DayPasses, Tasks

LEMMA OthersStay ==
  ASSUME NEW m, LeavesOthers(m), NEW l \in LoanIds \ {m} PROVE StageStays(l)
  <1>1. loan'[l] = loan[l] /\ (l \in book' <=> l \in book) /\ payout'[l] = payout[l]
    BY DEF LeavesOthers
  <1>2. LifecycleStatus(l)' = LifecycleStatus(l)
    BY <1>1 DEF LifecycleStatus
  <1> QED
    BY <1>1, <1>2 DEF StageStays, HeldBy, GivenBack, TakenFor

\* The four functions the lifecycle is about, and what they become.
PromisedStatus == [l \in LoanIds |-> LifecycleStatus(l)]
PromisedHeld == [l \in LoanIds |-> HeldBy(book, loan, l)]
PromisedReturned == [l \in LoanIds |-> GivenBack(l)]
PromisedTaken == [l \in LoanIds |-> TakenFor(l)]

LEMMA PromisedStep ==
  ASSUME AsShipped, RoomForCents, FullyBacked, TypeInv, BooksInv, ScheduleInv, LockingInv,
         TypeInv', BooksInv', ScheduleInv', [Next]_vars
  PROVE  [Promised!Next]_(Promised!lifecycle)
  <1>1. PICK m : LeavesOthers(m)
    BY OneLoanTouched
  <1>2. \A l \in LoanIds \ {m} : StageStays(l)
    BY <1>1, OthersStay
  <1>3. CASE \A l \in LoanIds : StageStays(l)
    BY <1>3 DEF StageStays, Promised!lifecycle, HeldBy, GivenBack, TakenFor
  <1>4. CASE m \in LoanIds /\ StageMoves(m)
    <2> DEFINE s == LifecycleStatus(m)
               sn == LifecycleStatus(m)'
    <2>1. ASSUME s = "none" PROVE Promised!Lend(m)
      BY <1>2, <1>4, <2>1 DEF StageMoves, Stage, StageStays, HeldBy, GivenBack, TakenFor,
         Promised!Lend
    <2>2. ASSUME s = "active" /\ sn = "grace" PROVE Promised!Miss(m)
      BY <1>2, <1>4, <2>2 DEF StageMoves, Stage, StageStays, HeldBy, GivenBack, TakenFor,
         Promised!Miss
    <2>3. ASSUME s # "none", sn = "active" \/ (s = "grace" /\ sn = "grace")
          PROVE  Promised!Installment(m)
      BY <1>2, <1>4, <2>3 DEF StageMoves, Stage, StageStays, HeldBy, GivenBack, TakenFor,
         Promised!Installment, Promised!Open, Promised!GivesBack
    <2>4. ASSUME sn = "repaid" PROVE Promised!Repay(m)
      BY <1>2, <1>4, <2>4 DEF StageMoves, Stage, StageStays, HeldBy, GivenBack, TakenFor,
         Promised!Repay, Promised!Open, Promised!GivesBack
    <2>5. ASSUME sn = "defaulted" PROVE Promised!Default(m)
      BY <1>2, <1>4, <2>5 DEF StageMoves, Stage, StageStays, HeldBy, GivenBack, TakenFor,
         Promised!Default, Promised!GivesBack
    <2>6. ASSUME sn = "unwound" PROVE Promised!Unwind(m)
      BY <1>2, <1>4, <2>6 DEF StageMoves, Stage, StageStays, HeldBy, GivenBack, TakenFor,
         Promised!Unwind, Promised!Open, Promised!GivesBack
    <2>7. \/ s = "none"
          \/ s = "active" /\ sn = "grace"
          \/ sn = "active" /\ s # "none"
          \/ s = "grace" /\ sn = "grace"
          \/ sn \in {"repaid", "defaulted", "unwound"}
      BY <1>4 DEF StageMoves, Stage
    <2>8. Promised!Lend(m) \/ Promised!Miss(m) \/ Promised!Installment(m) \/ Promised!Repay(m)
          \/ Promised!Default(m) \/ Promised!Unwind(m)
      <3> HIDE DEF s, sn
      <3> QED
        BY <2>1, <2>2, <2>3, <2>4, <2>5, <2>6, <2>7
    <2> QED
      BY <1>4, <2>8 DEF Promised!Next
  <1> QED
    BY <1>2, <1>3, <1>4, EveryStage

\* With the gateway and the partner the repository ships, every loan keeps the
\* lifecycle it promises its guarantor: collateral is held while it is open,
\* some of it until the last installment, goes only when a grace period has run
\* out, and what is neither held nor taken has been given back to the cent.
THEOREM PromiseIsKept ==
  ASSUME AsShipped, RoomForCents, FullyBacked, Faultless PROVE Spec => KeepsThePromise
  <1>1. OneAtATime /\ FromTheListing
    BY DEF AsShipped, FromTheListing
  <1>2. Init => Promised!Init
    BY DEF Init, Promised!Init, LifecycleStatus
  <1>3. Spec => [](TypeInv /\ BooksInv /\ ScheduleInv /\ LockingInv)
    BY <1>1, AlwaysBooks, AlwaysOnSchedule, AlwaysLocking, PTL
  <1>4. /\ TypeInv /\ BooksInv /\ ScheduleInv /\ LockingInv
        /\ (TypeInv /\ BooksInv /\ ScheduleInv /\ LockingInv)'
        /\ [Next]_vars
        => [Promised!Next]_(Promised!lifecycle)
    BY PromisedStep
  <1> QED
    BY <1>2, <1>3, <1>4, PTL DEF Spec, KeepsThePromise, Promised!Spec
=============================================================================
