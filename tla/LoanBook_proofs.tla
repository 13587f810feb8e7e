-------------------------- MODULE LoanBook_proofs --------------------------
(***************************************************************************)
(* Theorems about LoanBook, for every number of parties, loans, handlers   *)
(* and terms, every wiring and every kind of failure.                      *)
(***************************************************************************)
EXTENDS LoanBookProperties, FiniteSetTheorems, TLAPS

-----------------------------------------------------------------------------
(* Arithmetic                                                              *)

\* Rounding a quotient gives an integer.
LEMMA RoundInt == ASSUME NEW x \in Int, NEW y \in Nat \ {0} PROVE Round(x, y) \in Int
  BY DEF Round

\* A finite choice of terms has finitely many installments.
LEMMA InstallmentsFinite == IsFiniteSet(Installments) /\ Installments \subseteq Nat
  <1> DEFINE Ranges == {1 .. tm.count : tm \in Terms}
             f == [tm \in Terms |-> 1 .. tm.count]
  <1>1. f \in Surjection(Terms, Ranges)
    BY DEF Surjection
  <1>2. IsFiniteSet(Ranges)
    <2> HIDE DEF Ranges, f
    <2>1. IsFiniteSet(Terms)
      BY LoanBookAssumption
    <2> QED
      BY <1>1, <2>1, FS_Surjection
  <1>3. \A R \in Ranges : IsFiniteSet(R) /\ R \subseteq Nat
    <2> SUFFICES ASSUME NEW tm \in Terms
                 PROVE  IsFiniteSet(1 .. tm.count) /\ 1 .. tm.count \subseteq Nat
      OBVIOUS
    <2>1. tm.count \in Int
      BY LoanBookAssumption DEF Term
    <2>2. IsFiniteSet(1 .. tm.count)
      BY <2>1, FS_Interval
    <2> QED
      BY <2>1, <2>2
  <1>4. IsFiniteSet(UNION Ranges)
    BY <1>2, <1>3, FS_UNION
  <1> QED
    BY <1>3, <1>4 DEF Installments

\* What is required, repaid, released and outstanding are amounts.
LEMMA RequiredInt == ASSUME NEW tm \in Terms PROVE RequiredCollateral(tm.principal, tm.ltv) \in Int
  <1>1. tm \in Term
    BY LoanBookAssumption
  <1>2. tm.principal * tm.ltv \in Int
    BY <1>1 DEF Term
  <1> QED
    BY <1>2, RoundInt DEF RequiredCollateral

LEMMA RepaidInt ==
  ASSUME NEW ln \in LoanRecord, ln.terms \in Terms PROVE RepaidTotal(ln) \in Int
  <1> DEFINE S == ItemsIn(ln, "repaid")
             p == ln.terms.principal
             c == ln.terms.count
  <1>1. p \in Nat \ {0} /\ c \in Nat \ {0}
    BY LoanBookAssumption DEF Term
  <1>2. Round(p, c) \in Int
    BY <1>1, RoundInt
  <1>3. Cardinality(S \ {c}) \in Nat
    <2>1. S \ {c} \in SUBSET Installments
      BY DEF ItemsIn
    <2>2. IsFiniteSet(S \ {c})
      BY <2>1, InstallmentsFinite, FS_Subset
    <2> QED
      BY <2>2, FS_CardinalityType
  <1>4. InstallmentAmount(p, c, c) \in Int
    BY <1>1, <1>2 DEF InstallmentAmount
  <1> HIDE DEF S, p, c
  <1>5. TotalRepaid(p, c, S) \in Int
    BY <1>2, <1>3, <1>4 DEF TotalRepaid
  <1> QED
    BY <1>5 DEF RepaidTotal, S, p, c

LEMMA AmountsInt ==
  ASSUME NEW ln \in LoanRecord
  PROVE  /\ OutstandingCollateral(ln) \in Int
         /\ ln.terms \in Terms => /\ CollateralRelease(ln) \in Int
                                  /\ OutstandingPrincipal(ln) \in Int
  <1>1. ln.locked \in Int /\ ln.released \in Int /\ ln.forfeited \in Int
    BY DEF LoanRecord
  <1>2. OutstandingCollateral(ln) \in Int
    BY <1>1 DEF OutstandingCollateral, StillLocked, AtLeastZero
  <1>3. ASSUME ln.terms \in Terms
        PROVE  CollateralRelease(ln) \in Int /\ OutstandingPrincipal(ln) \in Int
    <2> DEFINE p == ln.terms.principal
               r == RepaidTotal(ln)
               x == AtLeastZero(ln.locked * r * (100 - SafetyBuffer) - ln.released * p * 100)
    <2>1. p \in Nat \ {0}
      BY <1>3, LoanBookAssumption DEF Term
    <2>2. r \in Int
      BY <1>3, RepaidInt
    <2>3. SafetyBuffer \in Int
      BY SafetyBufferAssumption
    <2> HIDE DEF p, r
    <2>4. x \in Int
      BY <1>1, <2>1, <2>2, <2>3 DEF AtLeastZero
    <2>5. p * 100 \in Nat \ {0}
      BY <2>1
    <2>6. Round(x, p * 100) \in Int
      BY <2>4, <2>5, RoundInt
    <2>7. StillOwed(p, r) \in Int
      BY <2>1, <2>2 DEF StillOwed, AtLeastZero
    <2> QED
      BY <2>6, <2>7 DEF CollateralRelease, ReleaseDue, OutstandingPrincipal, p, r
  <1> QED
    BY <1>2, <1>3

-----------------------------------------------------------------------------
(* What the operations make of an account, a position and a loan           *)

LEMMA VaultTyped ==
  ASSUME NEW v \in VaultAccount, NEW a \in Int
  PROVE  /\ Deposited(v, a) \in VaultAccount
         /\ Withdrawn(v, a) \in VaultAccount
         /\ LockedUp(v, a) \in VaultAccount
         /\ Released(v, a) \in VaultAccount
         /\ Forfeited(v, a) \in VaultAccount
  <1>1. Deposited(v, a) \in VaultAccount /\ Withdrawn(v, a) \in VaultAccount
    BY DEF VaultAccount, Deposited, Withdrawn
  <1>2. LockedUp(v, a) \in VaultAccount
    BY DEF VaultAccount, LockedUp
  <1>3. Released(v, a) \in VaultAccount
    BY DEF VaultAccount, Released
  <1>4. Forfeited(v, a) \in VaultAccount
    BY DEF VaultAccount, Forfeited
  <1> QED
    BY <1>1, <1>2, <1>3, <1>4

LEMMA BalanceTyped ==
  ASSUME NEW p \in Position, NEW a \in Int
  PROVE  GwDeposit(p, a) \in Position /\ GwWithdraw(p, a) \in Position
  BY DEF Position, GwDeposit, GwWithdraw

LEMMA PositionTyped ==
  ASSUME NEW p \in Position, NEW l \in LoanIds, NEW a \in Int
  PROVE  /\ GwLock(p, l, a) \in Position
         /\ GwRelease(p, l, a) \in Position
         /\ GwLiquidate(p, l, a) \in Position
  <1>1. GwLock(p, l, a) \in Position
    BY DEF Position, GwLock
  <1>2. GwRelease(p, l, a) \in Position
    BY DEF Position, GwRelease
  <1>3. GwLiquidate(p, l, a) \in Position
    BY DEF Position, GwLiquidate
  <1> QED
    BY <1>1, <1>2, <1>3

\* A loan past its origination: it has a status, and the terms it was given.
Begun(ln) == ln.status # "none" /\ ln.terms \in Terms

LEMMA NewLoanTyped ==
  ASSUME NEW g \in Guarantors, NEW b \in Beneficiaries, NEW tm \in Terms, now \in Nat
  PROVE  NewLoan(g, b, tm) \in LoanRecord /\ Begun(NewLoan(g, b, tm))
  <1>1. RequiredCollateral(tm.principal, tm.ltv) \in Int
    BY RequiredInt
  <1>2. [i \in Installments |-> IF i <= tm.count THEN "pending" ELSE "absent"]
          \in [Installments -> {"absent", "pending", "overdue", "repaid"}]
    OBVIOUS
  <1> QED
    BY <1>1, <1>2 DEF NewLoan, LoanRecord, LoanStatus, Begun, NoDeadline

LEMMA ItemsTyped ==
  ASSUME NEW ln \in LoanRecord, Begun(ln), NEW S,
         NEW s \in {"absent", "pending", "overdue", "repaid"}
  PROVE  WithItems(ln, S, s) \in LoanRecord /\ Begun(WithItems(ln, S, s))
  <1>1. [i \in Installments |-> IF i \in S THEN s ELSE ln.item[i]]
          \in [Installments -> {"absent", "pending", "overdue", "repaid"}]
    BY DEF LoanRecord
  <1> QED
    BY <1>1 DEF WithItems, LoanRecord, Begun

LEMMA ReleasedTyped ==
  ASSUME NEW ln \in LoanRecord, Begun(ln), NEW a \in Int
  PROVE  LET x == [ln EXCEPT !.released = @ + a] IN x \in LoanRecord /\ Begun(x)
  BY DEF LoanRecord, Begun

LEMMA SettledTyped ==
  ASSUME NEW ln \in LoanRecord, Begun(ln), NEW full \in BOOLEAN
  PROVE  Settled(ln, full) \in LoanRecord /\ Begun(Settled(ln, full))
  BY DEF Settled, LoanRecord, LoanStatus, Begun

LEMMA InGraceTyped ==
  ASSUME NEW ln \in LoanRecord, Begun(ln), NEW d \in Nat
  PROVE  InGrace(ln, d) \in LoanRecord /\ Begun(InGrace(ln, d))
  <1>1. d + GracePeriod \in Nat
    BY LoanBookAssumption
  <1> QED
    BY <1>1 DEF InGrace, LoanRecord, LoanStatus, Begun

LEMMA DefaultedTyped ==
  ASSUME NEW ln \in LoanRecord, Begun(ln), NEW a \in Int, NEW b \in Int
  PROVE  Defaulted(ln, a, b) \in LoanRecord /\ Begun(Defaulted(ln, a, b))
  <1> DEFINE x == WithItems(ln, ItemsIn(ln, "pending"), "overdue")
  <1>1. x \in LoanRecord /\ Begun(x)
    BY ItemsTyped
  <1> HIDE DEF x
  <1>2. x.forfeited + a \in Int /\ x.released + b \in Int
    BY <1>1 DEF LoanRecord
  <1>3. LET y == [x EXCEPT !.status = "defaulted", !.graceEnds = NoDeadline,
                           !.forfeited = @ + a, !.released = @ + b]
        IN  y \in LoanRecord /\ Begun(y)
    <2> DEFINE y == [x EXCEPT !.status = "defaulted", !.graceEnds = NoDeadline,
                              !.forfeited = @ + a, !.released = @ + b]
    <2>1. y \in LoanRecord
      BY <1>1, <1>2 DEF LoanRecord, LoanStatus
    <2>2. y.status = "defaulted" /\ y.guarantor = x.guarantor /\ y.terms = x.terms
      BY <1>1 DEF LoanRecord
    <2> HIDE DEF y
    <2>3. Begun(y)
      BY <1>1, <2>2 DEF Begun
    <2> QED
      BY <2>1, <2>3 DEF y
  <1> QED
    BY <1>3 DEF Defaulted, x

-----------------------------------------------------------------------------
(* The inductive invariant for types: a task at an await that concerns a   *)
(* loan has one, and that loan is past its origination; so is every stored *)
(* loan.                                                                   *)

\* Awaits of handlers that have a loan in hand.
LoanAwaits == {"lock", "record", "disburse", "unwind", "unwindClose", "verify",
               "repay", "release", "close", "liquidate", "status"}

Fits(x, lns) ==
    /\ x \in TaskRecord
    /\ x.at \in LoanAwaits => x.loan \in LoanIds /\ lns[x.loan].status # "none"
    /\ x.at = "quote" => /\ x.loan \in LoanIds /\ x.terms \in Terms
                         /\ x.guarantor \in Guarantors
                         /\ x.beneficiary \in Beneficiaries
    /\ x.at \in {"deposit", "withdraw"} => x.guarantor \in Guarantors

TypeInv ==
    /\ TypeOK
    /\ \A l \in LoanIds : loan[l].status # "none" => loan[l].terms \in Terms
    /\ \A l \in book : loan[l].status # "none"
    /\ \A t \in Tasks : Fits(task[t], loan)

\* A step leaves every begun loan begun.
LoansKept ==
    /\ loan' \in [LoanIds -> LoanRecord]
    /\ \A l \in LoanIds : /\ loan[l].status # "none" => loan'[l].status # "none"
                          /\ loan'[l].status # "none" => loan'[l].terms \in Terms

BookKept == book' \in SUBSET LoanIds /\ \A l \in book' : loan'[l].status # "none"

AccountsKept ==
    /\ vault' \in [Guarantors -> VaultAccount]
    /\ position' \in [Guarantors -> Position]
    /\ attested' \in [LoanIds -> [Installments -> Nat]]
    /\ payout' \in [LoanIds -> {"none", "asked", "paid", "refused"}]
    /\ now' \in Nat

\* A step of one task keeps the invariant if what it writes is in order.
LEMMA TaskStep ==
  ASSUME TypeInv, LoansKept, BookKept, AccountsKept, NEW t \in Tasks, NEW x,
         Fits(x, loan'), task' = [task EXCEPT ![t] = x]
  PROVE  TypeInv'
  <1>1. task' \in [Tasks -> TaskRecord]
    BY DEF TypeInv, TypeOK, Fits
  <1>2. TypeOK'
    BY <1>1 DEF LoansKept, BookKept, AccountsKept, TypeOK
  <1>3. ASSUME NEW u \in Tasks PROVE Fits(task'[u], loan')
    <2>1. CASE u = t
      BY <2>1 DEF TypeInv, TypeOK
    <2>2. CASE u # t
      <3>1. task'[u] = task[u]
        BY <2>2 DEF TypeInv, TypeOK
      <3>2. Fits(task[u], loan)
        BY DEF TypeInv
      <3> QED
        BY <3>1, <3>2 DEF Fits, LoansKept
    <2> QED
      BY <2>1, <2>2
  <1> QED
    BY <1>2, <1>3 DEF TypeInv, LoansKept, BookKept

\* Writing a begun loan over any loan keeps them all in order.
LEMMA LoanWritten ==
  ASSUME TypeInv, NEW l \in LoanIds, NEW x \in LoanRecord, Begun(x),
         loan' = [loan EXCEPT ![l] = x]
  PROVE  LoansKept /\ loan'[l] = x
  BY DEF TypeInv, TypeOK, LoansKept, Begun

LEMMA Untouched == ASSUME TypeInv, UNCHANGED loan PROVE LoansKept
  BY DEF TypeInv, TypeOK, LoansKept

LEMMA IdleTyped == Idle \in TaskRecord /\ Idle.at = "idle"
  BY DEF Idle, TaskRecord, Awaits

LEMMA IdleFits == ASSUME NEW lns PROVE Fits(Idle, lns)
  BY IdleTyped DEF Fits, LoanAwaits

LEMMA OutcomesTyped == Outcomes \subseteq {"ok", "refused", "threw", "lost"}
  BY LoanBookAssumption DEF Outcomes

LEMMA SameLoans == ASSUME TypeInv, UNCHANGED <<loan, book>> PROVE LoansKept /\ BookKept
  BY Untouched DEF TypeInv, TypeOK, BookKept

LEMMA SameAccounts ==
  ASSUME TypeInv, UNCHANGED <<vault, position, attested, payout, now>> PROVE AccountsKept
  BY DEF TypeInv, TypeOK, AccountsKept

\* A step that changes nothing but the task it runs.
LEMMA OnlyTask ==
  ASSUME TypeInv, UNCHANGED <<vault, position, loan, book, attested, payout, now>>,
         NEW t \in Tasks, NEW x, Fits(x, loan), task' = [task EXCEPT ![t] = x]
  PROVE  TypeInv'
  BY TaskStep, SameLoans, SameAccounts

LEMMA VaultWritten ==
  ASSUME TypeInv, NEW g, NEW v, g \in Guarantors => v \in VaultAccount
  PROVE  [vault EXCEPT ![g] = v] \in [Guarantors -> VaultAccount]
  BY DEF TypeInv, TypeOK

LEMMA PositionWritten ==
  ASSUME TypeInv, NEW g, NEW p, g \in Guarantors => p \in Position
  PROVE  [position EXCEPT ![g] = p] \in [Guarantors -> Position]
  BY DEF TypeInv, TypeOK

-----------------------------------------------------------------------------
(* Every action keeps the invariant                                        *)

LEMMA DepositKeeps ==
  ASSUME TypeInv, NEW t \in Tasks, NEW g \in Guarantors, NEW a \in Amounts,
         Deposit(t, g, a)
  PROVE  TypeInv'
  <1>1. PICK o \in Outcomes :
          /\ position' = IF TookEffect(o) THEN [position EXCEPT ![g] = GwDeposit(@, a)]
                                          ELSE position
          /\ task' = [task EXCEPT ![t] = [Idle EXCEPT !.at = "deposit", !.answer = o,
                                            !.guarantor = g, !.amount = a]]
    BY DEF Deposit
  <1>2. a \in Int
    BY LoanBookAssumption
  <1>3. AccountsKept
    BY <1>1, <1>2, BalanceTyped, PositionWritten
    DEF Deposit, TypeInv, TypeOK, AccountsKept
  <1>4. Fits([Idle EXCEPT !.at = "deposit", !.answer = o, !.guarantor = g, !.amount = a],
             loan')
    BY <1>2, IdleTyped, OutcomesTyped DEF Fits, TaskRecord, LoanAwaits, Awaits, RemoteAwaits
  <1> QED
    BY <1>1, <1>3, <1>4, TaskStep, SameLoans DEF Deposit

LEMMA DepositReturnsKeeps ==
  ASSUME TypeInv, NEW t \in Tasks, DepositReturns(t) PROVE TypeInv'
  <1>1. task[t].amount \in Int
    BY DEF TypeInv, TypeOK, TaskRecord
  <1>2. AccountsKept
    BY <1>1, VaultTyped, VaultWritten
    DEF DepositReturns, TypeInv, TypeOK, AccountsKept
  <1> QED
    BY <1>2, IdleFits, TaskStep, SameLoans DEF DepositReturns, Ends

LEMMA WithdrawKeeps ==
  ASSUME TypeInv, NEW t \in Tasks, NEW g \in Guarantors, NEW a \in Amounts,
         Withdraw(t, g, a)
  PROVE  TypeInv'
  <1>1. PICK o \in Outcomes :
          LET done == TookEffect(o) /\ a <= PositionAvailable(position[g])
          IN /\ position' = IF done THEN [position EXCEPT ![g] = GwWithdraw(@, a)]
                                    ELSE position
             /\ task' = [task EXCEPT ![t] =
                  [Idle EXCEPT !.at = "withdraw", !.guarantor = g, !.amount = a,
                     !.answer = IF TookEffect(o) /\ ~done THEN "refused" ELSE o]]
    BY DEF Withdraw
  <1>2. PICK w \in {"ok", "refused", "threw", "lost"} :
          task' = [task EXCEPT ![t] = [Idle EXCEPT !.at = "withdraw", !.guarantor = g,
                                         !.amount = a, !.answer = w]]
    BY <1>1, OutcomesTyped
  <1>3. a \in Int
    BY LoanBookAssumption
  <1>4. AccountsKept
    BY <1>1, <1>3, BalanceTyped, PositionWritten
    DEF Withdraw, TypeInv, TypeOK, AccountsKept
  <1>5. Fits([Idle EXCEPT !.at = "withdraw", !.guarantor = g, !.amount = a, !.answer = w],
             loan')
    BY <1>3, IdleTyped DEF Fits, TaskRecord, LoanAwaits, Awaits, RemoteAwaits
  <1> QED
    BY <1>2, <1>4, <1>5, TaskStep, SameLoans DEF Withdraw

LEMMA WithdrawReturnsKeeps ==
  ASSUME TypeInv, NEW t \in Tasks, WithdrawReturns(t) PROVE TypeInv'
  <1>1. task[t].amount \in Int
    BY DEF TypeInv, TypeOK, TaskRecord
  <1>2. AccountsKept
    BY <1>1, VaultTyped, VaultWritten
    DEF WithdrawReturns, TypeInv, TypeOK, AccountsKept
  <1> QED
    BY <1>2, IdleFits, TaskStep, SameLoans DEF WithdrawReturns, Ends

LEMMA OriginateKeeps ==
  ASSUME TypeInv, NEW t \in Tasks, NEW g \in Guarantors, NEW b \in Beneficiaries,
         NEW tm \in Terms, Originate(t, g, b, tm)
  PROVE  TypeInv'
  <1>1. PICK l \in FreshLoans :
          task' = [task EXCEPT ![t] = [Idle EXCEPT !.at = "quote", !.loan = l,
                     !.guarantor = g, !.beneficiary = b, !.terms = tm]]
    BY DEF Originate
  <1>2. Fits([Idle EXCEPT !.at = "quote", !.loan = l, !.guarantor = g,
                          !.beneficiary = b, !.terms = tm], loan)
    BY <1>1, IdleTyped DEF Fits, TaskRecord, FreshLoans, LoanAwaits, Awaits, RemoteAwaits
  <1> QED
    BY <1>1, <1>2, OnlyTask DEF Originate

LEMMA QuoteReturnsKeeps ==
  ASSUME TypeInv, NEW t \in Tasks, QuoteReturns(t) PROVE TypeInv'
  <1> DEFINE g == task[t].guarantor
             l == task[t].loan
             ln == NewLoan(g, task[t].beneficiary, task[t].terms)
  <1>1. /\ l \in LoanIds /\ g \in Guarantors
        /\ ln \in LoanRecord /\ Begun(ln)
    BY NewLoanTyped DEF QuoteReturns, Resumes, TypeInv, TypeOK, Fits
  <1>2. CASE /\ Ends(t)
             /\ UNCHANGED <<vault, position, loan, book, attested, payout, now>>
    BY <1>2, IdleFits, OnlyTask DEF Ends
  <1>3. ASSUME loan' = [loan EXCEPT ![l] = ln],
               UNCHANGED <<vault, book, attested, payout, now>>,
               NEW o \in Outcomes, NEW done \in BOOLEAN,
               position' = IF done THEN [position EXCEPT ![g] = GwLock(@, l, ln.locked)]
                                   ELSE position,
               NEW w \in {"ok", "refused", "threw", "lost"},
               task' = [task EXCEPT ![t] =
                          [Idle EXCEPT !.at = "lock", !.loan = l, !.answer = w]]
        PROVE  TypeInv'
    <2>1. LoansKept /\ loan'[l] = ln
      BY <1>1, <1>3, LoanWritten
    <2>2. BookKept
      BY <1>3, <2>1 DEF TypeInv, TypeOK, BookKept, LoansKept
    <2>3. ln.locked \in Int
      BY <1>1 DEF LoanRecord
    <2> HIDE DEF g, l, ln
    <2>4. GwLock(position[g], l, ln.locked) \in Position
      BY <1>1, <2>3, PositionTyped DEF TypeInv, TypeOK
    <2>5. AccountsKept
      BY <1>3, <2>4, PositionWritten DEF TypeInv, TypeOK, AccountsKept
    <2>6. Fits([Idle EXCEPT !.at = "lock", !.loan = l, !.answer = w], loan')
      BY <1>1, <1>3, <2>1, IdleTyped
      DEF Fits, TaskRecord, LoanAwaits, Awaits, RemoteAwaits, Begun
    <2> QED
      BY <1>3, <2>1, <2>2, <2>5, <2>6, TaskStep
  <1>4. ASSUME loan' = [loan EXCEPT ![l] = ln], NEW o \in Outcomes,
               LET done == TookEffect(o) /\ ln.locked <= PositionAvailable(position[g])
               IN /\ position' = IF done THEN [position EXCEPT ![g] = GwLock(@, l, ln.locked)]
                                         ELSE position
                  /\ task' = [task EXCEPT ![t] = [Idle EXCEPT !.at = "lock", !.loan = l,
                                !.answer = IF TookEffect(o) /\ ~done THEN "refused" ELSE o]]
        PROVE  TypeInv'
    <2> DEFINE done == TookEffect(o) /\ ln.locked <= PositionAvailable(position[g])
               w == IF TookEffect(o) /\ ~done THEN "refused" ELSE o
    <2>2. UNCHANGED <<vault, book, attested, payout, now>>
      BY DEF QuoteReturns
    <2>3. done \in BOOLEAN
      BY DEF TookEffect
    <2>4. w \in {"ok", "refused", "threw", "lost"}
      BY OutcomesTyped
    <2> HIDE DEF ln, g, l
    <2>5. /\ position' = IF done THEN [position EXCEPT ![g] = GwLock(@, l, ln.locked)]
                                ELSE position
          /\ task' = [task EXCEPT ![t] = [Idle EXCEPT !.at = "lock", !.loan = l,
                                                      !.answer = w]]
      BY <1>4
    <2> HIDE DEF done, w
    <2> QED
      BY <1>3, <1>4, <2>2, <2>3, <2>4, <2>5
  <1> QED
    BY <1>2, <1>4 DEF QuoteReturns

LEMMA LockReturnsKeeps ==
  ASSUME TypeInv, NEW t \in Tasks, LockReturns(t) PROVE TypeInv'
  <1> DEFINE l == task[t].loan
             g == loan[l].guarantor
  <1>1. l \in LoanIds /\ loan[l].status # "none" /\ loan[l].locked \in Int
    BY DEF LockReturns, Resumes, TypeInv, TypeOK, Fits, LoanAwaits, LoanRecord
  <1>2. CASE Ends(t) /\ UNCHANGED <<vault, book>>
    BY <1>2, IdleFits, OnlyTask DEF Ends, LockReturns
  <1>3. CASE LockHolds(t, l)
    <2>1. PICK o \in Outcomes : task' = [task EXCEPT ![t].at = "record", ![t].answer = o]
      BY <1>3 DEF LockReturns
    <2>2. /\ vault' = [vault EXCEPT ![g] = LockedUp(@, loan[l].locked)]
          /\ book' = book \cup {l}
          /\ UNCHANGED <<position, loan, attested, payout, now>>
      BY <1>3 DEF LockReturns
    <2>3. LoansKept /\ BookKept
      BY <1>1, <2>2, Untouched DEF TypeInv, TypeOK, BookKept
    <2> HIDE DEF g, l
    <2>4. AccountsKept
      BY <1>1, <2>2, VaultTyped, VaultWritten DEF TypeInv, TypeOK, AccountsKept
    <2> DEFINE x == [task[t] EXCEPT !.at = "record", !.answer = o]
    <2>5. task[t] \in TaskRecord /\ task[t].loan = l
      BY DEF TypeInv, TypeOK, l
    <2>6. Fits(x, loan')
      BY <1>1, <2>2, <2>5, OutcomesTyped
      DEF Fits, TaskRecord, LoanAwaits, Awaits, RemoteAwaits
    <2>7. task' = [task EXCEPT ![t] = x]
      BY <2>1, <2>5 DEF TypeInv, TypeOK, TaskRecord
    <2> QED
      BY <2>3, <2>4, <2>6, <2>7, TaskStep
  <1> QED
    BY <1>2, <1>3 DEF LockReturns

LEMMA RecordReturnsKeeps ==
  ASSUME TypeInv, NEW t \in Tasks, RecordReturns(t) PROVE TypeInv'
  <1> DEFINE l == task[t].loan
             x == [task[t] EXCEPT !.at = "disburse", !.answer = "ok", !.asOf = now]
  <1>1. task[t] \in TaskRecord /\ l \in LoanIds /\ loan[l].status # "none"
    BY DEF RecordReturns, Resumes, TypeInv, TypeOK, Fits, LoanAwaits
  <1>2. CASE Ends(t) /\ UNCHANGED payout
    BY <1>2, IdleFits, OnlyTask DEF Ends, RecordReturns
  <1>3. CASE Resolved(t)
    <2>1. Fits(x, loan)
      BY <1>1 DEF Fits, TaskRecord, LoanAwaits, Awaits, RemoteAwaits, TypeInv, TypeOK
    <2>2. task' = [task EXCEPT ![t] = x]
      BY <1>1, <1>3 DEF RecordReturns, TypeInv, TypeOK, TaskRecord
    <2>3. AccountsKept
      BY <1>3 DEF RecordReturns, TypeInv, TypeOK, AccountsKept
    <2> HIDE DEF x
    <2>4. UNCHANGED <<loan, book>>
      BY DEF RecordReturns
    <2> QED
      BY <2>1, <2>2, <2>3, <2>4, SameLoans, TaskStep
  <1> QED
    BY <1>2, <1>3 DEF RecordReturns

LEMMA DisbursementEndsKeeps ==
  ASSUME TypeInv, NEW t \in Tasks, task[t].at = "disburse",
         NEW outcome \in {"completed", "unknown"}, DisbursementEnds(t, outcome)
  PROVE  TypeInv'
  <1> DEFINE l == task[t].loan
             x == [loan[l] EXCEPT !.disbursement = outcome]
  <1>1. l \in LoanIds /\ loan[l] \in LoanRecord /\ Begun(loan[l])
    BY DEF TypeInv, TypeOK, Fits, LoanAwaits, Begun
  <1>2. x \in LoanRecord /\ Begun(x)
    BY <1>1 DEF LoanRecord, Begun
  <1>3. loan' = [loan EXCEPT ![l] = x]
    BY DEF DisbursementEnds, TypeInv, TypeOK
  <1>4. book' = book \cup {l}
    BY DEF DisbursementEnds
  <1> HIDE DEF x, l
  <1>5. LoansKept /\ loan'[l] = x
    BY <1>1, <1>2, <1>3, LoanWritten
  <1>6. BookKept
    BY <1>1, <1>2, <1>4, <1>5 DEF TypeInv, TypeOK, BookKept, LoansKept, Begun
  <1> QED
    BY <1>5, <1>6, IdleFits, SameAccounts, TaskStep DEF DisbursementEnds, Ends

LEMMA StartUnwindKeeps ==
  ASSUME TypeInv, NEW t \in Tasks, NEW l \in LoanIds, loan[l].status # "none",
         StartUnwind(t, l), UNCHANGED <<vault, loan, book, attested, payout, now>>
  PROVE  TypeInv'
  <1> DEFINE g == loan[l].guarantor
  <1>1. PICK o \in Outcomes :
          /\ position' = IF TookEffect(o)
                         THEN [position EXCEPT ![g] = GwRelease(@, l, loan[l].locked)]
                         ELSE position
          /\ task' = [task EXCEPT ![t] = [Idle EXCEPT !.at = "unwind", !.loan = l,
                                                      !.answer = o]]
    BY DEF StartUnwind
  <1>2. loan[l].locked \in Int
    BY DEF TypeInv, TypeOK, LoanRecord
  <1> HIDE DEF g
  <1>3. AccountsKept
    BY <1>1, <1>2, PositionTyped, PositionWritten DEF TypeInv, TypeOK, AccountsKept
  <1>4. Fits([Idle EXCEPT !.at = "unwind", !.loan = l, !.answer = o], loan)
    BY IdleTyped, OutcomesTyped DEF Fits, TaskRecord, LoanAwaits, Awaits, RemoteAwaits
  <1> QED
    BY <1>1, <1>3, <1>4, SameLoans, TaskStep

LEMMA DisburseKeeps ==
  ASSUME TypeInv, NEW t \in Tasks,
         DisburseReturns(t) \/ DisburseTimesOut(t) \/ DisburseRejects(t)
  PROVE  TypeInv'
  <1>1. task[t].at = "disburse"
    BY DEF DisburseReturns, DisburseTimesOut, DisburseRejects, Resumes
  <1>2. CASE DisburseReturns(t)
    BY <1>1, <1>2, DisbursementEndsKeeps DEF DisburseReturns
  <1>3. CASE DisburseTimesOut(t)
    BY <1>1, <1>3, DisbursementEndsKeeps DEF DisburseTimesOut
  <1>4. CASE DisburseRejects(t)
    <2>1. task[t].loan \in LoanIds /\ loan[task[t].loan].status # "none"
      BY <1>1 DEF TypeInv, Fits, LoanAwaits
    <2> QED
      BY <1>4, <2>1, StartUnwindKeeps DEF DisburseRejects
  <1> QED
    BY <1>2, <1>3, <1>4

LEMMA UnwindReturnsKeeps ==
  ASSUME TypeInv, NEW t \in Tasks, UnwindReturns(t) PROVE TypeInv'
  <1>1. CASE Ends(t)
    BY <1>1, IdleFits, OnlyTask DEF Ends, UnwindReturns
  <1>2. ASSUME NEW o \in Outcomes,
               task' = [task EXCEPT ![t].at = "unwindClose", ![t].answer = o]
        PROVE  TypeInv'
    <2> DEFINE x == [task[t] EXCEPT !.at = "unwindClose", !.answer = o]
    <2>1. /\ task[t] \in TaskRecord
          /\ task[t].loan \in LoanIds /\ loan[task[t].loan].status # "none"
      BY DEF UnwindReturns, Resumes, TypeInv, TypeOK, Fits, LoanAwaits
    <2>2. Fits(x, loan)
      BY <2>1, OutcomesTyped DEF Fits, TaskRecord, LoanAwaits, Awaits, RemoteAwaits
    <2>3. task' = [task EXCEPT ![t] = x]
      BY <1>2, <2>1 DEF TypeInv, TypeOK, TaskRecord
    <2> HIDE DEF x
    <2> QED
      BY <2>2, <2>3, OnlyTask DEF UnwindReturns
  <1> QED
    BY <1>1, <1>2 DEF UnwindReturns

LEMMA UnwindCloseReturnsKeeps ==
  ASSUME TypeInv, NEW t \in Tasks, UnwindCloseReturns(t) PROVE TypeInv'
  <1> DEFINE l == task[t].loan
             g == loan[l].guarantor
  <1>1. l \in LoanIds /\ loan[l].locked \in Int
    BY DEF UnwindCloseReturns, Resumes, TypeInv, TypeOK, Fits, LoanAwaits, LoanRecord
  <1>2. /\ \/ vault' = [vault EXCEPT ![g] = Released(@, loan[l].locked)]
           \/ vault' = vault
        /\ book' \subseteq book
        /\ UNCHANGED <<position, loan, attested, payout, now>>
        /\ Ends(t)
    BY DEF UnwindCloseReturns
  <1> HIDE DEF g, l
  <1>3. AccountsKept
    <2>1. g \in Guarantors => Released(vault[g], loan[l].locked) \in VaultAccount
      BY <1>1, VaultTyped DEF TypeInv, TypeOK
    <2>2. vault' \in [Guarantors -> VaultAccount]
      BY <1>2, <2>1, VaultWritten DEF TypeInv, TypeOK
    <2> QED
      BY <1>2, <2>2 DEF TypeInv, TypeOK, AccountsKept
  <1>4. LoansKept /\ BookKept
    BY <1>2, Untouched DEF TypeInv, TypeOK, BookKept
  <1> QED
    BY <1>2, <1>3, <1>4, IdleFits, TaskStep DEF Ends

LEMMA CountedOnce ==
  ASSUME NEW f \in [Installments -> Nat], NEW i
  PROVE  [f EXCEPT ![i] = @ + 1] \in [Installments -> Nat]
  <1>1. \A j \in Installments : [f EXCEPT ![i] = @ + 1][j] \in Nat
    OBVIOUS
  <1> QED
    BY <1>1

LEMMA AttestKeeps ==
  ASSUME TypeInv, NEW t \in Tasks, NEW l \in LoanIds, NEW i \in Installments,
         Attest(t, l, i)
  PROVE  TypeInv'
  <1>1. loan[l].status # "none"
    BY DEF Attest, TypeInv
  <1>2. i \in Nat
    BY InstallmentsFinite
  <1>3. Fits([Idle EXCEPT !.at = "verify", !.loan = l, !.n = i], loan)
    BY <1>1, <1>2, IdleTyped DEF Fits, TaskRecord, LoanAwaits, Awaits, RemoteAwaits
  <1> QED
    BY <1>3, OnlyTask DEF Attest

LEMMA VerifyReturnsKeeps ==
  ASSUME TypeInv, NEW t \in Tasks, VerifyReturns(t) PROVE TypeInv'
  <1> DEFINE l == task[t].loan
             i == task[t].n
             ln == WithItems(loan[l], {i}, "repaid")
             full == AllRepaid(ln)
             a == IF full THEN OutstandingCollateral(ln) ELSE CollateralRelease(ln)
  <1>1. l \in LoanIds /\ loan[l] \in LoanRecord /\ Begun(loan[l])
    BY DEF VerifyReturns, Resumes, TypeInv, TypeOK, Fits, LoanAwaits, Begun
  <1>2. ln \in LoanRecord /\ Begun(ln)
    BY <1>1, ItemsTyped
  <1>3. a \in Int /\ full \in BOOLEAN
    <2> HIDE DEF ln
    <2> QED
      BY <1>2, AmountsInt DEF Begun, AllRepaid
  <1>4. PICK o \in Outcomes :
          task' = [task EXCEPT ![t] = [Idle EXCEPT !.at = "repay", !.answer = o,
                                         !.loan = l, !.full = full, !.amount = a]]
    BY DEF VerifyReturns
  <1>5. /\ attested' = [attested EXCEPT ![l][i] = @ + 1]
        /\ loan' = [loan EXCEPT ![l] = ln]
        /\ UNCHANGED <<vault, position, book, payout, now>>
    BY DEF VerifyReturns
  <1> HIDE DEF l, i, ln, full, a
  <1>6. AccountsKept
    <2>1. attested[l] \in [Installments -> Nat]
      BY <1>1 DEF TypeInv, TypeOK
    <2> DEFINE r == [attested[l] EXCEPT ![i] = @ + 1]
    <2>2. r \in [Installments -> Nat]
      BY <2>1, CountedOnce
    <2>3. attested' = [attested EXCEPT ![l] = r]
      BY <1>5
    <2> HIDE DEF r
    <2>4. attested' \in [LoanIds -> [Installments -> Nat]]
      BY <2>2, <2>3 DEF TypeInv, TypeOK
    <2> QED
      BY <1>5, <2>4 DEF TypeInv, TypeOK, AccountsKept
  <1>7. LoansKept /\ loan'[l] = ln
    BY <1>1, <1>2, <1>5, LoanWritten
  <1>8. BookKept
    BY <1>5, <1>7 DEF TypeInv, TypeOK, BookKept, LoansKept
  <1>9. Fits([Idle EXCEPT !.at = "repay", !.answer = o, !.loan = l, !.full = full,
                          !.amount = a], loan')
    BY <1>1, <1>2, <1>3, <1>7, IdleTyped, OutcomesTyped
    DEF Fits, TaskRecord, LoanAwaits, Awaits, RemoteAwaits, Begun
  <1> QED
    BY <1>4, <1>6, <1>7, <1>8, <1>9, TaskStep

\* Storing a begun loan under its own key keeps the loans and the book in order.
LEMMA LoanStored ==
  ASSUME TypeInv, NEW l \in LoanIds, NEW x \in LoanRecord, Begun(x),
         loan' = [loan EXCEPT ![l] = x], book' = book \cup {l}
  PROVE  LoansKept /\ BookKept
  <1>1. LoansKept /\ loan'[l] = x
    BY LoanWritten
  <1> QED
    BY <1>1 DEF TypeInv, TypeOK, BookKept, LoansKept, Begun

LEMMA SettleKeeps ==
  ASSUME TypeInv, NEW t \in Tasks, task[t].loan \in LoanIds,
         NEW ln \in LoanRecord, Begun(ln), SettleInstallment(t, ln), AccountsKept
  PROVE  TypeInv'
  <1> DEFINE l == task[t].loan
             x == Settled(ln, task[t].full)
  <1>1. x \in LoanRecord /\ Begun(x)
    BY SettledTyped DEF TypeInv, TypeOK, TaskRecord
  <1>2. loan' = [loan EXCEPT ![l] = x] /\ book' = book \cup {l}
    BY DEF SettleInstallment
  <1>3. LoansKept /\ BookKept /\ loan'[l] = x
    BY <1>1, <1>2, LoanStored, LoanWritten
  <1>4. CASE Ends(t)
    BY <1>3, <1>4, IdleFits, TaskStep DEF Ends
  <1>5. ASSUME NEW o \in Outcomes,
               task' = [task EXCEPT ![t] = [Idle EXCEPT !.at = "close", !.loan = l,
                                                        !.answer = o]]
        PROVE  TypeInv'
    <2> HIDE DEF l, x
    <2>1. l \in LoanIds
      BY DEF l
    <2>2. Fits([Idle EXCEPT !.at = "close", !.loan = l, !.answer = o], loan')
      BY <1>1, <1>3, <2>1, IdleTyped, OutcomesTyped
      DEF Fits, TaskRecord, LoanAwaits, Awaits, RemoteAwaits, Begun
    <2> QED
      BY <1>3, <1>5, <2>2, TaskStep
  <1> QED
    BY <1>4, <1>5 DEF SettleInstallment

LEMMA RepayReturnsKeeps ==
  ASSUME TypeInv, NEW t \in Tasks, RepayReturns(t) PROVE TypeInv'
  <1> DEFINE l == task[t].loan
             g == loan[l].guarantor
             a == task[t].amount
  <1>1. /\ task[t] \in TaskRecord /\ l \in LoanIds /\ a \in Int
        /\ loan[l] \in LoanRecord /\ Begun(loan[l])
    BY DEF RepayReturns, Resumes, TypeInv, TypeOK, Fits, LoanAwaits, Begun, TaskRecord
  <1>2. UNCHANGED <<vault, attested, payout, now>>
    BY DEF RepayReturns
  <1>3. CASE Ends(t) /\ UNCHANGED <<position, loan, book>>
    BY <1>2, <1>3, IdleFits, OnlyTask DEF Ends
  <1>4. CASE SettleInstallment(t, loan[l]) /\ UNCHANGED position
    BY <1>1, <1>2, <1>4, SettleKeeps, SameAccounts
  <1>5. ASSUME NEW o \in Outcomes,
               position' = IF TookEffect(o) THEN [position EXCEPT ![g] = GwRelease(@, l, a)]
                                            ELSE position,
               task' = [task EXCEPT ![t].at = "release", ![t].answer = o],
               UNCHANGED <<loan, book>>
        PROVE  TypeInv'
    <2> DEFINE x == [task[t] EXCEPT !.at = "release", !.answer = o]
    <2>1. Fits(x, loan)
      BY <1>1, OutcomesTyped DEF Fits, TaskRecord, LoanAwaits, Awaits, RemoteAwaits, Begun
    <2>2. task' = [task EXCEPT ![t] = x]
      BY <1>1, <1>5 DEF TypeInv, TypeOK, TaskRecord
    <2> HIDE DEF x, l, g, a
    <2>3. g \in Guarantors => GwRelease(position[g], l, a) \in Position
      BY <1>1, PositionTyped DEF TypeInv, TypeOK
    <2>4. position' \in [Guarantors -> Position]
      BY <1>5, <2>3, PositionWritten DEF TypeInv, TypeOK
    <2>5. AccountsKept
      BY <1>2, <2>4 DEF TypeInv, TypeOK, AccountsKept
    <2> QED
      BY <1>5, <2>1, <2>2, <2>5, SameLoans, TaskStep
  <1> QED
    BY <1>3, <1>4, <1>5 DEF RepayReturns

LEMMA ReleaseReturnsKeeps ==
  ASSUME TypeInv, NEW t \in Tasks, ReleaseReturns(t) PROVE TypeInv'
  <1> DEFINE l == task[t].loan
             g == loan[l].guarantor
             a == task[t].amount
             x == [loan[l] EXCEPT !.released = @ + a]
  <1>1. /\ l \in LoanIds /\ a \in Int
        /\ loan[l] \in LoanRecord /\ Begun(loan[l])
    BY DEF ReleaseReturns, Resumes, TypeInv, TypeOK, Fits, LoanAwaits, Begun, TaskRecord
  <1>2. UNCHANGED <<position, attested, payout, now>>
    BY DEF ReleaseReturns
  <1>3. CASE Ends(t) /\ UNCHANGED <<vault, loan, book>>
    BY <1>2, <1>3, IdleFits, OnlyTask DEF Ends
  <1>4. CASE /\ vault' = [vault EXCEPT ![g] = Released(@, a)]
             /\ SettleInstallment(t, x)
    <2>1. x \in LoanRecord /\ Begun(x)
      BY <1>1, ReleasedTyped
    <2>2. SettleInstallment(t, x) /\ task[t].loan \in LoanIds
      BY <1>1, <1>4
    <2> HIDE DEF l, g, a, x
    <2>3. g \in Guarantors => Released(vault[g], a) \in VaultAccount
      BY <1>1, VaultTyped DEF TypeInv, TypeOK
    <2>4. vault' \in [Guarantors -> VaultAccount]
      BY <1>4, <2>3, VaultWritten DEF TypeInv, TypeOK
    <2>5. AccountsKept
      BY <1>2, <2>4 DEF TypeInv, TypeOK, AccountsKept
    <2> QED
      BY <2>1, <2>2, <2>5, SettleKeeps
  <1> QED
    BY <1>3, <1>4 DEF ReleaseReturns

LEMMA CloseReturnsKeeps ==
  ASSUME TypeInv, NEW t \in Tasks, CloseReturns(t) PROVE TypeInv'
  BY IdleFits, OnlyTask DEF CloseReturns, Ends

LEMMA SweepKeeps ==
  ASSUME TypeInv, NEW t \in Tasks, Sweep(t) PROVE TypeInv'
  <1>1. OpenLoans \subseteq LoanIds /\ now \in Nat
    BY DEF OpenLoans, TypeInv, TypeOK
  <1>2. Fits([Idle EXCEPT !.at = "next", !.todo = OpenLoans, !.asOf = now], loan)
    BY <1>1, IdleTyped DEF Fits, TaskRecord, LoanAwaits, Awaits, RemoteAwaits
  <1> QED
    BY <1>2, OnlyTask DEF Sweep

\* Going on with the sweep keeps the invariant whatever was done to the loan.
LEMMA ProceedsKeeps ==
  ASSUME TypeInv, NEW t \in Tasks, NEW left \in SUBSET LoanIds, Proceeds(t, left),
         LoansKept, BookKept, AccountsKept
  PROVE  TypeInv'
  <1> DEFINE x == [Idle EXCEPT !.at = "next", !.todo = left, !.asOf = task[t].asOf]
  <1>1. task[t].asOf \in Nat
    BY DEF TypeInv, TypeOK, TaskRecord
  <1>2. Fits(x, loan')
    BY <1>1, IdleTyped DEF Fits, TaskRecord, LoanAwaits, Awaits, RemoteAwaits
  <1>3. Fits(Idle, loan')
    BY IdleFits
  <1>4. PICK y : Fits(y, loan') /\ task' = [task EXCEPT ![t] = y]
    <2> HIDE DEF x
    <2>1. task' = [task EXCEPT ![t] = IF left = {} THEN Idle ELSE x]
      BY DEF Proceeds, x
    <2> QED
      BY <1>2, <1>3, <2>1
  <1> QED
    BY <1>4, TaskStep

LEMMA EvaluateClosedKeeps ==
  ASSUME TypeInv, NEW t \in Tasks, NEW l \in LoanIds, EvaluateClosed(t, l) PROVE TypeInv'
  <1>1. task[t].todo \ {l} \in SUBSET LoanIds
    BY DEF TypeInv, TypeOK, TaskRecord
  <1> QED
    BY <1>1, ProceedsKeeps, SameLoans, SameAccounts DEF EvaluateClosed

LEMMA MarkedTyped ==
  ASSUME TypeInv, NEW t \in Tasks, NEW l \in LoanIds, loan[l].status # "none"
  PROVE  Marked(t, l) \in LoanRecord /\ Begun(Marked(t, l))
  <1>1. loan[l] \in LoanRecord /\ Begun(loan[l])
    BY DEF TypeInv, TypeOK, Begun
  <1> QED
    BY <1>1, ItemsTyped DEF Marked

LEMMA EvaluateMissedKeeps ==
  ASSUME TypeInv, NEW t \in Tasks, NEW l \in LoanIds, EvaluateMissed(t, l) PROVE TypeInv'
  <1> DEFINE x == InGrace(Marked(t, l), task[t].asOf)
  <1>1. task[t].todo \ {l} \in SUBSET LoanIds /\ task[t].asOf \in Nat
    BY DEF TypeInv, TypeOK, TaskRecord
  <1>2. x \in LoanRecord /\ Begun(x)
    BY <1>1, MarkedTyped, InGraceTyped DEF EvaluateMissed
  <1>3. loan' = [loan EXCEPT ![l] = x] /\ book' = book \cup {l}
    BY DEF EvaluateMissed
  <1> HIDE DEF x
  <1>4. LoansKept /\ BookKept
    BY <1>2, <1>3, LoanStored
  <1> QED
    BY <1>1, <1>4, ProceedsKeeps, SameAccounts DEF EvaluateMissed

LEMMA EvaluateOtherKeeps ==
  ASSUME TypeInv, NEW t \in Tasks, NEW l \in LoanIds, EvaluateOther(t, l) PROVE TypeInv'
  <1>1. task[t].todo \ {l} \in SUBSET LoanIds
    BY DEF TypeInv, TypeOK, TaskRecord
  <1>2. Marked(t, l) \in LoanRecord /\ Begun(Marked(t, l))
    BY MarkedTyped DEF EvaluateOther, IsOpen
  <1>3. CASE loan' = loan
    BY <1>1, <1>3, SameLoans, SameAccounts, ProceedsKeeps DEF EvaluateOther
  <1>4. CASE loan' # loan
    <2>1. LoansKept /\ BookKept
      BY <1>2, <1>4, LoanStored DEF EvaluateOther
    <2> QED
      BY <1>1, <2>1, ProceedsKeeps, SameAccounts DEF EvaluateOther
  <1> QED
    BY <1>3, <1>4

LEMMA SettleDefaultKeeps ==
  ASSUME TypeInv, NEW t \in Tasks, NEW l \in LoanIds, NEW ln \in LoanRecord, Begun(ln),
         NEW a \in Int, NEW b \in Int, NEW left \in SUBSET LoanIds,
         SettleDefault(t, l, ln, a, b, left),
         UNCHANGED <<position, attested, payout, now>>
  PROVE  TypeInv'
  <1> DEFINE g == ln.guarantor
             x == Defaulted(ln, a, b)
  <1>1. x \in LoanRecord /\ Begun(x)
    BY DefaultedTyped
  <1>2. /\ vault' = [vault EXCEPT ![g] = VaultAfterDefault(@, a, b)]
        /\ loan' = [loan EXCEPT ![l] = x] /\ book' = book \cup {l}
    BY DEF SettleDefault
  <1>3. PICK o \in Outcomes :
          task' = [task EXCEPT ![t] = [Idle EXCEPT !.at = "liquidateClose", !.answer = o,
                                         !.todo = left, !.asOf = task[t].asOf]]
    BY DEF SettleDefault
  <1> HIDE DEF g, x
  <1>4. LoansKept /\ BookKept
    BY <1>1, <1>2, LoanStored
  <1>5. g \in Guarantors => VaultAfterDefault(vault[g], a, b) \in VaultAccount
    BY VaultTyped DEF VaultAfterDefault, TypeInv, TypeOK
  <1>6. vault' \in [Guarantors -> VaultAccount]
    BY <1>2, <1>5, VaultWritten
  <1>7. AccountsKept
    BY <1>6 DEF TypeInv, TypeOK, AccountsKept
  <1>8. task[t].asOf \in Nat
    BY DEF TypeInv, TypeOK, TaskRecord
  <1>9. Fits([Idle EXCEPT !.at = "liquidateClose", !.answer = o, !.todo = left,
                          !.asOf = task[t].asOf], loan')
    BY <1>8, IdleTyped, OutcomesTyped DEF Fits, TaskRecord, LoanAwaits, Awaits, RemoteAwaits
  <1> QED
    BY <1>3, <1>4, <1>7, <1>9, TaskStep

LEMMA EvaluateExpiredKeeps ==
  ASSUME TypeInv, NEW t \in Tasks, NEW l \in LoanIds, EvaluateExpired(t, l) PROVE TypeInv'
  <1> DEFINE ln == Marked(t, l)
             g == ln.guarantor
             held == OutstandingCollateral(ln)
             forfeited == Forfeit(OutstandingPrincipal(ln), held)
             left == task[t].todo \ {l}
  <1>1. left \in SUBSET LoanIds /\ task[t].asOf \in Nat
    BY DEF TypeInv, TypeOK, TaskRecord
  <1>2. ln \in LoanRecord /\ Begun(ln)
    BY MarkedTyped DEF EvaluateExpired, GraceExpired
  <1>3. held \in Int /\ forfeited \in Int /\ held - forfeited \in Int
    <2> HIDE DEF ln
    <2>1. held \in Int /\ OutstandingPrincipal(ln) \in Int
      BY <1>2, AmountsInt DEF Begun
    <2> HIDE DEF held
    <2>2. forfeited \in Int
      BY <2>1 DEF Forfeit, Least
    <2> HIDE DEF forfeited
    <2> QED
      BY <2>1, <2>2
  <1>4. UNCHANGED <<attested, payout, now>>
    BY DEF EvaluateExpired
  <1>5. CASE SettleDefault(t, l, ln, 0, held, left) /\ UNCHANGED position
    <2> HIDE DEF ln, held, left
    <2> QED
      BY <1>1, <1>2, <1>3, <1>4, <1>5, SettleDefaultKeeps
  <1>6. ASSUME loan' = [loan EXCEPT ![l] = ln], NEW o \in Outcomes,
               position' = IF TookEffect(o)
                           THEN [position EXCEPT ![g] = GwLiquidate(@, l, forfeited)]
                           ELSE position,
               task' = [task EXCEPT ![t] = [Idle EXCEPT !.at = "liquidate",
                          !.answer = o, !.loan = l, !.amount = forfeited,
                          !.excess = held - forfeited, !.todo = left,
                          !.asOf = task[t].asOf]],
               UNCHANGED <<vault, book>>
        PROVE  TypeInv'
    <2> HIDE DEF ln, g, held, forfeited, left
    <2>1. LoansKept /\ loan'[l] = ln
      BY <1>2, <1>6, LoanWritten
    <2>2. BookKept
      BY <1>6, <2>1 DEF TypeInv, TypeOK, BookKept, LoansKept
    <2>3. g \in Guarantors => GwLiquidate(position[g], l, forfeited) \in Position
      BY <1>3, PositionTyped DEF TypeInv, TypeOK
    <2>4. position' \in [Guarantors -> Position]
      BY <1>6, <2>3, PositionWritten DEF TypeInv, TypeOK
    <2>5. AccountsKept
      BY <1>4, <1>6, <2>4 DEF TypeInv, TypeOK, AccountsKept
    <2> DEFINE e == held - forfeited
               x == [Idle EXCEPT !.at = "liquidate", !.answer = o, !.loan = l,
                       !.amount = forfeited, !.excess = e, !.todo = left,
                       !.asOf = task[t].asOf]
    <2>6. e \in Int
      BY <1>3
    <2>7. task' = [task EXCEPT ![t] = x]
      BY <1>6
    <2> HIDE DEF e
    <2>8. Fits(x, loan')
      BY <1>1, <1>2, <1>3, <2>1, <2>6, IdleTyped, OutcomesTyped
      DEF Fits, TaskRecord, LoanAwaits, Awaits, RemoteAwaits, Begun
    <2> HIDE DEF x
    <2> QED
      BY <2>1, <2>2, <2>5, <2>7, <2>8, TaskStep
  <1> QED
    BY <1>5, <1>6 DEF EvaluateExpired

LEMMA LiquidateReturnsKeeps ==
  ASSUME TypeInv, NEW t \in Tasks, LiquidateReturns(t) PROVE TypeInv'
  <1> DEFINE l == task[t].loan
  <1>1. /\ l \in LoanIds /\ task[t].todo \in SUBSET LoanIds
        /\ task[t].amount \in Int /\ task[t].excess \in Int
        /\ loan[l] \in LoanRecord /\ Begun(loan[l])
    BY DEF LiquidateReturns, Resumes, TypeInv, TypeOK, Fits, LoanAwaits, Begun, TaskRecord
  <1>2. CASE SettleDefault(t, l, loan[l], task[t].amount, task[t].excess, task[t].todo)
    BY <1>1, <1>2, SettleDefaultKeeps DEF LiquidateReturns
  <1>3. CASE Proceeds(t, task[t].todo) /\ UNCHANGED <<vault, loan, book>>
    BY <1>1, <1>3, ProceedsKeeps, SameLoans, SameAccounts DEF LiquidateReturns
  <1> QED
    BY <1>2, <1>3 DEF LiquidateReturns

LEMMA LiquidateCloseReturnsKeeps ==
  ASSUME TypeInv, NEW t \in Tasks, LiquidateCloseReturns(t) PROVE TypeInv'
  <1>1. task[t].todo \in SUBSET LoanIds
    BY DEF TypeInv, TypeOK, TaskRecord
  <1> QED
    BY <1>1, ProceedsKeeps, SameLoans, SameAccounts DEF LiquidateCloseReturns

LEMMA ResolveKeeps ==
  ASSUME TypeInv, NEW t \in Tasks, NEW l \in LoanIds, loan[l].status # "none",
         NEW paid \in BOOLEAN, Resolve(t, l, paid), UNCHANGED <<vault, attested, payout, now>>
  PROVE  TypeInv'
  <1>1. CASE paid
    <2> DEFINE x == [loan[l] EXCEPT !.disbursement = "completed"]
    <2>0. loan[l] \in LoanRecord /\ Begun(loan[l])
      BY DEF TypeInv, TypeOK, Begun
    <2>1. x \in LoanRecord /\ Begun(x)
      BY <2>0 DEF LoanRecord, Begun
    <2>2. loan' = [loan EXCEPT ![l] = x] /\ book' = book \cup {l} /\ Ends(t)
      BY <1>1 DEF Resolve, TypeInv, TypeOK
    <2> HIDE DEF x
    <2>3. LoansKept /\ BookKept
      BY <2>1, <2>2, LoanStored
    <2>4. AccountsKept
      BY <1>1, SameAccounts DEF Resolve
    <2> QED
      BY <2>2, <2>3, <2>4, IdleFits, TaskStep DEF Ends
  <1>2. CASE ~paid
    BY <1>2, StartUnwindKeeps DEF Resolve
  <1> QED
    BY <1>1, <1>2

LEMMA ReconcilableStored == Reconcilable \subseteq book
  BY LoanBookAssumption DEF Reconcilable, UnknownDisbursements, OpenLoans

LEMMA ReconcileKeeps ==
  ASSUME TypeInv, NEW t \in Tasks, NEW l \in LoanIds, Reconcile(t, l) PROVE TypeInv'
  <1>1. loan[l].status # "none"
    BY ReconcilableStored DEF Reconcile, TypeInv
  <1> QED
    BY <1>1, ResolveKeeps DEF Reconcile

LEMMA PollStatusKeeps ==
  ASSUME TypeInv, NEW t \in Tasks, NEW l \in LoanIds, PollStatus(t, l) PROVE TypeInv'
  <1>1. loan[l].status # "none"
    BY ReconcilableStored DEF PollStatus, TypeInv
  <1>2. Fits([Idle EXCEPT !.at = "status", !.loan = l], loan)
    BY <1>1, IdleTyped DEF Fits, TaskRecord, LoanAwaits, Awaits, RemoteAwaits
  <1> QED
    BY <1>2, OnlyTask DEF PollStatus

LEMMA StatusReturnsKeeps ==
  ASSUME TypeInv, NEW t \in Tasks, StatusReturns(t) PROVE TypeInv'
  <1>1. task[t].loan \in LoanIds /\ loan[task[t].loan].status # "none"
    BY DEF StatusReturns, Resumes, TypeInv, Fits, LoanAwaits
  <1> QED
    BY <1>1, ResolveKeeps DEF StatusReturns

\* A step that leaves the tasks, the loans and the book alone.
LEMMA OutsideKeeps ==
  ASSUME TypeInv, UNCHANGED <<loan, book, task>>, AccountsKept PROVE TypeInv'
  <1>1. TypeOK'
    BY DEF TypeInv, TypeOK, AccountsKept
  <1> QED
    BY <1>1 DEF TypeInv, Fits

LEMMA PartnerDecidesKeeps ==
  ASSUME TypeInv, NEW l \in LoanIds, PartnerDecides(l) PROVE TypeInv'
  <1>1. AccountsKept
    BY DEF PartnerDecides, TypeInv, TypeOK, AccountsKept
  <1> QED
    BY <1>1, OutsideKeeps DEF PartnerDecides

LEMMA DayPassesKeeps == ASSUME TypeInv, DayPasses PROVE TypeInv'
  <1>1. AccountsKept
    BY DEF DayPasses, TypeInv, TypeOK, AccountsKept
  <1> QED
    BY <1>1, OutsideKeeps DEF DayPasses

LEMMA RequestKeeps == ASSUME TypeInv, NEW t \in Tasks, Request(t) PROVE TypeInv'
  BY DepositKeeps, WithdrawKeeps, OriginateKeeps, AttestKeeps, ReconcileKeeps,
     PollStatusKeeps, SweepKeeps
  DEF Request

LEMMA ContinueKeeps == ASSUME TypeInv, NEW t \in Tasks, Continue(t) PROVE TypeInv'
  <1>1. ASSUME NEW l \in LoanIds,
               \/ EvaluateClosed(t, l) \/ EvaluateMissed(t, l)
               \/ EvaluateOther(t, l) \/ EvaluateExpired(t, l)
        PROVE  TypeInv'
    BY <1>1, EvaluateClosedKeeps, EvaluateMissedKeeps, EvaluateOtherKeeps,
       EvaluateExpiredKeeps
  <1> QED
    BY <1>1, DepositReturnsKeeps, WithdrawReturnsKeeps, QuoteReturnsKeeps,
       LockReturnsKeeps, RecordReturnsKeeps, DisburseKeeps, UnwindReturnsKeeps,
       UnwindCloseReturnsKeeps, VerifyReturnsKeeps, RepayReturnsKeeps,
       ReleaseReturnsKeeps, CloseReturnsKeeps, LiquidateReturnsKeeps,
       LiquidateCloseReturnsKeeps, StatusReturnsKeeps
    DEF Continue

LEMMA InitTyped == ASSUME Init PROVE TypeInv
  <1>1. vault \in [Guarantors -> VaultAccount]
    BY DEF Init, VaultAccount, EmptyVault
  <1>2. position \in [Guarantors -> Position]
    BY DEF Init, Position, EmptyPosition
  <1>3. NoLoan \in LoanRecord
    BY DEF NoLoan, LoanRecord, LoanStatus
  <1>4. /\ loan \in [LoanIds -> LoanRecord]
        /\ \A l \in LoanIds : loan[l].status = "none"
    BY <1>3 DEF Init, NoLoan
  <1>5. /\ book = {} /\ now = 0
        /\ attested \in [LoanIds -> [Installments -> Nat]]
        /\ payout \in [LoanIds -> {"none", "asked", "paid", "refused"}]
    BY DEF Init
  <1>6. task \in [Tasks -> TaskRecord] /\ \A t \in Tasks : Fits(task[t], loan)
    BY IdleTyped, IdleFits DEF Init
  <1> QED
    BY <1>1, <1>2, <1>4, <1>5, <1>6 DEF TypeInv, TypeOK

\* No step of the book, whatever fails and whatever interleaves, disturbs it.
LEMMA StepTyped == ASSUME TypeInv, [Next]_vars PROVE TypeInv'
  <1>1. CASE UNCHANGED vars
    <2>1. AccountsKept /\ UNCHANGED <<loan, book, task>>
      BY <1>1, SameAccounts DEF vars
    <2> QED
      BY <2>1, OutsideKeeps
  <1>2. ASSUME NEW t \in Handlers, Request(t) PROVE TypeInv'
    BY <1>2, RequestKeeps DEF Tasks
  <1>3. CASE Sweep(Job)
    BY <1>3, SweepKeeps DEF Tasks
  <1>4. ASSUME NEW t \in Tasks, Continue(t) PROVE TypeInv'
    BY <1>4, ContinueKeeps
  <1>5. ASSUME NEW l \in LoanIds, PartnerDecides(l) PROVE TypeInv'
    BY <1>5, PartnerDecidesKeeps
  <1>6. CASE DayPasses
    BY <1>6, DayPassesKeeps
  <1> QED
    BY <1>1, <1>2, <1>3, <1>4, <1>5, <1>6 DEF Next

LEMMA AlwaysTyped == Spec => []TypeInv
  <1>1. Init => TypeInv
    BY InitTyped
  <1>2. TypeInv /\ [Next]_vars => TypeInv'
    BY StepTyped
  <1> QED
    BY <1>1, <1>2, PTL DEF Spec

\* Every variable keeps its type: the accounts, the loan objects and what the
\* suspended handlers carry across their awaits (LoanBook's actions all).
THEOREM TypesKept == Spec => []TypeOK
  <1>1. TypeInv => TypeOK
    BY DEF TypeInv
  <1> QED
    BY <1>1, AlwaysTyped, PTL

-----------------------------------------------------------------------------
(***************************************************************************)
(* That no payout the partner may still make is forgotten, however calls   *)
(* interleave, fail or are lost, and whatever an operator reconciles.      *)
(***************************************************************************)

(***************************************************************************)
(* The inductive invariant.  A request owns its loan until it has asked    *)
(* the partner: no two of them work on the same loan, nothing has been     *)
(* asked for it, and from the lock on it is stored.  A loan is unwound, or *)
(* its status looked up, only once the partner has decided.                *)
(***************************************************************************)
Originating == {"quote", "lock", "record"}

Undoing == {"unwind", "unwindClose", "status"}

Decided == {"paid", "refused"}

PayoutInv ==
    /\ \A t \in Tasks :
         /\ task[t].at \in Originating => t \in Handlers /\ payout[task[t].loan] = "none"
         /\ task[t].at = "record" => task[t].loan \in book
         /\ task[t].at \in Undoing => payout[task[t].loan] \in Decided
    /\ \A t, u \in Tasks :
         /\ task[t].at \in Originating /\ task[u].at \in Originating
         /\ task[t].loan = task[u].loan
         => t = u
    /\ \A l \in LoanIds : loan[l].status = "none" => payout[l] = "none"
    /\ PendingIsFlagged

\* What a step has to respect of the loans whose payout is pending or not begun.
BookRespected ==
    /\ \A l \in book : payout[l] \notin Decided => l \in book'
    /\ \A l \in LoanIds : payout[l] = "asked" /\ loan[l].disbursement = "unknown" =>
                             loan'[l].disbursement = "unknown"

\* A task may leave the partner's answer behind only if it came, or is flagged.
AnswerRespected(t) ==
    task[t].at = "disburse" =>
        \/ payout[task[t].loan] \in Decided
        \/ loan'[task[t].loan].disbursement = "unknown"

\* A step of one task that asks the partner for nothing.
LEMMA PayoutStep ==
  ASSUME TypeInv, PayoutInv, LoansKept, BookRespected, UNCHANGED payout,
         NEW t \in Tasks, NEW x, task' = [task EXCEPT ![t] = x], AnswerRespected(t),
         x.at \in Originating =>
           /\ t \in Handlers /\ payout[x.loan] = "none"
           /\ \A u \in Tasks \ {t} : task[u].at \in Originating => task[u].loan # x.loan,
         x.at = "record" => x.loan \in book',
         x.at \in Undoing => payout[x.loan] \in Decided
  PROVE  PayoutInv'
  <1>1. task'[t] = x /\ \A u \in Tasks \ {t} : task'[u] = task[u]
    BY DEF TypeInv, TypeOK
  <1>2. ASSUME NEW u \in Tasks
        PROVE  /\ task'[u].at \in Originating => u \in Handlers /\ payout'[task'[u].loan] = "none"
               /\ task'[u].at = "record" => task'[u].loan \in book'
               /\ task'[u].at \in Undoing => payout'[task'[u].loan] \in Decided
    <2>1. CASE u = t
      BY <1>1, <2>1
    <2>2. CASE u # t
      BY <1>1, <2>2 DEF PayoutInv, BookRespected, Originating, Decided
    <2> QED
      BY <2>1, <2>2
  <1>3. ASSUME NEW u \in Tasks, NEW w \in Tasks,
               task'[u].at \in Originating, task'[w].at \in Originating,
               task'[u].loan = task'[w].loan
        PROVE  u = w
    BY <1>1, <1>3 DEF PayoutInv
  <1>4. \A l \in LoanIds : loan'[l].status = "none" => payout'[l] = "none"
    BY DEF PayoutInv, LoansKept
  <1>5. ASSUME NEW l \in LoanIds, payout'[l] = "asked"
        PROVE  /\ l \in book'
               /\ \/ loan'[l].disbursement = "unknown"
                  \/ \E u \in Handlers : task'[u].at = "disburse" /\ task'[u].loan = l
    <2>1. l \in book'
      BY <1>5 DEF PayoutInv, PendingIsFlagged, BookRespected, Decided
    <2>2. CASE loan[l].disbursement = "unknown"
      BY <1>5, <2>1, <2>2 DEF BookRespected
    <2>3. ASSUME NEW u \in Handlers, task[u].at = "disburse", task[u].loan = l
          PROVE  \/ loan'[l].disbursement = "unknown"
                 \/ \E w \in Handlers : task'[w].at = "disburse" /\ task'[w].loan = l
      <3>1. CASE u = t
        BY <1>5, <2>3, <3>1 DEF AnswerRespected, Decided
      <3>2. CASE u # t
        BY <1>1, <2>3, <3>2 DEF Tasks
      <3> QED
        BY <3>1, <3>2
    <2> QED
      BY <1>5, <2>1, <2>2, <2>3 DEF PayoutInv, PendingIsFlagged
  <1> QED
    BY <1>2, <1>3, <1>4, <1>5 DEF PayoutInv, PendingIsFlagged

\* Most steps neither originate nor undo anything, and leave the flags alone.
LEMMA PlainStep ==
  ASSUME TypeInv, PayoutInv, LoansKept, BookRespected, UNCHANGED payout,
         NEW t \in Tasks, NEW x, task' = [task EXCEPT ![t] = x],
         x.at \notin Originating \cup Undoing, task[t].at # "disburse"
  PROVE  PayoutInv'
  BY PayoutStep DEF AnswerRespected, Originating

LEMMA SameRespected == ASSUME TypeInv, UNCHANGED <<loan, book>> PROVE LoansKept /\ BookRespected
  BY Untouched DEF BookRespected

\* Writing a loan with its flag as it was.
LEMMA WrittenRespected ==
  ASSUME TypeInv, NEW l \in LoanIds, NEW x \in LoanRecord, Begun(x),
         x.disbursement = loan[l].disbursement, loan' = [loan EXCEPT ![l] = x],
         book \subseteq book'
  PROVE  LoansKept /\ BookRespected
  <1>1. LoansKept
    BY LoanWritten
  <1>2. \A m \in LoanIds : loan'[m].disbursement = loan[m].disbursement
    BY DEF TypeInv, TypeOK
  <1> QED
    BY <1>1, <1>2 DEF BookRespected

\* Ending a handler, or suspending it at an await that is not about payouts.
LEMMA EndsStep ==
  ASSUME TypeInv, PayoutInv, LoansKept, BookRespected, UNCHANGED payout,
         NEW t \in Tasks, Ends(t), task[t].at # "disburse"
  PROVE  PayoutInv'
  BY PlainStep, IdleTyped DEF Ends, Originating, Undoing

-----------------------------------------------------------------------------
(* Deposits, withdrawals and origination                                   *)

LEMMA AccountStepsRespect ==
  ASSUME TypeInv, PayoutInv, NEW t \in Tasks,
         \/ \E g \in Guarantors, a \in Amounts : Deposit(t, g, a) \/ Withdraw(t, g, a)
         \/ DepositReturns(t) \/ WithdrawReturns(t)
  PROVE  PayoutInv'
  <1>1. LoansKept /\ BookRespected /\ UNCHANGED payout /\ task[t].at # "disburse"
    BY SameRespected DEF Deposit, Withdraw, DepositReturns, WithdrawReturns, Starts, Resumes
  <1>2. CASE Ends(t)
    BY <1>1, <1>2, EndsStep
  <1>3. ASSUME NEW g, NEW a, Deposit(t, g, a) PROVE PayoutInv'
    <2>1. PICK o : task' = [task EXCEPT ![t] = [Idle EXCEPT !.at = "deposit", !.answer = o,
                                                  !.guarantor = g, !.amount = a]]
      BY <1>3 DEF Deposit
    <2>2. [Idle EXCEPT !.at = "deposit", !.answer = o, !.guarantor = g, !.amount = a].at
            = "deposit"
      BY IdleTyped DEF TaskRecord
    <2> QED
      BY <1>1, <2>1, <2>2, PlainStep DEF Originating, Undoing
  <1>4. ASSUME NEW g, NEW a, Withdraw(t, g, a) PROVE PayoutInv'
    <2>1. PICK w : task' = [task EXCEPT ![t] = [Idle EXCEPT !.at = "withdraw",
                              !.guarantor = g, !.amount = a, !.answer = w]]
      BY <1>4 DEF Withdraw
    <2>2. [Idle EXCEPT !.at = "withdraw", !.guarantor = g, !.amount = a, !.answer = w].at
            = "withdraw"
      BY IdleTyped DEF TaskRecord
    <2> QED
      BY <1>1, <2>1, <2>2, PlainStep DEF Originating, Undoing
  <1> QED
    BY <1>2, <1>3, <1>4 DEF DepositReturns, WithdrawReturns

LEMMA OriginateRespects ==
  ASSUME TypeInv, PayoutInv, NEW t \in Handlers, NEW g \in Guarantors,
         NEW b \in Beneficiaries, NEW tm \in Terms, Originate(t, g, b, tm)
  PROVE  PayoutInv'
  <1>1. PICK l \in FreshLoans :
          task' = [task EXCEPT ![t] = [Idle EXCEPT !.at = "quote", !.loan = l,
                     !.guarantor = g, !.beneficiary = b, !.terms = tm]]
    BY DEF Originate
  <1> DEFINE x == [Idle EXCEPT !.at = "quote", !.loan = l, !.guarantor = g,
                               !.beneficiary = b, !.terms = tm]
  <1>2. x.at = "quote" /\ x.loan = l
    BY IdleTyped DEF TaskRecord
  <1>3. payout[l] = "none" /\ \A u \in Tasks : task[u].loan # l
    BY DEF FreshLoans, PayoutInv
  <1>4. LoansKept /\ BookRespected /\ UNCHANGED payout /\ AnswerRespected(t)
    BY SameRespected DEF Originate, Starts, AnswerRespected
  <1>5. t \in Tasks /\ task' = [task EXCEPT ![t] = x]
    BY <1>1 DEF Tasks
  <1> HIDE DEF x
  <1> QED
    BY <1>2, <1>3, <1>4, <1>5, PayoutStep DEF Originating, Undoing

\* A request that goes on to its next await before asking the partner.
LEMMA OriginationGoesOn ==
  ASSUME TypeInv, PayoutInv, LoansKept, BookRespected, UNCHANGED payout,
         NEW t \in Tasks, NEW x, task' = [task EXCEPT ![t] = x],
         task[t].at \in Originating, x.at \in Originating, x.loan = task[t].loan,
         x.at = "record" => x.loan \in book'
  PROVE  PayoutInv'
  <1>1. AnswerRespected(t)
    BY DEF AnswerRespected, Originating
  <1>2. /\ t \in Handlers /\ payout[x.loan] = "none"
        /\ \A u \in Tasks \ {t} : task[u].at \in Originating => task[u].loan # x.loan
    BY DEF PayoutInv
  <1> QED
    BY <1>1, <1>2, PayoutStep DEF Originating, Undoing

LEMMA QuoteReturnsRespects ==
  ASSUME TypeInv, PayoutInv, NEW t \in Tasks, QuoteReturns(t) PROVE PayoutInv'
  <1> DEFINE g == task[t].guarantor
             l == task[t].loan
             ln == NewLoan(g, task[t].beneficiary, task[t].terms)
  <1>1. task[t].at = "quote" /\ l \in LoanIds /\ payout[l] = "none"
    BY DEF QuoteReturns, Resumes, TypeInv, Fits, PayoutInv, Originating
  <1>2. ln \in LoanRecord /\ Begun(ln)
    BY <1>1, NewLoanTyped DEF TypeInv, TypeOK, Fits
  <1>3. UNCHANGED <<book, payout>>
    BY DEF QuoteReturns
  <1>4. CASE Ends(t) /\ UNCHANGED loan
    BY <1>1, <1>3, <1>4, SameRespected, EndsStep
  <1>5. ASSUME loan' = [loan EXCEPT ![l] = ln], NEW w,
               task' = [task EXCEPT ![t] = [Idle EXCEPT !.at = "lock", !.loan = l,
                                                        !.answer = w]]
        PROVE  PayoutInv'
    <2> HIDE DEF l, ln, g
    <2>1. LoansKept
      BY <1>1, <1>2, <1>5, LoanWritten
    <2>2. BookRespected
      BY <1>1, <1>3, <1>5 DEF BookRespected, TypeInv, TypeOK
    <2> DEFINE x == [Idle EXCEPT !.at = "lock", !.loan = l, !.answer = w]
    <2>3. x.at = "lock" /\ x.loan = l
      BY IdleTyped DEF TaskRecord
    <2>4. task' = [task EXCEPT ![t] = x]
      BY <1>5
    <2> HIDE DEF x
    <2> QED
      BY <1>1, <1>3, <2>1, <2>2, <2>3, <2>4, OriginationGoesOn DEF Originating, l
  <1> QED
    BY <1>4, <1>5 DEF QuoteReturns

LEMMA LockReturnsRespects ==
  ASSUME TypeInv, PayoutInv, NEW t \in Tasks, LockReturns(t) PROVE PayoutInv'
  <1> DEFINE l == task[t].loan
  <1>1. task[t].at = "lock"
    BY DEF LockReturns, Resumes
  <1>2. LoansKept /\ BookRespected /\ UNCHANGED <<loan, payout>>
    BY Untouched DEF LockReturns, BookRespected
  <1>3. CASE Ends(t)
    BY <1>1, <1>2, <1>3, EndsStep
  <1>4. ASSUME book' = book \cup {l}, NEW o,
               task' = [task EXCEPT ![t].at = "record", ![t].answer = o]
        PROVE  PayoutInv'
    <2> DEFINE x == [task[t] EXCEPT !.at = "record", !.answer = o]
    <2>1. x.at = "record" /\ x.loan = l /\ task' = [task EXCEPT ![t] = x]
      BY <1>4 DEF TypeInv, TypeOK, TaskRecord
    <2> HIDE DEF x
    <2> QED
      BY <1>1, <1>2, <1>4, <2>1, OriginationGoesOn DEF Originating
  <1> QED
    BY <1>3, <1>4 DEF LockReturns

\* The partner is asked: the loan is stored by now, and its request waits.
LEMMA RecordReturnsRespects ==
  ASSUME TypeInv, PayoutInv, NEW t \in Tasks, RecordReturns(t) PROVE PayoutInv'
  <1> DEFINE l == task[t].loan
             x == [task[t] EXCEPT !.at = "disburse", !.answer = "ok", !.asOf = now]
  <1>1. /\ task[t].at = "record" /\ l \in LoanIds /\ loan[l].status # "none"
        /\ t \in Handlers /\ l \in book
    BY DEF RecordReturns, Resumes, TypeInv, Fits, LoanAwaits, PayoutInv, Originating
  <1>2. UNCHANGED <<loan, book>>
    BY DEF RecordReturns
  <1>3. CASE Ends(t) /\ UNCHANGED payout
    BY <1>1, <1>2, <1>3, SameRespected, EndsStep
  <1>4. CASE /\ task' = [task EXCEPT ![t].at = "disburse", ![t].answer = "ok",
                                     ![t].asOf = now]
             /\ payout' = [payout EXCEPT ![l] = "asked"]
    <2>1. x.at = "disburse" /\ x.loan = l /\ task' = [task EXCEPT ![t] = x]
      BY <1>4 DEF TypeInv, TypeOK, TaskRecord
    <2> HIDE DEF x
    <2>2. task'[t] = x /\ \A u \in Tasks \ {t} : task'[u] = task[u]
      BY <2>1 DEF TypeInv, TypeOK
    <2>3. payout'[l] = "asked" /\ \A m \in LoanIds \ {l} : payout'[m] = payout[m]
      BY <1>1, <1>4 DEF TypeInv, TypeOK
    <2>4. ASSUME NEW u \in Tasks \ {t}, task[u].at \in Originating \cup Undoing
          PROVE  task[u].loan \in LoanIds \ {l}
      <3>1. task[u].loan \in LoanIds
        BY <2>4 DEF TypeInv, Fits, LoanAwaits, Originating, Undoing
      <3>2. task[u].loan # l
        BY <1>1, <2>4 DEF PayoutInv, Originating, Undoing, Decided
      <3> QED
        BY <3>1, <3>2
    <2>5. ASSUME NEW u \in Tasks
          PROVE  /\ task'[u].at \in Originating =>
                      u \in Handlers /\ payout'[task'[u].loan] = "none"
                 /\ task'[u].at = "record" => task'[u].loan \in book'
                 /\ task'[u].at \in Undoing => payout'[task'[u].loan] \in Decided
      <3>1. CASE u = t
        BY <2>1, <2>2, <3>1 DEF Originating, Undoing
      <3>2. CASE u # t
        BY <1>2, <2>2, <2>3, <2>4, <3>2 DEF PayoutInv
      <3> QED
        BY <3>1, <3>2
    <2>6. ASSUME NEW u \in Tasks, NEW w \in Tasks,
                 task'[u].at \in Originating, task'[w].at \in Originating,
                 task'[u].loan = task'[w].loan
          PROVE  u = w
      BY <2>1, <2>2, <2>6 DEF PayoutInv, Originating
    <2>7. \A m \in LoanIds : loan'[m].status = "none" => payout'[m] = "none"
      BY <1>1, <1>2, <2>3 DEF PayoutInv
    <2>8. ASSUME NEW m \in LoanIds, payout'[m] = "asked"
          PROVE  /\ m \in book'
                 /\ \/ loan'[m].disbursement = "unknown"
                    \/ \E u \in Handlers : task'[u].at = "disburse" /\ task'[u].loan = m
      <3>1. CASE m = l
        BY <1>1, <1>2, <2>1, <2>2, <3>1
      <3>2. CASE m # l
        BY <1>1, <1>2, <2>2, <2>3, <2>8, <3>2 DEF PayoutInv, PendingIsFlagged, Tasks
      <3> QED
        BY <3>1, <3>2
    <2> QED
      BY <2>5, <2>6, <2>7, <2>8 DEF PayoutInv, PendingIsFlagged
  <1> QED
    BY <1>3, <1>4 DEF RecordReturns

-----------------------------------------------------------------------------
(* The partner's answer, unwinding and reconciliation                      *)

LEMMA DisbursementEndsRespects ==
  ASSUME TypeInv, PayoutInv, NEW t \in Tasks, task[t].at = "disburse",
         NEW outcome \in {"completed", "unknown"}, DisbursementEnds(t, outcome),
         outcome = "unknown" \/ payout[task[t].loan] \in Decided
  PROVE  PayoutInv'
  <1> DEFINE l == task[t].loan
             x == [loan[l] EXCEPT !.disbursement = outcome]
  <1>1. l \in LoanIds /\ loan[l] \in LoanRecord /\ Begun(loan[l])
    BY DEF TypeInv, TypeOK, Fits, LoanAwaits, Begun
  <1>2. x \in LoanRecord /\ Begun(x) /\ x.disbursement = outcome
    BY <1>1 DEF LoanRecord, Begun
  <1>3. loan' = [loan EXCEPT ![l] = x] /\ book' = book \cup {l} /\ UNCHANGED payout
    BY DEF DisbursementEnds, TypeInv, TypeOK
  <1> HIDE DEF x
  <1>4. LoansKept /\ loan'[l] = x
    BY <1>1, <1>2, <1>3, LoanWritten
  <1>5. \A m \in LoanIds \ {l} : loan'[m] = loan[m]
    BY <1>3 DEF TypeInv, TypeOK
  <1>6. BookRespected
    BY <1>2, <1>3, <1>4, <1>5 DEF BookRespected, Decided
  <1>7. AnswerRespected(t)
    BY <1>2, <1>4 DEF AnswerRespected
  <1>8. task' = [task EXCEPT ![t] = Idle]
    BY DEF DisbursementEnds, Ends
  <1> QED
    BY <1>3, <1>4, <1>6, <1>7, <1>8, IdleTyped, PayoutStep DEF Originating, Undoing

\* A loan is unwound only once the partner has decided, here for not paying or
\* as far as the call could tell.
LEMMA StartUnwindRespects ==
  ASSUME TypeInv, PayoutInv, NEW t \in Tasks, NEW l \in LoanIds, StartUnwind(t, l),
         UNCHANGED <<loan, book, payout>>, payout[l] \in Decided,
         task[t].at = "disburse" => task[t].loan = l
  PROVE  PayoutInv'
  <1>1. PICK o : task' = [task EXCEPT ![t] = [Idle EXCEPT !.at = "unwind", !.loan = l,
                                                          !.answer = o]]
    BY DEF StartUnwind
  <1> DEFINE x == [Idle EXCEPT !.at = "unwind", !.loan = l, !.answer = o]
  <1>2. x.at = "unwind" /\ x.loan = l
    BY IdleTyped DEF TaskRecord
  <1>3. task' = [task EXCEPT ![t] = x]
    BY <1>1
  <1>4. LoansKept /\ BookRespected /\ AnswerRespected(t)
    BY SameRespected DEF AnswerRespected
  <1> HIDE DEF x
  <1> QED
    BY <1>2, <1>3, <1>4, PayoutStep DEF Originating, Undoing

LEMMA DisburseRespects ==
  ASSUME TypeInv, PayoutInv, NEW t \in Tasks,
         DisburseReturns(t) \/ DisburseTimesOut(t) \/ DisburseRejects(t)
  PROVE  PayoutInv'
  <1>1. task[t].at = "disburse" /\ task[t].loan \in LoanIds
    BY DEF DisburseReturns, DisburseTimesOut, DisburseRejects, Resumes,
           TypeInv, Fits, LoanAwaits
  <1>2. CASE DisburseReturns(t)
    BY <1>1, <1>2, DisbursementEndsRespects DEF DisburseReturns, Decided
  <1>3. CASE DisburseTimesOut(t)
    BY <1>1, <1>3, DisbursementEndsRespects DEF DisburseTimesOut
  <1>4. CASE DisburseRejects(t)
    BY <1>1, <1>4, StartUnwindRespects DEF DisburseRejects, Decided
  <1> QED
    BY <1>2, <1>3, <1>4

LEMMA UnwindReturnsRespects ==
  ASSUME TypeInv, PayoutInv, NEW t \in Tasks, UnwindReturns(t) PROVE PayoutInv'
  <1>1. /\ task[t].at = "unwind" /\ payout[task[t].loan] \in Decided
        /\ LoansKept /\ BookRespected /\ UNCHANGED payout
    BY SameRespected DEF UnwindReturns, Resumes, PayoutInv, Undoing
  <1>2. CASE Ends(t)
    BY <1>1, <1>2, EndsStep
  <1>3. ASSUME NEW o, task' = [task EXCEPT ![t].at = "unwindClose", ![t].answer = o]
        PROVE  PayoutInv'
    <2> DEFINE x == [task[t] EXCEPT !.at = "unwindClose", !.answer = o]
    <2>1. /\ x.at = "unwindClose" /\ x.loan = task[t].loan
          /\ task' = [task EXCEPT ![t] = x]
      BY <1>3 DEF TypeInv, TypeOK, TaskRecord
    <2>2. AnswerRespected(t)
      BY <1>1 DEF AnswerRespected
    <2> HIDE DEF x
    <2> QED
      BY <1>1, <2>1, <2>2, PayoutStep DEF Originating, Undoing
  <1> QED
    BY <1>2, <1>3 DEF UnwindReturns

LEMMA UnwindCloseReturnsRespects ==
  ASSUME TypeInv, PayoutInv, NEW t \in Tasks, UnwindCloseReturns(t) PROVE PayoutInv'
  <1>1. task[t].at = "unwindClose" /\ payout[task[t].loan] \in Decided
    BY DEF UnwindCloseReturns, Resumes, PayoutInv, Undoing
  <1>2. /\ book' = book \/ book' = book \ {task[t].loan}
        /\ UNCHANGED <<loan, payout>> /\ Ends(t)
    BY DEF UnwindCloseReturns
  <1>3. LoansKept /\ BookRespected
    BY <1>1, <1>2, Untouched DEF BookRespected
  <1> QED
    BY <1>1, <1>2, <1>3, EndsStep

LEMMA ResolveRespects ==
  ASSUME TypeInv, PayoutInv, NEW t \in Tasks, NEW l \in LoanIds, loan[l].status # "none",
         payout[l] \in Decided, NEW paid \in BOOLEAN, Resolve(t, l, paid),
         UNCHANGED payout, task[t].at # "disburse"
  PROVE  PayoutInv'
  <1>1. CASE paid
    <2> DEFINE x == [loan[l] EXCEPT !.disbursement = "completed"]
    <2>1. loan[l] \in LoanRecord /\ Begun(loan[l])
      BY DEF TypeInv, TypeOK, Begun
    <2>2. x \in LoanRecord /\ Begun(x)
      BY <2>1 DEF LoanRecord, Begun
    <2>3. loan' = [loan EXCEPT ![l] = x] /\ book' = book \cup {l} /\ Ends(t)
      BY <1>1 DEF Resolve, TypeInv, TypeOK
    <2> HIDE DEF x
    <2>4. LoansKept
      BY <2>2, <2>3, LoanWritten
    <2>5. \A m \in LoanIds \ {l} : loan'[m] = loan[m]
      BY <2>3 DEF TypeInv, TypeOK
    <2>6. BookRespected
      BY <2>3, <2>5 DEF BookRespected, Decided
    <2> QED
      BY <2>3, <2>4, <2>6, EndsStep
  <1>2. CASE ~paid
    BY <1>2, StartUnwindRespects DEF Resolve
  <1> QED
    BY <1>1, <1>2

LEMMA ReconcileStepsRespect ==
  ASSUME TypeInv, PayoutInv, NEW t \in Tasks,
         \/ \E l \in LoanIds : Reconcile(t, l) \/ PollStatus(t, l)
         \/ StatusReturns(t)
  PROVE  PayoutInv'
  <1>1. ASSUME NEW l \in LoanIds, Reconcile(t, l) PROVE PayoutInv'
    <2>1. loan[l].status # "none" /\ payout[l] \in Decided
      BY <1>1, ReconcilableStored DEF Reconcile, TypeInv, Decided
    <2> QED
      BY <1>1, <2>1, ResolveRespects DEF Reconcile, Starts
  <1>2. ASSUME NEW l \in LoanIds, PollStatus(t, l) PROVE PayoutInv'
    <2> DEFINE x == [Idle EXCEPT !.at = "status", !.loan = l]
    <2>1. x.at = "status" /\ x.loan = l
      BY IdleTyped DEF TaskRecord
    <2>2. /\ payout[l] \in Decided /\ task' = [task EXCEPT ![t] = x]
          /\ LoansKept /\ BookRespected /\ UNCHANGED payout /\ AnswerRespected(t)
      BY <1>2, SameRespected DEF PollStatus, Starts, AnswerRespected, Decided
    <2> HIDE DEF x
    <2> QED
      BY <2>1, <2>2, PayoutStep DEF Originating, Undoing
  <1>3. CASE StatusReturns(t)
    <2>1. /\ task[t].at = "status" /\ payout[task[t].loan] \in Decided
          /\ task[t].loan \in LoanIds /\ loan[task[t].loan].status # "none"
      BY <1>3 DEF StatusReturns, Resumes, PayoutInv, Undoing, TypeInv, Fits, LoanAwaits
    <2> QED
      BY <1>3, <2>1, ResolveRespects DEF StatusReturns
  <1> QED
    BY <1>1, <1>2, <1>3

-----------------------------------------------------------------------------
(* Attestations                                                            *)

LEMMA AttestRespects ==
  ASSUME TypeInv, PayoutInv, NEW t \in Tasks, NEW l \in LoanIds, NEW i \in Installments,
         Attest(t, l, i)
  PROVE  PayoutInv'
  <1> DEFINE x == [Idle EXCEPT !.at = "verify", !.loan = l, !.n = i]
  <1>1. x.at = "verify"
    BY IdleTyped DEF TaskRecord
  <1>2. task' = [task EXCEPT ![t] = x] /\ UNCHANGED <<loan, book, payout>>
        /\ task[t].at # "disburse"
    BY DEF Attest, Starts
  <1> HIDE DEF x
  <1> QED
    BY <1>1, <1>2, SameRespected, PlainStep DEF Originating, Undoing

\* What is done to a loan outside origination leaves its flag alone.
LEMMA FlagKept ==
  ASSUME NEW ln \in LoanRecord
  PROVE  /\ \A S : \A s \in {"absent", "pending", "overdue", "repaid"} :
              WithItems(ln, S, s).disbursement = ln.disbursement
         /\ \A a \in Int : [ln EXCEPT !.released = @ + a].disbursement = ln.disbursement
         /\ \A full \in BOOLEAN : Settled(ln, full).disbursement = ln.disbursement
         /\ \A d \in Nat : InGrace(ln, d).disbursement = ln.disbursement
  <1>1. \A S : \A s \in {"absent", "pending", "overdue", "repaid"} :
          WithItems(ln, S, s).disbursement = ln.disbursement
    BY DEF WithItems, LoanRecord
  <1>2. \A a \in Int : [ln EXCEPT !.released = @ + a].disbursement = ln.disbursement
    BY DEF LoanRecord
  <1>3. \A full \in BOOLEAN : Settled(ln, full).disbursement = ln.disbursement
    BY DEF Settled, LoanRecord
  <1>4. \A d \in Nat : InGrace(ln, d).disbursement = ln.disbursement
    BY DEF InGrace, LoanRecord
  <1> QED
    BY <1>1, <1>2, <1>3, <1>4

LEMMA DefaultedFlagKept ==
  ASSUME NEW ln \in LoanRecord, Begun(ln), NEW a \in Int, NEW b \in Int
  PROVE  Defaulted(ln, a, b).disbursement = ln.disbursement
  <1> DEFINE x == WithItems(ln, ItemsIn(ln, "pending"), "overdue")
  <1>1. x \in LoanRecord /\ x.disbursement = ln.disbursement
    BY ItemsTyped, FlagKept
  <1> HIDE DEF x
  <1>2. [x EXCEPT !.status = "defaulted", !.graceEnds = NoDeadline,
                  !.forfeited = @ + a, !.released = @ + b].disbursement = ln.disbursement
    BY <1>1 DEF LoanRecord
  <1> QED
    BY <1>2 DEF Defaulted, x

LEMMA VerifyReturnsRespects ==
  ASSUME TypeInv, PayoutInv, NEW t \in Tasks, VerifyReturns(t) PROVE PayoutInv'
  <1> DEFINE l == task[t].loan
             ln == WithItems(loan[l], {task[t].n}, "repaid")
             full == AllRepaid(ln)
             a == IF full THEN OutstandingCollateral(ln) ELSE CollateralRelease(ln)
  <1>1. l \in LoanIds /\ loan[l] \in LoanRecord /\ Begun(loan[l]) /\ task[t].at = "verify"
    BY DEF VerifyReturns, Resumes, TypeInv, TypeOK, Fits, LoanAwaits, Begun
  <1>2. ln \in LoanRecord /\ Begun(ln) /\ ln.disbursement = loan[l].disbursement
    BY <1>1, ItemsTyped, FlagKept
  <1>3. loan' = [loan EXCEPT ![l] = ln] /\ UNCHANGED <<book, payout>>
    BY DEF VerifyReturns
  <1>4. PICK o \in Outcomes :
          task' = [task EXCEPT ![t] = [Idle EXCEPT !.at = "repay", !.answer = o,
                                         !.loan = l, !.full = full, !.amount = a]]
    BY DEF VerifyReturns
  <1> DEFINE x == [Idle EXCEPT !.at = "repay", !.answer = o, !.loan = l, !.full = full,
                               !.amount = a]
  <1>5. x.at = "repay"
    BY IdleTyped DEF TaskRecord
  <1>6. task' = [task EXCEPT ![t] = x]
    BY <1>4
  <1> HIDE DEF x, ln, full, a
  <1>7. LoansKept /\ BookRespected
    BY <1>1, <1>2, <1>3, WrittenRespected
  <1> QED
    BY <1>1, <1>3, <1>5, <1>6, <1>7, PlainStep DEF Originating, Undoing

LEMMA SettleRespects ==
  ASSUME TypeInv, PayoutInv, NEW t \in Tasks, task[t].loan \in LoanIds,
         task[t].at # "disburse", UNCHANGED payout,
         NEW ln \in LoanRecord, Begun(ln), SettleInstallment(t, ln),
         ln.disbursement = loan[task[t].loan].disbursement
  PROVE  PayoutInv'
  <1> DEFINE l == task[t].loan
             x == Settled(ln, task[t].full)
  <1>1. x \in LoanRecord /\ Begun(x) /\ x.disbursement = loan[l].disbursement
    BY SettledTyped, FlagKept DEF TypeInv, TypeOK, TaskRecord
  <1>2. loan' = [loan EXCEPT ![l] = x] /\ book' = book \cup {l}
    BY DEF SettleInstallment
  <1> HIDE DEF x
  <1>3. LoansKept /\ BookRespected
    BY <1>1, <1>2, WrittenRespected
  <1>4. CASE Ends(t)
    BY <1>3, <1>4, EndsStep
  <1>5. ASSUME NEW o, task' = [task EXCEPT ![t] = [Idle EXCEPT !.at = "close", !.loan = l,
                                                              !.answer = o]]
        PROVE  PayoutInv'
    <2> DEFINE y == [Idle EXCEPT !.at = "close", !.loan = l, !.answer = o]
    <2>1. y.at = "close" /\ task' = [task EXCEPT ![t] = y]
      BY <1>5, IdleTyped DEF TaskRecord
    <2> HIDE DEF y
    <2> QED
      BY <1>3, <2>1, PlainStep DEF Originating, Undoing
  <1> QED
    BY <1>4, <1>5 DEF SettleInstallment

LEMMA RepayReturnsRespects ==
  ASSUME TypeInv, PayoutInv, NEW t \in Tasks, RepayReturns(t) PROVE PayoutInv'
  <1>1. /\ task[t].loan \in LoanIds /\ task[t].at = "repay" /\ UNCHANGED payout
        /\ loan[task[t].loan] \in LoanRecord /\ Begun(loan[task[t].loan])
    BY DEF RepayReturns, Resumes, TypeInv, TypeOK, Fits, LoanAwaits, Begun
  <1>2. CASE Ends(t) /\ UNCHANGED <<loan, book>>
    BY <1>1, <1>2, SameRespected, EndsStep
  <1>3. CASE SettleInstallment(t, loan[task[t].loan])
    BY <1>1, <1>3, SettleRespects
  <1>4. ASSUME NEW o, task' = [task EXCEPT ![t].at = "release", ![t].answer = o],
               UNCHANGED <<loan, book>>
        PROVE  PayoutInv'
    <2> DEFINE x == [task[t] EXCEPT !.at = "release", !.answer = o]
    <2>1. x.at = "release" /\ task' = [task EXCEPT ![t] = x]
      BY <1>4 DEF TypeInv, TypeOK, TaskRecord
    <2> HIDE DEF x
    <2> QED
      BY <1>1, <1>4, <2>1, SameRespected, PlainStep DEF Originating, Undoing
  <1> QED
    BY <1>2, <1>3, <1>4 DEF RepayReturns

LEMMA ReleaseReturnsRespects ==
  ASSUME TypeInv, PayoutInv, NEW t \in Tasks, ReleaseReturns(t) PROVE PayoutInv'
  <1> DEFINE l == task[t].loan
             x == [loan[l] EXCEPT !.released = @ + task[t].amount]
  <1>1. /\ l \in LoanIds /\ task[t].amount \in Int /\ task[t].at = "release"
        /\ loan[l] \in LoanRecord /\ Begun(loan[l]) /\ UNCHANGED payout
    BY DEF ReleaseReturns, Resumes, TypeInv, TypeOK, Fits, LoanAwaits, Begun, TaskRecord
  <1>2. CASE Ends(t) /\ UNCHANGED <<loan, book>>
    BY <1>1, <1>2, SameRespected, EndsStep
  <1>3. CASE SettleInstallment(t, x)
    <2>1. x \in LoanRecord /\ Begun(x) /\ x.disbursement = loan[l].disbursement
      BY <1>1, ReleasedTyped, FlagKept
    <2> HIDE DEF x
    <2> QED
      BY <1>1, <1>3, <2>1, SettleRespects
  <1> QED
    BY <1>2, <1>3 DEF ReleaseReturns

LEMMA CloseReturnsRespects ==
  ASSUME TypeInv, PayoutInv, NEW t \in Tasks, CloseReturns(t) PROVE PayoutInv'
  BY SameRespected, EndsStep DEF CloseReturns, Resumes

-----------------------------------------------------------------------------
(* The sweep                                                               *)

LEMMA SweepRespects ==
  ASSUME TypeInv, PayoutInv, NEW t \in Tasks, Sweep(t) PROVE PayoutInv'
  <1> DEFINE x == [Idle EXCEPT !.at = "next", !.todo = OpenLoans, !.asOf = now]
  <1>1. x.at = "next"
    BY IdleTyped DEF TaskRecord
  <1>2. task' = [task EXCEPT ![t] = x] /\ UNCHANGED <<loan, book, payout>>
        /\ task[t].at # "disburse"
    BY DEF Sweep, Starts
  <1> HIDE DEF x
  <1> QED
    BY <1>1, <1>2, SameRespected, PlainStep DEF Originating, Undoing

LEMMA ProceedsStep ==
  ASSUME TypeInv, PayoutInv, LoansKept, BookRespected, UNCHANGED payout,
         NEW t \in Tasks, NEW left, Proceeds(t, left), task[t].at # "disburse"
  PROVE  PayoutInv'
  <1> DEFINE x == [Idle EXCEPT !.at = "next", !.todo = left, !.asOf = task[t].asOf]
  <1>1. x.at = "next"
    BY IdleTyped DEF TaskRecord
  <1>2. CASE left = {}
    BY <1>2, EndsStep DEF Proceeds, Ends
  <1>3. CASE left # {}
    <2>1. task' = [task EXCEPT ![t] = x]
      BY <1>3 DEF Proceeds
    <2> HIDE DEF x
    <2> QED
      BY <1>1, <2>1, PlainStep DEF Originating, Undoing
  <1> QED
    BY <1>2, <1>3

LEMMA SettleDefaultRespects ==
  ASSUME TypeInv, PayoutInv, NEW t \in Tasks, NEW l \in LoanIds, NEW ln \in LoanRecord,
         Begun(ln), ln.disbursement = loan[l].disbursement,
         NEW a \in Int, NEW b \in Int, NEW left \in SUBSET LoanIds,
         SettleDefault(t, l, ln, a, b, left), UNCHANGED payout,
         task[t].at # "disburse"
  PROVE  PayoutInv'
  <1> DEFINE x == Defaulted(ln, a, b)
  <1>1. x \in LoanRecord /\ Begun(x) /\ x.disbursement = loan[l].disbursement
    BY DefaultedTyped, DefaultedFlagKept
  <1>2. loan' = [loan EXCEPT ![l] = x] /\ book' = book \cup {l}
    BY DEF SettleDefault
  <1> HIDE DEF x
  <1>3. LoansKept /\ BookRespected
    BY <1>1, <1>2, WrittenRespected
  <1>4. PICK o : task' = [task EXCEPT ![t] = [Idle EXCEPT !.at = "liquidateClose",
                            !.answer = o, !.todo = left, !.asOf = task[t].asOf]]
    BY DEF SettleDefault
  <1> DEFINE y == [Idle EXCEPT !.at = "liquidateClose", !.answer = o, !.todo = left,
                               !.asOf = task[t].asOf]
  <1>5. y.at = "liquidateClose"
    BY IdleTyped DEF TaskRecord
  <1>6. task' = [task EXCEPT ![t] = y]
    BY <1>4
  <1> HIDE DEF y
  <1> QED
    BY <1>3, <1>5, <1>6, PlainStep DEF Originating, Undoing

LEMMA EvaluateRespects ==
  ASSUME TypeInv, PayoutInv, NEW t \in Tasks, NEW l \in LoanIds,
         \/ EvaluateClosed(t, l) \/ EvaluateMissed(t, l) \/ EvaluateOther(t, l)
  PROVE  PayoutInv'
  <1>1. task[t].at # "disburse" /\ UNCHANGED payout /\ Proceeds(t, task[t].todo \ {l})
    BY DEF EvaluateClosed, EvaluateMissed, EvaluateOther, Evaluates, Resumes
  <1>2. loan[l] \in LoanRecord /\ task[t].asOf \in Nat
    BY DEF TypeInv, TypeOK, TaskRecord
  <1>3. CASE UNCHANGED loan /\ book' = book
    BY <1>1, <1>3, SameRespected, ProceedsStep
  <1>4. CASE EvaluateMissed(t, l)
    <2> DEFINE x == InGrace(Marked(t, l), task[t].asOf)
    <2>1. Marked(t, l) \in LoanRecord /\ Begun(Marked(t, l))
          /\ Marked(t, l).disbursement = loan[l].disbursement
      BY <1>2, <1>4, MarkedTyped, FlagKept DEF EvaluateMissed, Marked
    <2>2. x \in LoanRecord /\ Begun(x) /\ x.disbursement = loan[l].disbursement
      BY <1>2, <2>1, InGraceTyped, FlagKept
    <2>3. loan' = [loan EXCEPT ![l] = x] /\ book \subseteq book'
      BY <1>4 DEF EvaluateMissed
    <2> HIDE DEF x
    <2> QED
      BY <1>1, <2>2, <2>3, WrittenRespected, ProceedsStep
  <1>5. CASE EvaluateOther(t, l)
    <2>1. Marked(t, l) \in LoanRecord /\ Begun(Marked(t, l))
          /\ Marked(t, l).disbursement = loan[l].disbursement
      BY <1>2, <1>5, MarkedTyped, FlagKept DEF EvaluateOther, IsOpen, Marked
    <2>2. loan' = [loan EXCEPT ![l] = Marked(t, l)] /\ book \subseteq book'
      BY <1>5 DEF EvaluateOther
    <2> QED
      BY <1>1, <2>1, <2>2, WrittenRespected, ProceedsStep
  <1> QED
    BY <1>3, <1>4, <1>5 DEF EvaluateClosed

LEMMA EvaluateExpiredRespects ==
  ASSUME TypeInv, PayoutInv, NEW t \in Tasks, NEW l \in LoanIds, EvaluateExpired(t, l)
  PROVE  PayoutInv'
  <1> DEFINE ln == Marked(t, l)
             held == OutstandingCollateral(ln)
             forfeited == Forfeit(OutstandingPrincipal(ln), held)
             left == task[t].todo \ {l}
  <1>1. ln \in LoanRecord /\ Begun(ln) /\ ln.disbursement = loan[l].disbursement
    <2>1. loan[l] \in LoanRecord
      BY DEF TypeInv, TypeOK
    <2> QED
      BY <2>1, MarkedTyped, FlagKept DEF EvaluateExpired, GraceExpired, Marked
  <1>2. held \in Int
    BY <1>1, AmountsInt
  <1>3. UNCHANGED payout /\ task[t].at # "disburse" /\ left \in SUBSET LoanIds
    BY DEF EvaluateExpired, Evaluates, Resumes, TypeInv, TypeOK, TaskRecord
  <1>4. CASE SettleDefault(t, l, ln, 0, held, left)
    <2> HIDE DEF ln, held, left
    <2> QED
      BY <1>1, <1>2, <1>3, <1>4, SettleDefaultRespects
  <1>5. ASSUME loan' = [loan EXCEPT ![l] = ln], UNCHANGED book, NEW o \in Outcomes,
               task' = [task EXCEPT ![t] = [Idle EXCEPT !.at = "liquidate",
                          !.answer = o, !.loan = l, !.amount = forfeited,
                          !.excess = held - forfeited, !.todo = left,
                          !.asOf = task[t].asOf]]
        PROVE  PayoutInv'
    <2> HIDE DEF ln, held, forfeited, left
    <2> DEFINE x == [Idle EXCEPT !.at = "liquidate", !.answer = o, !.loan = l,
                       !.amount = forfeited, !.excess = held - forfeited,
                       !.todo = left, !.asOf = task[t].asOf]
    <2>1. x.at = "liquidate"
      BY IdleTyped DEF TaskRecord
    <2>2. task' = [task EXCEPT ![t] = x]
      BY <1>5
    <2> HIDE DEF x
    <2>3. LoansKept /\ BookRespected
      BY <1>1, <1>5, WrittenRespected
    <2> QED
      BY <1>3, <2>1, <2>2, <2>3, PlainStep DEF Originating, Undoing
  <1> QED
    BY <1>4, <1>5 DEF EvaluateExpired

LEMMA LiquidateStepsRespect ==
  ASSUME TypeInv, PayoutInv, NEW t \in Tasks,
         LiquidateReturns(t) \/ LiquidateCloseReturns(t)
  PROVE  PayoutInv'
  <1>1. task[t].at # "disburse" /\ UNCHANGED payout
    BY DEF LiquidateReturns, LiquidateCloseReturns, Resumes
  <1>2. CASE Proceeds(t, task[t].todo) /\ UNCHANGED <<loan, book>>
    BY <1>1, <1>2, SameRespected, ProceedsStep
  <1>3. CASE LiquidateReturns(t)
    <2>1. /\ task[t].loan \in LoanIds /\ task[t].todo \in SUBSET LoanIds
          /\ task[t].amount \in Int /\ task[t].excess \in Int
          /\ loan[task[t].loan] \in LoanRecord /\ Begun(loan[task[t].loan])
      BY <1>3 DEF LiquidateReturns, Resumes, TypeInv, TypeOK, Fits, LoanAwaits, Begun,
                  TaskRecord
    <2> QED
      BY <1>1, <1>2, <1>3, <2>1, SettleDefaultRespects DEF LiquidateReturns
  <1> QED
    BY <1>2, <1>3 DEF LiquidateCloseReturns

-----------------------------------------------------------------------------
(* The partner and the clock, and the theorem                              *)

LEMMA PartnerDecidesRespects ==
  ASSUME TypeInv, PayoutInv, NEW l \in LoanIds, PartnerDecides(l) PROVE PayoutInv'
  <1>1. /\ payout[l] = "asked" /\ payout' \in [LoanIds -> {"none", "asked", "paid", "refused"}]
        /\ payout'[l] \in Decided
        /\ \A m \in LoanIds \ {l} : payout'[m] = payout[m]
        /\ UNCHANGED <<loan, book, task>>
    BY DEF PartnerDecides, TypeInv, TypeOK, Decided
  <1>2. ASSUME NEW u \in Tasks, task[u].at \in Originating \cup Undoing
        PROVE  task[u].loan \in LoanIds \ {l}
    <2>1. task[u].loan \in LoanIds
      BY <1>2 DEF TypeInv, Fits, LoanAwaits, Originating, Undoing
    <2>2. task[u].loan # l
      BY <1>1, <1>2 DEF PayoutInv, Decided
    <2> QED
      BY <2>1, <2>2
  <1>3. \A u \in Tasks :
          /\ task'[u].at \in Originating => u \in Handlers /\ payout'[task'[u].loan] = "none"
          /\ task'[u].at = "record" => task'[u].loan \in book'
          /\ task'[u].at \in Undoing => payout'[task'[u].loan] \in Decided
    BY <1>1, <1>2 DEF PayoutInv
  <1>4. \A m \in LoanIds : loan'[m].status = "none" => payout'[m] = "none"
    BY <1>1 DEF PayoutInv
  <1>5. PendingIsFlagged'
    BY <1>1 DEF PayoutInv, PendingIsFlagged, Decided
  <1> QED
    BY <1>1, <1>3, <1>4, <1>5 DEF PayoutInv

LEMMA NothingRespects ==
  ASSUME PayoutInv, UNCHANGED <<loan, book, payout, task>> PROVE PayoutInv'
  BY DEF PayoutInv, PendingIsFlagged

LEMMA PayoutStart == ASSUME Init PROVE PayoutInv
  <1>1. \A t \in Tasks : task[t] = Idle
    BY DEF Init
  <1>2. \A l \in LoanIds : loan[l].status = "none" /\ payout[l] = "none"
    BY DEF Init, NoLoan
  <1> QED
    BY <1>1, <1>2, IdleTyped DEF PayoutInv, PendingIsFlagged, Originating, Undoing

LEMMA PayoutKept == ASSUME TypeInv, PayoutInv, [Next]_vars PROVE PayoutInv'
  <1>1. ASSUME NEW t \in Handlers, Request(t) PROVE PayoutInv'
    <2>1. t \in Tasks
      BY DEF Tasks
    <2> QED
      BY <1>1, <2>1, AccountStepsRespect, OriginateRespects, AttestRespects,
         ReconcileStepsRespect, SweepRespects
      DEF Request
  <1>2. ASSUME NEW t \in Tasks, Continue(t) PROVE PayoutInv'
    <2>1. ASSUME NEW l \in LoanIds,
                 \/ EvaluateClosed(t, l) \/ EvaluateMissed(t, l)
                 \/ EvaluateOther(t, l) \/ EvaluateExpired(t, l)
          PROVE  PayoutInv'
      BY <2>1, EvaluateRespects, EvaluateExpiredRespects
    <2> QED
      BY <1>2, <2>1, AccountStepsRespect, QuoteReturnsRespects, LockReturnsRespects,
         RecordReturnsRespects, DisburseRespects, UnwindReturnsRespects,
         UnwindCloseReturnsRespects, VerifyReturnsRespects, RepayReturnsRespects,
         ReleaseReturnsRespects, CloseReturnsRespects, LiquidateStepsRespect,
         ReconcileStepsRespect
      DEF Continue
  <1>3. CASE Sweep(Job)
    BY <1>3, SweepRespects DEF Tasks
  <1>4. ASSUME NEW l \in LoanIds, PartnerDecides(l) PROVE PayoutInv'
    BY <1>4, PartnerDecidesRespects
  <1>5. CASE DayPasses \/ UNCHANGED vars
    BY <1>5, NothingRespects DEF DayPasses, vars
  <1> QED
    BY <1>1, <1>2, <1>3, <1>4, <1>5 DEF Next

\* While the partner may still pay a loan out, the loan is stored, and either
\* its request still waits for the answer or it is flagged as unknown, so that
\* listUnknownDisbursements shows it to an operator.
THEOREM PayoutsNotForgotten == Spec => []PendingIsFlagged
  <1>1. Init => PayoutInv
    BY PayoutStart
  <1>2. TypeInv /\ PayoutInv /\ [Next]_vars => PayoutInv'
    BY PayoutKept
  <1>3. PayoutInv => PendingIsFlagged
    BY DEF PayoutInv
  <1> QED
    BY <1>1, <1>2, <1>3, AlwaysTyped, PTL DEF Spec

-----------------------------------------------------------------------------
(***************************************************************************)
(* What holds of every loan and vault however the handlers interleave: no  *)
(* default before its time, no installment attested twice, no vault owing  *)
(* more than it holds, no loan unwound that was paid out.                  *)
(***************************************************************************)

-----------------------------------------------------------------------------
(* What a step may do, one loan, vault or task at a time                   *)

\* What the sweep, in the slot t, makes of the loan l.
SweptTo(t, l) ==
    /\ task[t].at = "next" /\ loan[l].status # "none"
    /\ \/ /\ loan[l].status = "active"
          /\ ItemsIn(Marked(t, l), "overdue") # {}
          /\ loan'[l] = InGrace(Marked(t, l), task[t].asOf)
       \/ /\ IsOpen(loan[l])
          /\ loan[l].status = "active" => ItemsIn(Marked(t, l), "overdue") = {}
          /\ loan'[l] = Marked(t, l)
       \/ /\ GraceExpired(t, l)
          /\ Forfeit(OutstandingPrincipal(Marked(t, l)), OutstandingCollateral(Marked(t, l))) = 0
          /\ loan'[l] = Defaulted(Marked(t, l), 0, OutstandingCollateral(Marked(t, l)))

\* What a handler other than the sweep makes of the loan it has in hand.
HandledTo(t, l) ==
    /\ task[t].loan = l
    /\ \/ /\ task[t].at = "quote" /\ task'[t].at = "lock"
          /\ loan'[l] = NewLoan(task[t].guarantor, task[t].beneficiary, task[t].terms)
       \/ /\ task[t].at = "verify" /\ task'[t].at = "repay"
          /\ loan'[l] = WithItems(loan[l], {task[t].n}, "repaid")
       \/ /\ task[t].at = "repay" /\ task'[t].at \in {"idle", "close"}
          /\ task[t].amount = 0
          /\ loan'[l] = Settled(loan[l], task[t].full)
       \/ /\ task[t].at = "release" /\ task'[t].at \in {"idle", "close"}
          /\ loan'[l] = Settled([loan[l] EXCEPT !.released = @ + task[t].amount],
                                task[t].full)
       \/ /\ task[t].at = "liquidate" /\ task'[t].at = "liquidateClose"
          /\ loan'[l] = Defaulted(loan[l], task[t].amount, task[t].excess)

\* A disbursement's outcome is noted, by its request or an operator's.
FlaggedTo(t, l) ==
    /\ loan[l].status # "none"
    /\ \/ /\ task[t].at \in {"disburse", "status"} /\ task[t].loan = l
          /\ task'[t].at = "idle"
       \/ task[t].at = "idle" /\ l \in Reconcilable
    /\ \E o \in {"completed", "unknown"} : loan'[l] = [loan[l] EXCEPT !.disbursement = o]

LoanMoves(l) ==
    \/ loan'[l] = loan[l]
    \/ \E t \in Tasks : HasTurn(t) /\ (SweptTo(t, l) \/ HandledTo(t, l) \/ FlaggedTo(t, l))

\* One loan is written: every other stays, and it is what was written.
LEMMA OneLoanWritten ==
  ASSUME TypeInv, NEW m \in LoanIds, NEW x, loan' = [loan EXCEPT ![m] = x]
  PROVE  loan'[m] = x /\ \A l \in LoanIds \ {m} : loan'[l] = loan[l]
  BY DEF TypeInv, TypeOK

LEMMA OneLoanFlagged ==
  ASSUME TypeInv, NEW m \in LoanIds, NEW o, loan' = [loan EXCEPT ![m].disbursement = o]
  PROVE  /\ loan'[m] = [loan[m] EXCEPT !.disbursement = o]
         /\ \A l \in LoanIds \ {m} : loan'[l] = loan[l]
  BY DEF TypeInv, TypeOK

\* So every loan moves if that one does.
LEMMA OneLoanMoves ==
  ASSUME NEW t \in Tasks, HasTurn(t), NEW m \in LoanIds,
         \A k \in LoanIds \ {m} : loan'[k] = loan[k],
         SweptTo(t, m) \/ HandledTo(t, m) \/ FlaggedTo(t, m), NEW l \in LoanIds
  PROVE  LoanMoves(l)
  <1>1. CASE l = m
    BY <1>1 DEF LoanMoves
  <1>2. CASE l # m
    BY <1>2 DEF LoanMoves
  <1> QED
    BY <1>1, <1>2

\* Where the handlers that write a loan go next.
LEMMA TaskWritten ==
  ASSUME TypeInv, NEW t \in Tasks, NEW x, task' = [task EXCEPT ![t] = x] PROVE task'[t] = x
  BY DEF TypeInv, TypeOK

LEMMA EndsIdle == ASSUME TypeInv, NEW t \in Tasks, Ends(t) PROVE task'[t].at = "idle"
  <1>1. task'[t] = Idle
    BY DEF Ends, TypeInv, TypeOK
  <1> QED
    BY <1>1 DEF Idle

LEMMA GoesOnWithLoan ==
  ASSUME TypeInv, NEW t \in Tasks, NEW a, NEW w, NEW l,
         task' = [task EXCEPT ![t] = [Idle EXCEPT !.at = a, !.loan = l, !.answer = w]]
  PROVE  task'[t].at = a
  <1> DEFINE x == [Idle EXCEPT !.at = a, !.loan = l, !.answer = w]
  <1>1. x.at = a
    BY DEF Idle
  <1>2. task' = [task EXCEPT ![t] = x]
    OBVIOUS
  <1> HIDE DEF x
  <1> QED
    BY <1>1, <1>2, TaskWritten

LEMMA GoesOnToRepay ==
  ASSUME TypeInv, NEW t \in Tasks, VerifyReturns(t) PROVE task'[t].at = "repay"
  <1> DEFINE l == task[t].loan
             full == AllRepaid(WithItems(loan[l], {task[t].n}, "repaid"))
             ln == WithItems(loan[l], {task[t].n}, "repaid")
             a == IF full THEN OutstandingCollateral(ln) ELSE CollateralRelease(ln)
  <1>1. PICK o : task' = [task EXCEPT ![t] = [Idle EXCEPT !.at = "repay", !.answer = o,
                            !.loan = l, !.full = full, !.amount = a]]
    BY DEF VerifyReturns
  <1> HIDE DEF full, a
  <1> DEFINE x == [Idle EXCEPT !.at = "repay", !.answer = o, !.loan = l, !.full = full,
                               !.amount = a]
  <1>2. x.at = "repay"
    BY DEF Idle
  <1>3. task' = [task EXCEPT ![t] = x]
    BY <1>1
  <1> HIDE DEF x
  <1> QED
    BY <1>2, <1>3, TaskWritten

LEMMA GoesOnToClose ==
  ASSUME TypeInv, NEW t \in Tasks, NEW ln, SettleInstallment(t, ln)
  PROVE  task'[t].at \in {"idle", "close"}
  <1>1. CASE Ends(t)
    BY <1>1, EndsIdle
  <1>2. ASSUME NEW o, task' = [task EXCEPT ![t] = [Idle EXCEPT !.at = "close",
                                 !.loan = task[t].loan, !.answer = o]]
        PROVE  task'[t].at = "close"
    BY <1>2, GoesOnWithLoan
  <1> QED
    BY <1>1, <1>2 DEF SettleInstallment

LEMMA GoesOnToLiquidateClose ==
  ASSUME TypeInv, NEW t \in Tasks, NEW l, NEW ln, NEW f, NEW r, NEW left,
         SettleDefault(t, l, ln, f, r, left)
  PROVE  task'[t].at = "liquidateClose"
  <1>1. PICK o : task' = [task EXCEPT ![t] = [Idle EXCEPT !.at = "liquidateClose",
                            !.answer = o, !.todo = left, !.asOf = task[t].asOf]]
    BY DEF SettleDefault
  <1> DEFINE x == [Idle EXCEPT !.at = "liquidateClose", !.answer = o, !.todo = left,
                               !.asOf = task[t].asOf]
  <1>2. x.at = "liquidateClose"
    BY DEF Idle
  <1>3. task' = [task EXCEPT ![t] = x]
    BY <1>1
  <1> HIDE DEF x
  <1> QED
    BY <1>2, <1>3, TaskWritten

LEMMA RequestMovesLoan ==
  ASSUME TypeInv, NEW t \in Tasks, Request(t) \/ Sweep(t), NEW l \in LoanIds
  PROVE  LoanMoves(l)
  <1>1. ASSUME NEW m \in LoanIds, Reconcile(t, m) PROVE LoanMoves(l)
    <2>1. m \in Reconcilable /\ loan[m].status # "none"
      BY <1>1, ReconcilableStored DEF Reconcile, TypeInv
    <2>2. HasTurn(t) /\ task[t].at = "idle"
      BY <1>1 DEF Reconcile, Starts
    <2>3. CASE loan' = [loan EXCEPT ![m].disbursement = "completed"]
      <3>1. FlaggedTo(t, m)
        BY <2>1, <2>2, <2>3, OneLoanFlagged DEF FlaggedTo
      <3> QED
        BY <2>2, <2>3, <3>1, OneLoanFlagged, OneLoanMoves
    <2>4. CASE UNCHANGED loan
      BY <2>4 DEF LoanMoves
    <2> QED
      BY <1>1, <2>3, <2>4 DEF Reconcile, Resolve
  <1>2. CASE UNCHANGED loan
    BY <1>2 DEF LoanMoves
  <1> QED
    BY <1>1, <1>2 DEF Request, Deposit, Withdraw, Originate, Attest, PollStatus, Sweep

LEMMA SettleMovesLoan ==
  ASSUME TypeInv, NEW t \in Tasks, RepayReturns(t) \/ ReleaseReturns(t), NEW l \in LoanIds
  PROVE  LoanMoves(l)
  <1> DEFINE m == task[t].loan
  <1>1. m \in LoanIds /\ HasTurn(t)
    BY DEF RepayReturns, ReleaseReturns, Resumes, TypeInv, Fits, LoanAwaits
  <1>2. CASE UNCHANGED loan
    BY <1>2 DEF LoanMoves
  <1>3. CASE RepayReturns(t) /\ task[t].amount = 0 /\ SettleInstallment(t, loan[m])
    <2>1. /\ loan' = [loan EXCEPT ![m] = Settled(loan[m], task[t].full)]
          /\ task[t].at = "repay" /\ task'[t].at \in {"idle", "close"}
          /\ task[t].amount = 0
      BY <1>3, GoesOnToClose DEF SettleInstallment, RepayReturns, Resumes
    <2> HIDE DEF m
    <2>2. HandledTo(t, m)
      BY <1>1, <2>1, OneLoanWritten DEF HandledTo, m
    <2> QED
      BY <1>1, <2>1, <2>2, OneLoanWritten, OneLoanMoves
  <1>4. CASE /\ ReleaseReturns(t)
             /\ SettleInstallment(t, [loan[m] EXCEPT !.released = @ + task[t].amount])
    <2>1. /\ loan' = [loan EXCEPT ![m] =
                        Settled([loan[m] EXCEPT !.released = @ + task[t].amount], task[t].full)]
          /\ task[t].at = "release" /\ task'[t].at \in {"idle", "close"}
      BY <1>4, GoesOnToClose DEF SettleInstallment, ReleaseReturns, Resumes
    <2> HIDE DEF m
    <2>2. HandledTo(t, m)
      BY <1>1, <2>1, OneLoanWritten DEF HandledTo, m
    <2> QED
      BY <1>1, <2>1, <2>2, OneLoanWritten, OneLoanMoves
  <1> QED
    BY <1>2, <1>3, <1>4 DEF RepayReturns, ReleaseReturns

LEMMA EvaluateMovesLoan ==
  ASSUME TypeInv, NEW t \in Tasks, NEW m \in LoanIds, NEW l \in LoanIds,
         \/ EvaluateClosed(t, m) \/ EvaluateMissed(t, m)
         \/ EvaluateOther(t, m) \/ EvaluateExpired(t, m)
  PROVE  LoanMoves(l)
  <1>1. HasTurn(t) /\ task[t].at = "next"
    BY DEF EvaluateClosed, EvaluateMissed, EvaluateOther, EvaluateExpired, Evaluates, Resumes
  <1>2. CASE EvaluateClosed(t, m)
    BY <1>2 DEF EvaluateClosed, LoanMoves
  <1>3. CASE EvaluateMissed(t, m)
    <2>1. loan' = [loan EXCEPT ![m] = InGrace(Marked(t, m), task[t].asOf)]
      BY <1>3 DEF EvaluateMissed
    <2>2. SweptTo(t, m)
      BY <1>1, <1>3, <2>1, OneLoanWritten DEF EvaluateMissed, SweptTo
    <2> QED
      BY <1>1, <2>1, <2>2, OneLoanWritten, OneLoanMoves
  <1>4. CASE EvaluateOther(t, m)
    <2>1. loan' = [loan EXCEPT ![m] = Marked(t, m)]
      BY <1>4 DEF EvaluateOther
    <2>2. SweptTo(t, m)
      BY <1>1, <1>4, <2>1, OneLoanWritten DEF EvaluateOther, SweptTo, IsOpen
    <2> QED
      BY <1>1, <2>1, <2>2, OneLoanWritten, OneLoanMoves
  <1>5. CASE EvaluateExpired(t, m)
    <2> DEFINE ln == Marked(t, m)
    <2>1. GraceExpired(t, m) /\ IsOpen(loan[m]) /\ loan[m].status # "active"
          /\ loan[m].status # "none"
      BY <1>5 DEF EvaluateExpired, GraceExpired, IsOpen
    <2>2. CASE loan' = [loan EXCEPT ![m] = ln]
      <3>1. SweptTo(t, m)
        BY <1>1, <2>1, <2>2, OneLoanWritten DEF SweptTo
      <3> QED
        BY <1>1, <2>2, <3>1, OneLoanWritten, OneLoanMoves
    <2>3. CASE /\ Forfeit(OutstandingPrincipal(ln), OutstandingCollateral(ln)) = 0
               /\ loan' = [loan EXCEPT ![m] = Defaulted(ln, 0, OutstandingCollateral(ln))]
      <3>1. SweptTo(t, m)
        BY <1>1, <2>1, <2>3, OneLoanWritten DEF SweptTo
      <3> QED
        BY <1>1, <2>3, <3>1, OneLoanWritten, OneLoanMoves
    <2> QED
      BY <1>5, <2>2, <2>3 DEF EvaluateExpired, SettleDefault
  <1> QED
    BY <1>2, <1>3, <1>4, <1>5

LEMMA ContinueMovesLoan ==
  ASSUME TypeInv, NEW t \in Tasks, Continue(t), NEW l \in LoanIds PROVE LoanMoves(l)
  <1> DEFINE m == task[t].loan
  <1>1. ASSUME task[t].at \in LoanAwaits PROVE m \in LoanIds /\ loan[m].status # "none"
    BY <1>1 DEF TypeInv, Fits
  <1>2. CASE UNCHANGED loan
    BY <1>2 DEF LoanMoves
  <1>3. CASE QuoteReturns(t)
    <2>1. m \in LoanIds /\ HasTurn(t) /\ task[t].at = "quote"
      BY <1>3 DEF QuoteReturns, Resumes, TypeInv, Fits
    <2>2. CASE /\ task'[t].at = "lock"
               /\ loan' = [loan EXCEPT ![m] =
                             NewLoan(task[t].guarantor, task[t].beneficiary, task[t].terms)]
      <3>1. HandledTo(t, m)
        BY <2>1, <2>2, OneLoanWritten DEF HandledTo
      <3> QED
        BY <2>1, <2>2, <3>1, OneLoanWritten, OneLoanMoves
    <2>3. ASSUME NEW w, task' = [task EXCEPT ![t] = [Idle EXCEPT !.at = "lock",
                                   !.loan = m, !.answer = w]]
          PROVE  task'[t].at = "lock"
      BY <2>3, GoesOnWithLoan
    <2> QED
      BY <1>2, <1>3, <2>2, <2>3 DEF QuoteReturns
  <1>4. CASE DisburseReturns(t) \/ DisburseTimesOut(t)
    <2>1. HasTurn(t) /\ task[t].at = "disburse" /\ m \in LoanIds /\ loan[m].status # "none"
      BY <1>1, <1>4 DEF DisburseReturns, DisburseTimesOut, Resumes, LoanAwaits
    <2>2. PICK o \in {"completed", "unknown"} :
            Ends(t) /\ loan' = [loan EXCEPT ![m].disbursement = o]
      BY <1>4 DEF DisburseReturns, DisburseTimesOut, DisbursementEnds
    <2>3. FlaggedTo(t, m)
      BY <2>1, <2>2, OneLoanFlagged, EndsIdle DEF FlaggedTo
    <2> QED
      BY <2>1, <2>2, <2>3, OneLoanFlagged, OneLoanMoves
  <1>5. CASE VerifyReturns(t)
    <2>1. HasTurn(t) /\ task[t].at = "verify" /\ m \in LoanIds
      BY <1>1, <1>5 DEF VerifyReturns, Resumes, LoanAwaits
    <2>2. /\ loan' = [loan EXCEPT ![m] = WithItems(loan[m], {task[t].n}, "repaid")]
          /\ task'[t].at = "repay"
      BY <1>5, GoesOnToRepay DEF VerifyReturns
    <2> QED
      <3>1. HandledTo(t, m)
        BY <2>1, <2>2, OneLoanWritten DEF HandledTo
      <3> QED
        BY <2>1, <2>2, <3>1, OneLoanWritten, OneLoanMoves
  <1>6. CASE LiquidateReturns(t)
    <2>1. HasTurn(t) /\ task[t].at = "liquidate" /\ m \in LoanIds
      BY <1>1, <1>6 DEF LiquidateReturns, Resumes, LoanAwaits
    <2>2. CASE SettleDefault(t, m, loan[m], task[t].amount, task[t].excess, task[t].todo)
      <3>1. task'[t].at = "liquidateClose"
        BY <2>2, GoesOnToLiquidateClose
      <3>2. loan' = [loan EXCEPT ![m] = Defaulted(loan[m], task[t].amount, task[t].excess)]
        BY <2>2 DEF SettleDefault
      <3>3. HandledTo(t, m)
        BY <2>1, <3>1, <3>2, OneLoanWritten DEF HandledTo
      <3> QED
        BY <2>1, <3>2, <3>3, OneLoanWritten, OneLoanMoves
    <2> QED
      BY <1>2, <1>6, <2>2 DEF LiquidateReturns
  <1>7. CASE StatusReturns(t)
    <2>1. HasTurn(t) /\ task[t].at = "status" /\ m \in LoanIds /\ loan[m].status # "none"
      BY <1>1, <1>7 DEF StatusReturns, Resumes, LoanAwaits
    <2>2. CASE Ends(t) /\ loan' = [loan EXCEPT ![m].disbursement = "completed"]
      <3>1. FlaggedTo(t, m)
        BY <2>1, <2>2, OneLoanFlagged, EndsIdle DEF FlaggedTo
      <3> QED
        BY <2>1, <2>2, <3>1, OneLoanFlagged, OneLoanMoves
    <2> QED
      BY <1>2, <1>7, <2>2 DEF StatusReturns, Resolve
  <1> QED
    BY <1>2, <1>3, <1>4, <1>5, <1>6, <1>7, SettleMovesLoan, EvaluateMovesLoan
    DEF Continue, DepositReturns, WithdrawReturns, LockReturns, RecordReturns,
        DisburseRejects, UnwindReturns, UnwindCloseReturns, CloseReturns,
        LiquidateCloseReturns

LEMMA EveryLoanMoves ==
  ASSUME TypeInv, [Next]_vars, NEW l \in LoanIds PROVE LoanMoves(l)
  <1>1. CASE UNCHANGED loan
    BY <1>1 DEF LoanMoves
  <1>2. Handlers \subseteq Tasks /\ Job \in Tasks
    BY DEF Tasks
  <1> QED
    BY <1>1, <1>2, RequestMovesLoan, ContinueMovesLoan
    DEF Next, vars, PartnerDecides, DayPasses

-----------------------------------------------------------------------------
(* What a task may become                                                  *)

\* A loan an operator may be told, or find out, was not paid out.
Disproved(t, l) ==
    \/ task[t].at = "disburse" /\ task[t].loan = l
       /\ (payout[l] = "paid" => "drops" \in PartnerFailures)
       /\ payout[l] \in Decided
    \/ task[t].at = "status" /\ task[t].loan = l /\ payout[l] # "paid"
    \/ task[t].at = "idle" /\ l \in Reconcilable /\ payout[l] = "refused"

\* The first awaits of the handlers that look before they change anything.
Beginnings == {"deposit", "withdraw", "quote", "verify", "status"}

\* The awaits of a sweep.
Sweeping == {"next", "liquidate", "liquidateClose"}

\* The task t, suspended anew as x: how it got there, await by await.
Arrives(t, x) ==
    /\ x.asOf \in {0, now, task[t].asOf}
    /\ x.answer \in Outcomes \cup {"refused"}
    /\ x.at \in Beginnings =>
         /\ task[t].at = "idle"
         /\ UNCHANGED <<vault, loan, book, attested, payout, now>>
    /\ x.at = "deposit" => x.amount \in Amounts
    /\ x.at = "withdraw" => /\ x.amount \in Amounts
                            /\ x.amount <= Available(vault[x.guarantor])
    /\ x.at = "quote" => /\ x.loan \in FreshLoans
                         /\ ~ExistingLoan(x.guarantor, x.beneficiary)
    /\ x.at = "lock" =>
         /\ task[t].at = "quote" /\ x.loan = task[t].loan
         /\ loan'[x.loan] = NewLoan(task[t].guarantor, task[t].beneficiary, task[t].terms)
    /\ x.at = "record" => task[t].at = "lock" /\ x.loan = task[t].loan /\ x.loan \in book'
    /\ x.at = "disburse" => /\ task[t].at = "record" /\ x.loan = task[t].loan
                            /\ x.asOf = now /\ payout'[x.loan] = "asked"
    /\ x.at = "unwind" => Disproved(t, x.loan)
    /\ x.at = "unwindClose" => task[t].at = "unwind" /\ x.loan = task[t].loan
    /\ x.at \in {"record", "disburse", "unwind", "unwindClose", "release"} => UNCHANGED loan
    /\ x.at \in {"disburse", "unwind", "unwindClose", "release"} => UNCHANGED book
    /\ x.at = "verify" => /\ x.loan \in book /\ x.n \in Installments
                          /\ payout[x.loan] = "paid" /\ Attestable(x.loan, x.n)
    /\ x.at \in {"repay", "release"} => x.answer \in Outcomes
    /\ x.at = "repay" =>
         LET ln == WithItems(loan[x.loan], {task[t].n}, "repaid")
         IN /\ task[t].at = "verify" /\ x.loan = task[t].loan /\ x.full = AllRepaid(ln)
            /\ x.amount = IF x.full THEN OutstandingCollateral(ln) ELSE CollateralRelease(ln)
            /\ loan'[x.loan] = ln
    /\ x.at = "release" => /\ task[t].at = "repay" /\ x.loan = task[t].loan
                           /\ x.full = task[t].full /\ x.amount = task[t].amount
                           /\ x.amount > 0
    /\ x.at = "close" => task[t].at \in {"repay", "release"} /\ x.loan = task[t].loan
    /\ x.at = "liquidate" =>
         LET held == OutstandingCollateral(Marked(t, x.loan))
         IN /\ task[t].at = "next" /\ x.loan \in task[t].todo /\ GraceExpired(t, x.loan)
            /\ x.amount = Forfeit(OutstandingPrincipal(Marked(t, x.loan)), held)
            /\ x.excess = held - x.amount /\ x.amount > 0 /\ x.asOf = task[t].asOf
            /\ loan'[x.loan] = Marked(t, x.loan)
    /\ x.at \in Sweeping => \/ task[t].at \in Sweeping /\ x.todo \subseteq task[t].todo
                            \/ task[t].at = "idle" /\ x.todo \subseteq book
    /\ x.at = "status" => x.loan \in Reconcilable /\ payout[x.loan] \in Decided
    /\ x.at \notin {"deposit", "withdraw", "repay", "liquidate"} =>
         x.amount \in {0, task[t].amount}
    /\ x.at # "liquidate" => x.excess \in {0, task[t].excess}

TaskMoves(t) == task'[t] = task[t] \/ (HasTurn(t) /\ Arrives(t, task'[t]))

\* One task is written, so every task moves if that one does.
LEMMA OneTaskMoves ==
  ASSUME TypeInv, NEW t \in Tasks, HasTurn(t), NEW x, Arrives(t, x),
         task' = [task EXCEPT ![t] = x], NEW u \in Tasks
  PROVE  TaskMoves(u)
  <1>1. task'[t] = x /\ (u # t => task'[u] = task[u])
    BY DEF TypeInv, TypeOK
  <1> QED
    BY <1>1 DEF TaskMoves

LEMMA IdleArrives == ASSUME NEW t PROVE Arrives(t, Idle)
  BY DEF Idle, Arrives, Beginnings, Sweeping, Outcomes

LEMMA EndsMoves ==
  ASSUME TypeInv, NEW t \in Tasks, HasTurn(t), Ends(t), NEW u \in Tasks PROVE TaskMoves(u)
  BY IdleArrives, OneTaskMoves DEF Ends

LEMMA AccountRequestsMove ==
  ASSUME TypeInv, NEW t \in Tasks, NEW g \in Guarantors, NEW a \in Amounts,
         Deposit(t, g, a) \/ Withdraw(t, g, a), NEW u \in Tasks
  PROVE  TaskMoves(u)
  <1>1. CASE Deposit(t, g, a)
    <2>1. PICK o \in Outcomes :
            task' = [task EXCEPT ![t] = [Idle EXCEPT !.at = "deposit", !.answer = o,
                                                     !.guarantor = g, !.amount = a]]
      BY <1>1 DEF Deposit
    <2> DEFINE x == [Idle EXCEPT !.at = "deposit", !.answer = o, !.guarantor = g, !.amount = a]
    <2>2. x.at = "deposit" /\ x.answer = o /\ x.amount = a /\ x.excess = 0 /\ x.asOf = 0
      BY DEF Idle
    <2>3. task' = [task EXCEPT ![t] = x]
      BY <2>1
    <2> HIDE DEF x
    <2>4. HasTurn(t) /\ Arrives(t, x)
      BY <1>1, <2>2 DEF Deposit, Starts, Arrives, Beginnings, Sweeping, Outcomes
    <2> QED
      BY <2>3, <2>4, OneTaskMoves
  <1>2. CASE Withdraw(t, g, a)
    <2>1. PICK w \in Outcomes \cup {"refused"} :
            task' = [task EXCEPT ![t] = [Idle EXCEPT !.at = "withdraw",
                              !.guarantor = g, !.amount = a, !.answer = w]]
      BY <1>2 DEF Withdraw
    <2> DEFINE x == [Idle EXCEPT !.at = "withdraw", !.guarantor = g, !.amount = a, !.answer = w]
    <2>2. /\ x.at = "withdraw" /\ x.guarantor = g /\ x.amount = a /\ x.excess = 0 /\ x.asOf = 0
          /\ x.answer = w
      BY DEF Idle
    <2>3. task' = [task EXCEPT ![t] = x]
      BY <2>1
    <2> HIDE DEF x
    <2>4. HasTurn(t) /\ Arrives(t, x)
      BY <1>2, <2>2 DEF Withdraw, Starts, Arrives, Beginnings, Sweeping, Outcomes
    <2> QED
      BY <2>3, <2>4, OneTaskMoves
  <1> QED
    BY <1>1, <1>2

LEMMA OriginateMoves ==
  ASSUME TypeInv, NEW t \in Tasks, NEW g, NEW b, NEW tm, Originate(t, g, b, tm),
         NEW u \in Tasks
  PROVE  TaskMoves(u)
  <1>1. PICK l \in FreshLoans :
          task' = [task EXCEPT ![t] = [Idle EXCEPT !.at = "quote", !.loan = l,
                     !.guarantor = g, !.beneficiary = b, !.terms = tm]]
    BY DEF Originate
  <1> DEFINE x == [Idle EXCEPT !.at = "quote", !.loan = l, !.guarantor = g,
                               !.beneficiary = b, !.terms = tm]
  <1>2. /\ x.at = "quote" /\ x.loan = l /\ x.guarantor = g /\ x.beneficiary = b
        /\ x.amount = 0 /\ x.excess = 0 /\ x.asOf = 0 /\ x.answer = "ok"
    BY DEF Idle
  <1>3. task' = [task EXCEPT ![t] = x]
    BY <1>1
  <1> HIDE DEF x
  <1>4. HasTurn(t) /\ Arrives(t, x)
    BY <1>2 DEF Originate, Starts, Arrives, Beginnings, Sweeping, Outcomes
  <1> QED
    BY <1>3, <1>4, OneTaskMoves

LEMMA OriginationMoves ==
  ASSUME TypeInv, NEW t \in Tasks, QuoteReturns(t) \/ LockReturns(t) \/ RecordReturns(t),
         NEW u \in Tasks
  PROVE  TaskMoves(u)
  <1>1. HasTurn(t)
    BY DEF QuoteReturns, LockReturns, RecordReturns, Resumes
  <1>2. CASE Ends(t)
    BY <1>1, <1>2, EndsMoves
  <1>3. ASSUME QuoteReturns(t), NEW w \in Outcomes \cup {"refused"},
               task' = [task EXCEPT ![t] = [Idle EXCEPT !.at = "lock", !.loan = task[t].loan,
                                                        !.answer = w]],
               loan' = [loan EXCEPT ![task[t].loan] =
                          NewLoan(task[t].guarantor, task[t].beneficiary, task[t].terms)]
        PROVE  TaskMoves(u)
    <2> DEFINE x == [Idle EXCEPT !.at = "lock", !.loan = task[t].loan, !.answer = w]
    <2>1. /\ x.at = "lock" /\ x.loan = task[t].loan /\ x.amount = 0 /\ x.excess = 0
          /\ x.asOf = 0 /\ x.answer = w
      BY DEF Idle
    <2>2. task' = [task EXCEPT ![t] = x]
      BY <1>3
    <2> HIDE DEF x
    <2>3. task[t].at = "quote" /\ task[t].loan \in LoanIds
      BY <1>3 DEF QuoteReturns, Resumes, TypeInv, Fits
    <2>4. loan'[task[t].loan] = NewLoan(task[t].guarantor, task[t].beneficiary, task[t].terms)
      BY <1>3, <2>3, OneLoanWritten
    <2>5. Arrives(t, x)
      BY <2>1, <2>3, <2>4 DEF Arrives, Beginnings, Sweeping, Outcomes
    <2> QED
      BY <1>1, <2>2, <2>5, OneTaskMoves
  <1>4. ASSUME LockReturns(t), NEW o \in Outcomes, task[t].loan \in book',
               task' = [task EXCEPT ![t].at = "record", ![t].answer = o]
        PROVE  TaskMoves(u)
    <2> DEFINE x == [task[t] EXCEPT !.at = "record", !.answer = o]
    <2>1. /\ x.at = "record" /\ x.loan = task[t].loan /\ x.amount = task[t].amount
          /\ x.excess = task[t].excess /\ x.asOf = task[t].asOf /\ x.answer = o
          /\ task' = [task EXCEPT ![t] = x]
      BY <1>4 DEF TypeInv, TypeOK, TaskRecord
    <2> HIDE DEF x
    <2>2. Arrives(t, x)
      BY <1>4, <2>1 DEF LockReturns, Resumes, Arrives, Beginnings, Sweeping, Outcomes
    <2> QED
      BY <1>1, <2>1, <2>2, OneTaskMoves
  <1>5. ASSUME RecordReturns(t), payout' = [payout EXCEPT ![task[t].loan] = "asked"],
               task' = [task EXCEPT ![t].at = "disburse", ![t].answer = "ok", ![t].asOf = now]
        PROVE  TaskMoves(u)
    <2> DEFINE x == [task[t] EXCEPT !.at = "disburse", !.answer = "ok", !.asOf = now]
    <2>1. /\ x.at = "disburse" /\ x.loan = task[t].loan /\ x.amount = task[t].amount
          /\ x.excess = task[t].excess /\ x.asOf = now /\ x.answer = "ok"
          /\ task' = [task EXCEPT ![t] = x]
      BY <1>5 DEF TypeInv, TypeOK, TaskRecord
    <2> HIDE DEF x
    <2>2. payout'[task[t].loan] = "asked"
      BY <1>5 DEF RecordReturns, Resumes, TypeInv, TypeOK, Fits, LoanAwaits
    <2>3. Arrives(t, x)
      BY <1>5, <2>1, <2>2 DEF RecordReturns, Resumes, Arrives, Beginnings, Sweeping, Outcomes
    <2> QED
      BY <1>1, <2>1, <2>3, OneTaskMoves
  <1> QED
    BY <1>2, <1>3, <1>4, <1>5 DEF QuoteReturns, LockReturns, RecordReturns

LEMMA UnwindMoves ==
  ASSUME TypeInv, NEW t \in Tasks, HasTurn(t), NEW l, StartUnwind(t, l), Disproved(t, l),
         UNCHANGED <<loan, book>>, NEW u \in Tasks
  PROVE  TaskMoves(u)
  <1>1. PICK o \in Outcomes :
          task' = [task EXCEPT ![t] = [Idle EXCEPT !.at = "unwind", !.loan = l, !.answer = o]]
    BY DEF StartUnwind
  <1> DEFINE x == [Idle EXCEPT !.at = "unwind", !.loan = l, !.answer = o]
  <1>2. x.at = "unwind" /\ x.loan = l /\ x.amount = 0 /\ x.excess = 0 /\ x.asOf = 0 /\ x.answer = o
    BY DEF Idle
  <1>3. task' = [task EXCEPT ![t] = x]
    BY <1>1
  <1> HIDE DEF x
  <1>4. Arrives(t, x)
    BY <1>2 DEF Arrives, Beginnings, Sweeping, Outcomes
  <1> QED
    BY <1>3, <1>4, OneTaskMoves

LEMMA DisburseMoves ==
  ASSUME TypeInv, NEW t \in Tasks,
         \/ DisburseReturns(t) \/ DisburseTimesOut(t) \/ DisburseRejects(t)
         \/ UnwindReturns(t) \/ UnwindCloseReturns(t),
         NEW u \in Tasks
  PROVE  TaskMoves(u)
  <1>1. HasTurn(t)
    BY DEF DisburseReturns, DisburseTimesOut, DisburseRejects, UnwindReturns,
           UnwindCloseReturns, Resumes
  <1>2. CASE Ends(t)
    BY <1>1, <1>2, EndsMoves
  <1>3. CASE DisburseRejects(t)
    <2>1. /\ StartUnwind(t, task[t].loan) /\ Disproved(t, task[t].loan)
          /\ UNCHANGED <<loan, book>>
      BY <1>3 DEF DisburseRejects, Resumes, Disproved, Decided
    <2> QED
      BY <1>1, <2>1, UnwindMoves
  <1>4. ASSUME UnwindReturns(t), NEW o \in Outcomes,
               task' = [task EXCEPT ![t].at = "unwindClose", ![t].answer = o]
        PROVE  TaskMoves(u)
    <2> DEFINE x == [task[t] EXCEPT !.at = "unwindClose", !.answer = o]
    <2>1. /\ x.at = "unwindClose" /\ x.loan = task[t].loan /\ x.amount = task[t].amount
          /\ x.excess = task[t].excess /\ x.asOf = task[t].asOf /\ x.answer = o
          /\ task' = [task EXCEPT ![t] = x]
      BY <1>4 DEF TypeInv, TypeOK, TaskRecord
    <2> HIDE DEF x
    <2>2. Arrives(t, x)
      BY <1>4, <2>1 DEF UnwindReturns, Resumes, Arrives, Beginnings, Sweeping, Outcomes
    <2> QED
      BY <1>1, <2>1, <2>2, OneTaskMoves
  <1> QED
    BY <1>2, <1>3, <1>4
    DEF DisburseReturns, DisburseTimesOut, DisbursementEnds, UnwindReturns,
        UnwindCloseReturns

LEMMA AttestMoves ==
  ASSUME TypeInv, NEW t \in Tasks, NEW l \in LoanIds, NEW i \in Installments,
         Attest(t, l, i), NEW u \in Tasks
  PROVE  TaskMoves(u)
  <1> DEFINE x == [Idle EXCEPT !.at = "verify", !.loan = l, !.n = i]
  <1>1. /\ x.at = "verify" /\ x.loan = l /\ x.n = i /\ x.amount = 0 /\ x.excess = 0
        /\ x.asOf = 0 /\ x.answer = "ok"
    BY DEF Idle
  <1>2. task' = [task EXCEPT ![t] = x]
    BY DEF Attest
  <1> HIDE DEF x
  <1>3. HasTurn(t) /\ Arrives(t, x)
    BY <1>1 DEF Attest, Starts, Arrives, Beginnings, Sweeping, Outcomes
  <1> QED
    BY <1>2, <1>3, OneTaskMoves

LEMMA VerifyMoves ==
  ASSUME TypeInv, NEW t \in Tasks, VerifyReturns(t), NEW u \in Tasks PROVE TaskMoves(u)
  <1> DEFINE l == task[t].loan
             ln == WithItems(loan[l], {task[t].n}, "repaid")
             full == AllRepaid(ln)
             a == IF full THEN OutstandingCollateral(ln) ELSE CollateralRelease(ln)
  <1>1. PICK o \in Outcomes :
          task' = [task EXCEPT ![t] = [Idle EXCEPT !.at = "repay", !.answer = o,
                     !.loan = l, !.full = full, !.amount = a]]
    BY DEF VerifyReturns
  <1> DEFINE x == [Idle EXCEPT !.at = "repay", !.answer = o, !.loan = l, !.full = full,
                               !.amount = a]
  <1> HIDE DEF full, a
  <1>2. /\ x.at = "repay" /\ x.loan = l /\ x.full = full /\ x.amount = a /\ x.excess = 0
        /\ x.asOf = 0 /\ x.answer = o
    BY DEF Idle
  <1>3. task' = [task EXCEPT ![t] = x]
    BY <1>1
  <1> HIDE DEF x
  <1>4. HasTurn(t) /\ task[t].at = "verify"
    BY DEF VerifyReturns, Resumes
  <1>5. loan' = [loan EXCEPT ![l] = ln] /\ l \in LoanIds
    BY <1>4 DEF VerifyReturns, TypeInv, Fits, LoanAwaits
  <1> HIDE DEF l, ln
  <1>6. loan'[l] = ln
    BY <1>5, OneLoanWritten
  <1>7. Arrives(t, x)
    BY <1>2, <1>4, <1>6 DEF Arrives, Beginnings, Sweeping, Outcomes, full, a, l, ln
  <1> QED
    BY <1>3, <1>4, <1>7, OneTaskMoves

LEMMA SettleMoves ==
  ASSUME TypeInv, NEW t \in Tasks, HasTurn(t), task[t].at \in {"repay", "release"},
         NEW ln, SettleInstallment(t, ln), NEW u \in Tasks
  PROVE  TaskMoves(u)
  <1>1. CASE Ends(t)
    BY <1>1, EndsMoves
  <1>2. ASSUME NEW o \in Outcomes, task' = [task EXCEPT ![t] = [Idle EXCEPT !.at = "close",
                                 !.loan = task[t].loan, !.answer = o]]
        PROVE  TaskMoves(u)
    <2> DEFINE x == [Idle EXCEPT !.at = "close", !.loan = task[t].loan, !.answer = o]
    <2>1. x.at = "close" /\ x.loan = task[t].loan /\ x.amount = 0 /\ x.excess = 0
          /\ x.asOf = 0 /\ x.answer = o
      BY DEF Idle
    <2>2. task' = [task EXCEPT ![t] = x]
      BY <1>2
    <2> HIDE DEF x
    <2>3. Arrives(t, x)
      BY <2>1 DEF Arrives, Beginnings, Sweeping, Outcomes
    <2> QED
      BY <2>2, <2>3, OneTaskMoves
  <1> QED
    BY <1>1, <1>2 DEF SettleInstallment

\* What the sweep and the handlers start from.
LEMMA MovingTyped ==
  ASSUME TypeInv, NEW t \in Tasks
  PROVE  /\ \A l \in LoanIds : /\ loan[l] \in LoanRecord
                               /\ loan[l].status # "none" => Begun(loan[l])
         /\ task[t] \in TaskRecord
         /\ task[t].at \in LoanAwaits =>
              task[t].loan \in LoanIds /\ loan[task[t].loan].status # "none"
  BY DEF TypeInv, TypeOK, Begun, Fits

LEMMA RepaymentMoves ==
  ASSUME TypeInv, NEW t \in Tasks, RepayReturns(t) \/ ReleaseReturns(t) \/ CloseReturns(t),
         NEW u \in Tasks
  PROVE  TaskMoves(u)
  <1>1. HasTurn(t)
    BY DEF RepayReturns, ReleaseReturns, CloseReturns, Resumes
  <1>2. CASE Ends(t)
    BY <1>1, <1>2, EndsMoves
  <1>3. ASSUME RepayReturns(t) \/ ReleaseReturns(t), NEW ln, SettleInstallment(t, ln)
        PROVE  TaskMoves(u)
    BY <1>1, <1>3, SettleMoves DEF RepayReturns, ReleaseReturns, Resumes
  <1>4. ASSUME RepayReturns(t), task[t].amount > 0, NEW o \in Outcomes,
               task' = [task EXCEPT ![t].at = "release", ![t].answer = o]
        PROVE  TaskMoves(u)
    <2> DEFINE x == [task[t] EXCEPT !.at = "release", !.answer = o]
    <2>1. /\ x.at = "release" /\ x.loan = task[t].loan /\ x.amount = task[t].amount
          /\ x.excess = task[t].excess /\ x.asOf = task[t].asOf /\ x.full = task[t].full
          /\ x.answer = o /\ task' = [task EXCEPT ![t] = x]
      BY <1>4 DEF TypeInv, TypeOK, TaskRecord
    <2> HIDE DEF x
    <2>2. task[t].at = "repay" /\ task[t].amount # 0
      <3>1. task[t].amount \in Int
        BY MovingTyped DEF TaskRecord
      <3>2. task[t].at = "repay"
        BY <1>4 DEF RepayReturns, Resumes
      <3> QED
        BY <1>4, <3>1, <3>2
    <2>3. UNCHANGED <<loan, book>>
      BY <1>4, <2>2 DEF RepayReturns
    <2>4. Arrives(t, x)
      BY <1>4, <2>1, <2>2, <2>3 DEF Arrives, Beginnings, Sweeping
    <2> QED
      BY <1>1, <2>1, <2>4, OneTaskMoves
  <1> QED
    BY <1>2, <1>3, <1>4 DEF RepayReturns, ReleaseReturns, CloseReturns

LEMMA ProceedsMoves ==
  ASSUME TypeInv, NEW t \in Tasks, HasTurn(t), task[t].at \in Sweeping,
         NEW left \in SUBSET task[t].todo, Proceeds(t, left), NEW u \in Tasks
  PROVE  TaskMoves(u)
  <1> DEFINE x == [Idle EXCEPT !.at = "next", !.todo = left, !.asOf = task[t].asOf]
  <1>1. CASE left = {}
    BY <1>1, EndsMoves DEF Proceeds, Ends
  <1>2. CASE left # {}
    <2>1. /\ x.at = "next" /\ x.amount = 0 /\ x.excess = 0 /\ x.asOf = task[t].asOf /\ x.answer = "ok"
          /\ x.todo = left
      BY DEF Idle
    <2>2. task' = [task EXCEPT ![t] = x]
      BY <1>2 DEF Proceeds
    <2> HIDE DEF x
    <2>3. Arrives(t, x)
      BY <2>1 DEF Arrives, Beginnings, Sweeping, Outcomes
    <2> QED
      BY <2>2, <2>3, OneTaskMoves
  <1> QED
    BY <1>1, <1>2

LEMMA SettleDefaultMoves ==
  ASSUME TypeInv, NEW t \in Tasks, HasTurn(t), task[t].at \in Sweeping, NEW l, NEW ln,
         NEW a, NEW b, NEW left \in SUBSET task[t].todo,
         SettleDefault(t, l, ln, a, b, left), NEW u \in Tasks
  PROVE  TaskMoves(u)
  <1>1. PICK o \in Outcomes :
          task' = [task EXCEPT ![t] = [Idle EXCEPT !.at = "liquidateClose",
                            !.answer = o, !.todo = left, !.asOf = task[t].asOf]]
    BY DEF SettleDefault
  <1> DEFINE x == [Idle EXCEPT !.at = "liquidateClose", !.answer = o, !.todo = left,
                               !.asOf = task[t].asOf]
  <1>2. /\ x.at = "liquidateClose" /\ x.amount = 0 /\ x.excess = 0
        /\ x.asOf = task[t].asOf /\ x.todo = left /\ x.answer = o
    BY DEF Idle
  <1>3. task' = [task EXCEPT ![t] = x]
    BY <1>1
  <1> HIDE DEF x
  <1>4. Arrives(t, x)
    BY <1>2 DEF Arrives, Beginnings, Sweeping, Outcomes
  <1> QED
    BY <1>3, <1>4, OneTaskMoves

LEMMA SweepMoves ==
  ASSUME TypeInv, NEW t \in Tasks, Sweep(t), NEW u \in Tasks PROVE TaskMoves(u)
  <1> DEFINE x == [Idle EXCEPT !.at = "next", !.todo = OpenLoans, !.asOf = now]
  <1>1. /\ x.at = "next" /\ x.amount = 0 /\ x.excess = 0 /\ x.asOf = now /\ x.todo = OpenLoans
        /\ x.answer = "ok"
    BY DEF Idle
  <1>2. task' = [task EXCEPT ![t] = x]
    BY DEF Sweep
  <1> HIDE DEF x
  <1>3. HasTurn(t) /\ Arrives(t, x)
    BY <1>1 DEF Sweep, Starts, Arrives, Beginnings, Sweeping, Outcomes, OpenLoans
  <1> QED
    BY <1>2, <1>3, OneTaskMoves

LEMMA EvaluateMoves ==
  ASSUME TypeInv, NEW t \in Tasks, NEW l \in LoanIds,
         \/ EvaluateClosed(t, l) \/ EvaluateMissed(t, l)
         \/ EvaluateOther(t, l) \/ EvaluateExpired(t, l),
         NEW u \in Tasks
  PROVE  TaskMoves(u)
  <1>1. HasTurn(t) /\ task[t].at = "next" /\ l \in task[t].todo
    BY DEF EvaluateClosed, EvaluateMissed, EvaluateOther, EvaluateExpired, Evaluates, Resumes
  <1>2. CASE Proceeds(t, task[t].todo \ {l})
    BY <1>1, <1>2, ProceedsMoves DEF Sweeping
  <1>3. CASE EvaluateExpired(t, l)
    <2> DEFINE ln == Marked(t, l)
               held == OutstandingCollateral(ln)
               forfeited == Forfeit(OutstandingPrincipal(ln), held)
               left == task[t].todo \ {l}
    <2>1. CASE SettleDefault(t, l, ln, 0, held, left)
      BY <1>1, <2>1, SettleDefaultMoves DEF Sweeping
    <2>2. ASSUME forfeited > 0, NEW o \in Outcomes,
                 task' = [task EXCEPT ![t] = [Idle EXCEPT !.at = "liquidate",
                            !.answer = o, !.loan = l, !.amount = forfeited,
                            !.excess = held - forfeited, !.todo = left,
                            !.asOf = task[t].asOf]],
                 loan' = [loan EXCEPT ![l] = ln]
          PROVE  TaskMoves(u)
      <3> DEFINE x == [Idle EXCEPT !.at = "liquidate", !.answer = o, !.loan = l,
                         !.amount = forfeited, !.excess = held - forfeited,
                         !.todo = left, !.asOf = task[t].asOf]
      <3> HIDE DEF held, forfeited, left
      <3>1. /\ x.at = "liquidate" /\ x.loan = l /\ x.amount = forfeited
            /\ x.excess = held - forfeited /\ x.asOf = task[t].asOf /\ x.todo = left /\ x.answer = o
        BY DEF Idle
      <3>2. task' = [task EXCEPT ![t] = x]
        BY <2>2
      <3> HIDE DEF x
      <3>3. GraceExpired(t, l) /\ loan'[l] = ln
        BY <1>3, <2>2, OneLoanWritten DEF EvaluateExpired
      <3>4. Arrives(t, x)
        BY <1>1, <2>2, <3>1, <3>3 DEF Arrives, Beginnings, Sweeping, Outcomes, held, forfeited, left
      <3> QED
        BY <1>1, <3>2, <3>4, OneTaskMoves
    <2> QED
      BY <1>3, <2>1, <2>2 DEF EvaluateExpired
  <1> QED
    BY <1>2, <1>3 DEF EvaluateClosed, EvaluateMissed, EvaluateOther

LEMMA LiquidateMoves ==
  ASSUME TypeInv, NEW t \in Tasks, LiquidateReturns(t) \/ LiquidateCloseReturns(t),
         NEW u \in Tasks
  PROVE  TaskMoves(u)
  <1>1. HasTurn(t) /\ task[t].at \in Sweeping
    BY DEF LiquidateReturns, LiquidateCloseReturns, Resumes, Sweeping
  <1> QED
    BY <1>1, ProceedsMoves, SettleDefaultMoves DEF LiquidateReturns, LiquidateCloseReturns

LEMMA ReconcileMoves ==
  ASSUME TypeInv, NEW t \in Tasks, NEW l \in LoanIds,
         Reconcile(t, l) \/ PollStatus(t, l), NEW u \in Tasks
  PROVE  TaskMoves(u)
  <1>1. CASE Reconcile(t, l)
    <2>1. HasTurn(t) /\ task[t].at = "idle" /\ l \in Reconcilable
          /\ payout[l] \in {"paid", "refused"} /\ Resolve(t, l, payout[l] = "paid")
      BY <1>1 DEF Reconcile, Starts
    <2>2. CASE payout[l] = "paid"
      BY <2>1, <2>2, EndsMoves DEF Resolve
    <2>3. CASE payout[l] # "paid"
      BY <2>1, <2>3, UnwindMoves DEF Resolve, Disproved
    <2> QED
      BY <2>2, <2>3
  <1>2. CASE PollStatus(t, l)
    <2> DEFINE x == [Idle EXCEPT !.at = "status", !.loan = l]
    <2>1. x.at = "status" /\ x.loan = l /\ x.amount = 0 /\ x.excess = 0 /\ x.asOf = 0 /\ x.answer = "ok"
      BY DEF Idle
    <2>2. task' = [task EXCEPT ![t] = x]
      BY <1>2 DEF PollStatus
    <2> HIDE DEF x
    <2>3. HasTurn(t) /\ Arrives(t, x)
      BY <1>2, <2>1 DEF PollStatus, Starts, Arrives, Beginnings, Sweeping, Outcomes, Decided
    <2> QED
      BY <2>2, <2>3, OneTaskMoves
  <1> QED
    BY <1>1, <1>2

LEMMA StatusMoves ==
  ASSUME TypeInv, NEW t \in Tasks, StatusReturns(t), NEW u \in Tasks PROVE TaskMoves(u)
  <1> DEFINE l == task[t].loan
  <1>1. HasTurn(t) /\ task[t].at = "status" /\ Resolve(t, l, payout[l] = "paid")
    BY DEF StatusReturns, Resumes
  <1>2. CASE payout[l] = "paid"
    BY <1>1, <1>2, EndsMoves DEF Resolve
  <1>3. CASE payout[l] # "paid"
    BY <1>1, <1>3, UnwindMoves DEF Resolve, Disproved
  <1> QED
    BY <1>2, <1>3

LEMMA EveryTaskMoves ==
  ASSUME TypeInv, [Next]_vars, NEW u \in Tasks PROVE TaskMoves(u)
  <1>1. Handlers \subseteq Tasks /\ Job \in Tasks
    BY DEF Tasks
  <1>2. ASSUME NEW t \in Tasks, Request(t) \/ Sweep(t) PROVE TaskMoves(u)
    BY <1>2, AccountRequestsMove, OriginateMoves, AttestMoves, ReconcileMoves, SweepMoves
    DEF Request
  <1>3. ASSUME NEW t \in Tasks, DepositReturns(t) \/ WithdrawReturns(t) PROVE TaskMoves(u)
    BY <1>3, EndsMoves DEF DepositReturns, WithdrawReturns, Resumes
  <1>4. ASSUME NEW t \in Tasks, Continue(t) PROVE TaskMoves(u)
    BY <1>3, <1>4, OriginationMoves, DisburseMoves, VerifyMoves, RepaymentMoves,
       EvaluateMoves, LiquidateMoves, StatusMoves
    DEF Continue
  <1>5. CASE UNCHANGED task
    BY <1>5 DEF TaskMoves
  <1> QED
    BY <1>1, <1>2, <1>4, <1>5 DEF Next, vars, PartnerDecides, DayPasses

\* Only a passing day moves the clock, and it does nothing else.
LEMMA ClockMoves ==
  ASSUME TypeInv, [Next]_vars
  PROVE  /\ now' \in Nat /\ now <= now'
         /\ now' # now => UNCHANGED <<loan, task>>
         /\ now' = now \/ DayPasses
  <1>1. CASE now' = now
    BY <1>1 DEF TypeInv, TypeOK
  <1>2. CASE DayPasses
    <2>1. now' = now + 1 /\ now \in Nat /\ UNCHANGED <<loan, task>>
      BY <1>2 DEF DayPasses, TypeInv, TypeOK
    <2> QED
      BY <1>2, <2>1
  <1>3. ASSUME NEW t \in Tasks, Request(t) \/ Sweep(t) PROVE now' = now
    BY <1>3 DEF Request, Deposit, Withdraw, Originate, Attest, Reconcile, PollStatus, Sweep
  <1>4. ASSUME NEW t \in Tasks, Continue(t) PROVE now' = now
    BY <1>4 DEF Continue, DepositReturns, WithdrawReturns, QuoteReturns, LockReturns,
      RecordReturns, DisburseReturns, DisburseTimesOut, DisburseRejects, DisbursementEnds,
      UnwindReturns, UnwindCloseReturns, VerifyReturns, RepayReturns, ReleaseReturns,
      CloseReturns, LiquidateReturns, LiquidateCloseReturns, StatusReturns,
      EvaluateClosed, EvaluateMissed, EvaluateOther, EvaluateExpired
  <1> QED
    BY <1>1, <1>2, <1>3, <1>4 DEF Next, vars, PartnerDecides, Tasks

-----------------------------------------------------------------------------
(* What each way of writing a loan leaves as it was                        *)

\* The parts of a loan that are settled when it is originated.
SameContract(x, ln) ==
    /\ x.guarantor = ln.guarantor /\ x.beneficiary = ln.beneficiary
    /\ x.terms = ln.terms /\ x.born = ln.born /\ x.locked = ln.locked

LEMMA ItemsFields ==
  ASSUME NEW ln \in LoanRecord, NEW S, NEW s \in {"absent", "pending", "overdue", "repaid"}
  PROVE  LET x == WithItems(ln, S, s)
         IN /\ SameContract(x, ln) /\ x.status = ln.status /\ x.graceEnds = ln.graceEnds
            /\ x.released = ln.released /\ x.forfeited = ln.forfeited
            /\ \A i \in Installments : x.item[i] = IF i \in S THEN s ELSE ln.item[i]
  BY DEF WithItems, LoanRecord, SameContract

LEMMA SettledFields ==
  ASSUME NEW ln \in LoanRecord, NEW full \in BOOLEAN
  PROVE  LET x == Settled(ln, full)
         IN /\ SameContract(x, ln) /\ x.item = ln.item
            /\ x.released = ln.released /\ x.forfeited = ln.forfeited
            /\ \/ full /\ x.status = "repaid" /\ x.graceEnds = NoDeadline
               \/ /\ ~full /\ ln.status = "grace" /\ ItemsIn(ln, "overdue") = {}
                  /\ x.status = "active" /\ x.graceEnds = NoDeadline
               \/ /\ ~full /\ (ln.status = "grace" => ItemsIn(ln, "overdue") # {})
                  /\ x.status = ln.status /\ x.graceEnds = ln.graceEnds
  BY DEF Settled, LoanRecord, SameContract

LEMMA ReleasedFields ==
  ASSUME NEW ln \in LoanRecord, NEW a \in Int
  PROVE  LET x == [ln EXCEPT !.released = @ + a]
         IN /\ SameContract(x, ln) /\ x.item = ln.item /\ x.status = ln.status
            /\ x.graceEnds = ln.graceEnds /\ x.forfeited = ln.forfeited
            /\ x.released = ln.released + a
  BY DEF LoanRecord, SameContract

LEMMA InGraceFields ==
  ASSUME NEW ln \in LoanRecord, NEW d
  PROVE  LET x == InGrace(ln, d)
         IN /\ SameContract(x, ln) /\ x.item = ln.item /\ x.status = "grace"
            /\ x.released = ln.released /\ x.forfeited = ln.forfeited
            /\ x.graceEnds = d + GracePeriod
  BY DEF InGrace, LoanRecord, SameContract

LEMMA DefaultedFields ==
  ASSUME NEW ln \in LoanRecord, Begun(ln), NEW a \in Int, NEW b \in Int
  PROVE  LET x == Defaulted(ln, a, b)
         IN /\ SameContract(x, ln) /\ x.status = "defaulted" /\ x.graceEnds = NoDeadline
            /\ x.released = ln.released + b /\ x.forfeited = ln.forfeited + a
            /\ \A i \in Installments :
                 x.item[i] = IF ln.item[i] = "pending" THEN "overdue" ELSE ln.item[i]
  <1> DEFINE y == WithItems(ln, ItemsIn(ln, "pending"), "overdue")
  <1>1. y \in LoanRecord
    BY ItemsTyped
  <1>2. /\ SameContract(y, ln) /\ y.released = ln.released /\ y.forfeited = ln.forfeited
        /\ \A i \in Installments :
              y.item[i] = IF ln.item[i] = "pending" THEN "overdue" ELSE ln.item[i]
    BY ItemsFields DEF ItemsIn
  <1> HIDE DEF y
  <1>3. LET x == [y EXCEPT !.status = "defaulted", !.graceEnds = NoDeadline,
                           !.forfeited = @ + a, !.released = @ + b]
        IN /\ SameContract(x, y) /\ x.status = "defaulted" /\ x.graceEnds = NoDeadline
           /\ x.released = y.released + b /\ x.forfeited = y.forfeited + a
           /\ x.item = y.item
    BY <1>1 DEF LoanRecord, SameContract
  <1> QED
    BY <1>2, <1>3 DEF Defaulted, SameContract, y

LEMMA FlaggedFields ==
  ASSUME NEW ln \in LoanRecord, NEW o
  PROVE  LET x == [ln EXCEPT !.disbursement = o]
         IN /\ SameContract(x, ln) /\ x.item = ln.item /\ x.status = ln.status
            /\ x.released = ln.released /\ x.forfeited = ln.forfeited
            /\ x.graceEnds = ln.graceEnds
  BY DEF LoanRecord, SameContract

LEMMA NewLoanFields ==
  ASSUME NEW g, NEW b, NEW tm
  PROVE  LET x == NewLoan(g, b, tm)
         IN /\ x.guarantor = g /\ x.beneficiary = b /\ x.terms = tm /\ x.born = now
            /\ x.locked = RequiredCollateral(tm.principal, tm.ltv) /\ x.status = "active"
            /\ x.released = 0 /\ x.forfeited = 0 /\ x.graceEnds = NoDeadline
            /\ x.disbursement = "none"
            /\ \A i \in Installments :
                 x.item[i] = IF i <= tm.count THEN "pending" ELSE "absent"
  BY DEF NewLoan

(***************************************************************************)
(* No default before its time.  A grace period is opened on the strength   *)
(* of the sweep's own time, which is never ahead of the clock, and only    *)
(* when something was due before that; and no task at a quote, which ends  *)
(* in a new loan, shares its loan with one already begun.                  *)
(***************************************************************************)

\* No earlier than this may the loan default.
FirstDeadline(ln) == DueAt(ln, 1) + GracePeriod

LoanTimely(ln, day) ==
    /\ ln.status = "active" => ItemsIn(ln, "overdue") = {}
    /\ ln.status = "grace" /\ ln.graceEnds # NoDeadline => ln.graceEnds > FirstDeadline(ln)
    /\ ln.status = "defaulted" => day > FirstDeadline(ln)

TimelyInv ==
    /\ \A l \in LoanIds : LoanTimely(loan[l], now)
    /\ \A t \in Tasks :
         /\ task[t].asOf <= now
         /\ task[t].at = "quote" => loan[task[t].loan].status = "none"
         /\ task[t].at = "liquidate" => now > FirstDeadline(loan[task[t].loan])

LEMMA DueInt ==
  ASSUME NEW ln \in LoanRecord, Begun(ln), NEW i \in Nat \ {0}
  PROVE  DueAt(ln, i) \in Int /\ DueAt(ln, 1) \in Int /\ DueAt(ln, 1) <= DueAt(ln, i)
  <1> DEFINE n == ln.terms.interval
  <1>1. ln.born \in Nat /\ n \in Nat
    BY LoanBookAssumption DEF LoanRecord, Begun, Term
  <1> HIDE DEF n
  <1>2. n * i \in Nat /\ n * 1 \in Nat /\ n * 1 <= n * i
    BY <1>1
  <1> QED
    BY <1>1, <1>2 DEF DueAt, n

LEMMA SameDeadline ==
  ASSUME NEW x, NEW ln, SameContract(x, ln) PROVE FirstDeadline(x) = FirstDeadline(ln)
  BY DEF SameContract, FirstDeadline, DueAt

\* A loan that is not turned active, given a deadline or defaulted stays timely.
LEMMA StaysTimely ==
  ASSUME NEW ln, NEW x, NEW day, LoanTimely(ln, day), SameContract(x, ln),
         x.status = "active" => ItemsIn(x, "overdue") = {},
         x.graceEnds # NoDeadline => x.graceEnds = ln.graceEnds,
         x.status = "grace" => ln.status = "grace",
         x.status = "defaulted" => ln.status = "defaulted"
  PROVE  LoanTimely(x, day)
  BY SameDeadline DEF LoanTimely

\* The first miss: something was due before the sweep's time.
LEMMA MissedTimely ==
  ASSUME TypeInv, NEW t \in Tasks, NEW l \in LoanIds, loan[l].status = "active",
         LoanTimely(loan[l], now), ItemsIn(Marked(t, l), "overdue") # {}
  PROVE  LoanTimely(InGrace(Marked(t, l), task[t].asOf), now)
  <1> DEFINE ln == loan[l]
             x == Marked(t, l)
             y == InGrace(x, task[t].asOf)
  <1>1. ln \in LoanRecord /\ Begun(ln) /\ x \in LoanRecord /\ task[t].asOf \in Nat
    BY MovingTyped, MarkedTyped DEF TaskRecord
  <1>2. PICK i \in Installments : x.item[i] = "overdue"
    BY DEF ItemsIn
  <1>3. SameContract(x, ln) /\ (i \in PastDue(ln, task[t].asOf) \/ ln.item[i] = "overdue")
    BY <1>1, <1>2, ItemsFields DEF Marked
  <1>4. ln.item[i] # "overdue"
    BY DEF LoanTimely, ItemsIn
  <1>5. DueAt(ln, i) < task[t].asOf
    BY <1>3, <1>4 DEF PastDue
  <1>6. i \in Nat \ {0}
    BY LoanBookAssumption DEF Installments, Term
  <1> HIDE DEF ln, x
  <1>7. SameContract(y, x) /\ y.status = "grace" /\ y.graceEnds = task[t].asOf + GracePeriod
    BY <1>1, InGraceFields
  <1>8. FirstDeadline(y) = DueAt(ln, 1) + GracePeriod
    BY <1>3, <1>7, SameDeadline DEF FirstDeadline
  <1>9. GracePeriod \in Nat
    BY LoanBookAssumption
  <1>10. y.graceEnds > FirstDeadline(y)
    BY <1>1, <1>5, <1>6, <1>7, <1>8, <1>9, DueInt
  <1> QED
    BY <1>7, <1>10 DEF LoanTimely, x

\* What an expired grace period proves.
LEMMA ExpiredLate ==
  ASSUME TypeInv, TimelyInv, NEW t \in Tasks, NEW l \in LoanIds, GraceExpired(t, l)
  PROVE  now > FirstDeadline(loan[l])
  <1>1. loan[l] \in LoanRecord /\ Begun(loan[l]) /\ task[t].asOf \in Nat /\ now \in Nat
    BY MovingTyped DEF GraceExpired, TaskRecord, TypeInv, TypeOK
  <1>2. loan[l].graceEnds \in Int /\ DueAt(loan[l], 1) \in Int /\ GracePeriod \in Int
    BY <1>1, DueInt, LoanBookAssumption DEF LoanRecord, NoDeadline
  <1>3. /\ loan[l].graceEnds > FirstDeadline(loan[l])
        /\ loan[l].graceEnds <= task[t].asOf /\ task[t].asOf <= now
    BY DEF TimelyInv, LoanTimely, GraceExpired
  <1> QED
    BY <1>1, <1>2, <1>3 DEF FirstDeadline

LEMMA SweptTimely ==
  ASSUME TypeInv, TimelyInv, NEW t \in Tasks, NEW l \in LoanIds, SweptTo(t, l)
  PROVE  LoanTimely(loan'[l], now) /\ SameContract(loan'[l], loan[l]) /\ loan'[l].status # "none"
  <1> DEFINE x == Marked(t, l)
  <1>1. /\ loan[l] \in LoanRecord /\ Begun(loan[l]) /\ x \in LoanRecord /\ Begun(x)
        /\ LoanTimely(loan[l], now)
    BY MovingTyped, MarkedTyped DEF SweptTo, TimelyInv
  <1>2. SameContract(x, loan[l]) /\ x.status = loan[l].status /\ x.graceEnds = loan[l].graceEnds
    BY <1>1, ItemsFields DEF Marked
  <1>3. CASE loan[l].status = "active" /\ ItemsIn(x, "overdue") # {}
             /\ loan'[l] = InGrace(x, task[t].asOf)
    <2>1. LoanTimely(loan'[l], now)
      BY <1>1, <1>3, MissedTimely
    <2> HIDE DEF x
    <2>2. SameContract(loan'[l], x) /\ loan'[l].status = "grace"
      BY <1>1, <1>3, InGraceFields
    <2> QED
      BY <1>2, <2>1, <2>2 DEF SameContract
  <1>4. CASE IsOpen(loan[l]) /\ (loan[l].status = "active" => ItemsIn(x, "overdue") = {})
             /\ loan'[l] = x
    <2> HIDE DEF x
    <2> QED
      BY <1>1, <1>2, <1>4, StaysTimely DEF IsOpen
  <1>5. CASE GraceExpired(t, l) /\ loan'[l] = Defaulted(x, 0, OutstandingCollateral(x))
    <2>1. now > FirstDeadline(loan[l])
      BY <1>5, ExpiredLate
    <2> HIDE DEF x
    <2>2. SameContract(loan'[l], x) /\ loan'[l].status = "defaulted"
      BY <1>1, <1>5, AmountsInt, DefaultedFields
    <2>3. SameContract(loan'[l], loan[l])
      BY <1>2, <2>2 DEF SameContract
    <2> QED
      BY <2>1, <2>2, <2>3, SameDeadline DEF LoanTimely
  <1> QED
    BY <1>3, <1>4, <1>5 DEF SweptTo

LEMMA HandledTimely ==
  ASSUME TypeInv, TimelyInv, NEW t \in Tasks, NEW l \in LoanIds, HandledTo(t, l)
  PROVE  /\ LoanTimely(loan'[l], now) /\ loan'[l].status # "none"
         /\ loan[l].status # "none" => SameContract(loan'[l], loan[l])
  <1>1. /\ loan[l] \in LoanRecord /\ LoanTimely(loan[l], now) /\ task[t] \in TaskRecord
        /\ task[t].amount \in Int /\ task[t].excess \in Int /\ task[t].full \in BOOLEAN
        /\ task[t].loan = l
    BY MovingTyped DEF TimelyInv, TaskRecord, HandledTo
  <1>2. ASSUME NEW ln \in LoanRecord, LoanTimely(ln, now), SameContract(ln, loan[l]),
               ln.status # "none", loan'[l] = Settled(ln, task[t].full)
        PROVE  LoanTimely(loan'[l], now) /\ loan'[l].status # "none"
               /\ SameContract(loan'[l], loan[l])
    <2>1. SameContract(loan'[l], ln) /\ loan'[l].item = ln.item
          /\ \/ loan'[l].status = "repaid"
             \/ ItemsIn(ln, "overdue") = {} /\ loan'[l].status = "active"
                /\ loan'[l].graceEnds = NoDeadline
             \/ loan'[l].status = ln.status /\ loan'[l].graceEnds = ln.graceEnds
      BY <1>1, <1>2, SettledFields
    <2>2. ItemsIn(loan'[l], "overdue") = ItemsIn(ln, "overdue")
      BY <2>1 DEF ItemsIn
    <2>3. LoanTimely(loan'[l], now)
      BY <1>2, <2>1, <2>2, SameDeadline DEF LoanTimely
    <2> QED
      BY <1>2, <2>1, <2>3 DEF SameContract
  <1>3. CASE task[t].at = "quote"
             /\ loan'[l] = NewLoan(task[t].guarantor, task[t].beneficiary, task[t].terms)
    <2>1. loan'[l].status = "active" /\ loan'[l].graceEnds = NoDeadline
          /\ \A i \in Installments : loan'[l].item[i] # "overdue"
      BY <1>3, NewLoanFields
    <2>2. loan[l].status = "none"
      BY <1>1, <1>3 DEF TimelyInv
    <2> QED
      BY <2>1, <2>2 DEF LoanTimely, ItemsIn
  <1>4. CASE task[t].at = "verify" /\ loan'[l] = WithItems(loan[l], {task[t].n}, "repaid")
    <2>1. /\ SameContract(loan'[l], loan[l]) /\ loan'[l].status = loan[l].status
          /\ loan'[l].graceEnds = loan[l].graceEnds
          /\ \A i \in Installments : loan'[l].item[i] = "overdue" => loan[l].item[i] = "overdue"
      BY <1>1, <1>4, ItemsFields
    <2>2. loan[l].status # "none"
      BY <1>1, <1>4, MovingTyped DEF LoanAwaits
    <2>3. LoanTimely(loan'[l], now)
      BY <1>1, <2>1, SameDeadline DEF LoanTimely, ItemsIn
    <2> QED
      BY <2>1, <2>2, <2>3
  <1>5. CASE task[t].at = "repay" /\ loan'[l] = Settled(loan[l], task[t].full)
    BY <1>1, <1>2, <1>5, MovingTyped DEF LoanAwaits, SameContract
  <1>6. CASE /\ task[t].at = "release"
             /\ loan'[l] = Settled([loan[l] EXCEPT !.released = @ + task[t].amount],
                                   task[t].full)
    <2> DEFINE ln == [loan[l] EXCEPT !.released = @ + task[t].amount]
    <2>1. loan[l].status # "none" /\ Begun(loan[l])
      BY <1>1, <1>6, MovingTyped DEF LoanAwaits
    <2>2. ln \in LoanRecord
      BY <1>1, <2>1, ReleasedTyped
    <2>3. SameContract(ln, loan[l]) /\ ln.item = loan[l].item /\ ln.status = loan[l].status
          /\ ln.graceEnds = loan[l].graceEnds
      BY <1>1, ReleasedFields
    <2>4. loan'[l] = Settled(ln, task[t].full)
      BY <1>6
    <2> HIDE DEF ln
    <2>5. LoanTimely(ln, now)
      BY <1>1, <2>3, SameDeadline DEF LoanTimely, ItemsIn
    <2> QED
      BY <1>2, <2>1, <2>2, <2>3, <2>4, <2>5
  <1>7. CASE task[t].at = "liquidate"
             /\ loan'[l] = Defaulted(loan[l], task[t].amount, task[t].excess)
    <2>1. Begun(loan[l]) /\ now > FirstDeadline(loan[l])
      BY <1>1, <1>7, MovingTyped DEF LoanAwaits, TimelyInv
    <2>2. SameContract(loan'[l], loan[l]) /\ loan'[l].status = "defaulted"
      BY <1>1, <1>7, <2>1, DefaultedFields
    <2> QED
      BY <2>1, <2>2, SameDeadline DEF LoanTimely
  <1> QED
    BY <1>3, <1>4, <1>5, <1>6, <1>7 DEF HandledTo

LEMMA FlaggedTimely ==
  ASSUME TypeInv, TimelyInv, NEW t \in Tasks, NEW l \in LoanIds, FlaggedTo(t, l)
  PROVE  LoanTimely(loan'[l], now) /\ SameContract(loan'[l], loan[l]) /\ loan'[l].status # "none"
  <1>1. loan[l] \in LoanRecord /\ LoanTimely(loan[l], now) /\ loan[l].status # "none"
    BY MovingTyped DEF FlaggedTo, TimelyInv
  <1>2. /\ SameContract(loan'[l], loan[l]) /\ loan'[l].item = loan[l].item
        /\ loan'[l].status = loan[l].status /\ loan'[l].graceEnds = loan[l].graceEnds
    BY <1>1, FlaggedFields DEF FlaggedTo
  <1>3. LoanTimely(loan'[l], now)
    BY <1>1, <1>2, SameDeadline DEF LoanTimely, ItemsIn
  <1> QED
    BY <1>1, <1>2, <1>3

LEMMA TimelyKept == ASSUME TypeInv, TimelyInv, PayoutInv, [Next]_vars PROVE TimelyInv'
  <1>1. TypeInv'
    BY StepTyped
  <1>2. ASSUME NEW l \in LoanIds
        PROVE  /\ LoanTimely(loan'[l], now)
               /\ loan[l].status # "none" =>
                    loan'[l].status # "none" /\ SameContract(loan'[l], loan[l])
               /\ loan[l].status = "none" /\ loan'[l].status # "none" =>
                    \E t \in Tasks : task[t].at = "quote" /\ task[t].loan = l /\ HasTurn(t)
                                     /\ HandledTo(t, l)
    <2>1. LoanMoves(l)
      BY EveryLoanMoves
    <2>2. CASE loan'[l] = loan[l]
      BY <2>2 DEF TimelyInv, SameContract
    <2>3. ASSUME NEW t \in Tasks, SweptTo(t, l) PROVE LoanTimely(loan'[l], now)
               /\ loan[l].status # "none" /\ loan'[l].status # "none"
               /\ SameContract(loan'[l], loan[l])
      BY <2>3, SweptTimely DEF SweptTo
    <2>4. ASSUME NEW t \in Tasks, FlaggedTo(t, l) PROVE LoanTimely(loan'[l], now)
               /\ loan[l].status # "none" /\ loan'[l].status # "none"
               /\ SameContract(loan'[l], loan[l])
      BY <2>4, FlaggedTimely DEF FlaggedTo
    <2>5. ASSUME NEW t \in Tasks, HandledTo(t, l)
          PROVE  /\ LoanTimely(loan'[l], now) /\ loan'[l].status # "none"
                 /\ loan[l].status # "none" => SameContract(loan'[l], loan[l])
                 /\ loan[l].status = "none" => task[t].at = "quote" /\ task[t].loan = l
      <3>1. loan[l].status = "none" => task[t].at \notin LoanAwaits
        BY <2>5, MovingTyped DEF HandledTo
      <3> QED
        BY <2>5, <3>1, HandledTimely DEF HandledTo, LoanAwaits
    <2> QED
      BY <2>1, <2>2, <2>3, <2>4, <2>5 DEF LoanMoves
  <1>3. now \in Nat /\ now' \in Nat /\ now <= now'
    BY ClockMoves DEF TypeInv, TypeOK
  <1>4. ASSUME NEW l \in LoanIds PROVE LoanTimely(loan'[l], now')
    <2>1. CASE loan'[l].status = "defaulted"
      <3>1. loan'[l] \in LoanRecord /\ Begun(loan'[l])
        BY <1>1, <2>1 DEF TypeInv, TypeOK, Begun
      <3>2. FirstDeadline(loan'[l]) \in Int
        BY <3>1, DueInt, LoanBookAssumption DEF FirstDeadline
      <3> QED
        BY <1>2, <1>3, <2>1, <3>2 DEF LoanTimely
    <2> QED
      BY <1>2, <2>1 DEF LoanTimely
  <1>5. ASSUME NEW t \in Tasks
        PROVE  /\ task'[t].asOf <= now'
               /\ task'[t].at = "quote" => loan'[task'[t].loan].status = "none"
               /\ task'[t].at = "liquidate" => now' > FirstDeadline(loan'[task'[t].loan])
    <2> DEFINE x == task'[t]
               l == x.loan
    <2>1. TaskMoves(t)
      BY EveryTaskMoves
    <2>2. x \in TaskRecord /\ task[t] \in TaskRecord
      BY <1>1 DEF TypeInv, TypeOK
    <2>3. x.asOf <= now'
      BY <1>3, <2>1, <2>2 DEF TaskMoves, Arrives, TimelyInv, TaskRecord
    <2>4. ASSUME x.at = "quote" PROVE loan'[l].status = "none"
      <3>1. l \in LoanIds /\ loan[l].status = "none"
        BY <2>1, <2>4 DEF TaskMoves, Arrives, TimelyInv, FreshLoans, TypeInv, Fits
      <3>2. CASE task'[t] = task[t]
        <4>1. SUFFICES ASSUME NEW u \in Tasks, task[u].at = "quote", task[u].loan = l,
                              HasTurn(u), HandledTo(u, l), loan'[l].status # "none"
                       PROVE  FALSE
          BY <1>2, <3>1
        <4>2. u = t
          BY <2>4, <3>2, <4>1 DEF PayoutInv, Originating
        <4>3. task'[u] # task[u]
          BY <2>4, <4>1 DEF HandledTo
        <4> QED
          BY <3>2, <4>2, <4>3
      <3>3. CASE Arrives(t, x)
        BY <2>4, <3>1, <3>3 DEF Arrives, Beginnings, Sweeping
      <3> QED
        BY <2>1, <3>2, <3>3 DEF TaskMoves
    <2>5. ASSUME x.at = "liquidate" PROVE now' > FirstDeadline(loan'[l])
      <3>1. l \in LoanIds /\ loan[l].status # "none" /\ now > FirstDeadline(loan[l])
        <4>1. CASE task'[t] = task[t]
          BY <2>5, <4>1, MovingTyped DEF TimelyInv, LoanAwaits
        <4>2. CASE Arrives(t, x)
          <5>1. l \in LoanIds /\ GraceExpired(t, l)
            BY <2>2, <2>5, <4>2 DEF Arrives, TaskRecord
          <5> QED
            BY <5>1, ExpiredLate DEF GraceExpired
        <4> QED
          BY <2>1, <4>1, <4>2 DEF TaskMoves
      <3>2. FirstDeadline(loan'[l]) = FirstDeadline(loan[l])
        BY <1>2, <3>1, SameDeadline
      <3>3. FirstDeadline(loan[l]) \in Int
        BY <3>1, MovingTyped, DueInt, LoanBookAssumption DEF FirstDeadline
      <3> QED
        BY <1>3, <3>1, <3>2, <3>3
    <2> QED
      BY <2>3, <2>4, <2>5
  <1> QED
    BY <1>4, <1>5 DEF TimelyInv

LEMMA TimelyStart == ASSUME Init PROVE TimelyInv
  BY LoanBookAssumption DEF Init, NoLoan, Idle, TimelyInv, LoanTimely

\* Both invariants hold throughout.
LEMMA AlwaysTimely == Spec => [](PayoutInv /\ TimelyInv)
  <1>1. Init => PayoutInv /\ TimelyInv
    BY PayoutStart, TimelyStart
  <1>2. TypeInv /\ PayoutInv /\ TimelyInv /\ [Next]_vars => (PayoutInv /\ TimelyInv)'
    BY PayoutKept, TimelyKept
  <1> QED
    BY <1>1, <1>2, AlwaysTyped, PTL DEF Spec

\* However slowly calls return, and whatever becomes of them, no loan defaults
\* before its first installment has been due for a grace period.
THEOREM NoEarlyDefault == Spec => []DefaultsNotEarly
  <1>1. TimelyInv => DefaultsNotEarly
    BY DEF TimelyInv, LoanTimely, FirstDeadline, DefaultsNotEarly
  <1> QED
    BY <1>1, AlwaysTimely, PTL

-----------------------------------------------------------------------------
(* Nothing that was paid out is unwound                                    *)

\* A loan leaves the store only at the end of an unwinding.
LEMMA LeavesUnwound ==
  ASSUME TypeInv, [Next]_vars, NEW l \in book, l \notin book'
  PROVE  \E t \in Tasks : /\ HasTurn(t) /\ task[t].at = "unwindClose" /\ task[t].loan = l
                         /\ UnwindCloseReturns(t)
  <1>1. ASSUME NEW t \in Tasks, Request(t) \/ Sweep(t) PROVE FALSE
    BY <1>1 DEF Request, Deposit, Withdraw, Originate, Attest, Reconcile, PollStatus, Sweep,
                Resolve
  <1>2. ASSUME NEW t \in Tasks, Continue(t) PROVE UnwindCloseReturns(t)
    BY <1>2 DEF Continue, DepositReturns, WithdrawReturns, QuoteReturns, LockReturns,
      RecordReturns, DisburseReturns, DisburseTimesOut, DisburseRejects, DisbursementEnds,
      UnwindReturns, VerifyReturns, RepayReturns, ReleaseReturns, SettleInstallment,
      CloseReturns, LiquidateReturns, LiquidateCloseReturns, SettleDefault, StatusReturns,
      Resolve, EvaluateClosed, EvaluateMissed, EvaluateOther, EvaluateExpired
  <1>3. PICK t \in Tasks : UnwindCloseReturns(t)
    BY <1>1, <1>2 DEF Next, vars, PartnerDecides, DayPasses, Tasks
  <1> QED
    BY <1>3 DEF UnwindCloseReturns, Resumes

\* A payout is begun by a request that has recorded its loan, and then decided.
LEMMA PayoutMoves ==
  ASSUME TypeInv, [Next]_vars, NEW l \in LoanIds
  PROVE  \/ payout'[l] = payout[l]
         \/ payout[l] = "asked" /\ payout'[l] \in Decided
         \/ \E t \in Tasks : task[t].at = "record" /\ task[t].loan = l
  <1>1. ASSUME NEW t \in Tasks, Request(t) \/ Sweep(t) PROVE UNCHANGED payout
    BY <1>1 DEF Request, Deposit, Withdraw, Originate, Attest, Reconcile, PollStatus, Sweep
  <1>2. ASSUME NEW t \in Tasks, Continue(t) PROVE RecordReturns(t) \/ UNCHANGED payout
    BY <1>2 DEF Continue, DepositReturns, WithdrawReturns, QuoteReturns, LockReturns,
      DisburseReturns, DisburseTimesOut, DisburseRejects, DisbursementEnds,
      UnwindReturns, UnwindCloseReturns, VerifyReturns, RepayReturns, ReleaseReturns,
      CloseReturns, LiquidateReturns, LiquidateCloseReturns, StatusReturns,
      EvaluateClosed, EvaluateMissed, EvaluateOther, EvaluateExpired
  <1>3. ASSUME NEW t \in Tasks, RecordReturns(t), payout'[l] # payout[l]
        PROVE  task[t].at = "record" /\ task[t].loan = l
    BY <1>3 DEF RecordReturns, Resumes, TypeInv, TypeOK
  <1>4. ASSUME NEW m \in LoanIds, PartnerDecides(m), payout'[l] # payout[l]
        PROVE  payout[l] = "asked" /\ payout'[l] \in Decided
    BY <1>4 DEF PartnerDecides, TypeInv, TypeOK, Decided
  <1> QED
    BY <1>1, <1>2, <1>3, <1>4 DEF Next, vars, DayPasses, Tasks

\* The inductive invariant: what is unwound or no longer stored was refused.
UnwoundInv ==
    /\ \A l \in LoanIds : l \notin book => payout[l] \in {"none", "refused"}
    /\ \A t \in Tasks : task[t].at \in {"unwind", "unwindClose"} =>
         payout[task[t].loan] = "refused"

LEMMA RefusedStays ==
  ASSUME TypeInv, PayoutInv, [Next]_vars, NEW l \in LoanIds,
         payout[l] = "refused" \/ (l \notin book /\ payout[l] = "none")
  PROVE  payout'[l] = payout[l]
  BY PayoutMoves DEF PayoutInv, Originating

LEMMA UnwoundKept ==
  ASSUME "drops" \notin PartnerFailures, TypeInv, PayoutInv, UnwoundInv, [Next]_vars
  PROVE  UnwoundInv'
  <1>1. ASSUME NEW l \in LoanIds, l \notin book' PROVE payout'[l] \in {"none", "refused"}
    <2>1. CASE l \notin book
      BY <2>1, RefusedStays DEF UnwoundInv
    <2>2. CASE l \in book
      BY <1>1, <2>2, LeavesUnwound, RefusedStays DEF UnwoundInv
    <2> QED
      BY <2>1, <2>2
  <1>2. ASSUME NEW t \in Tasks, task'[t].at \in {"unwind", "unwindClose"}
        PROVE  payout'[task'[t].loan] = "refused"
    <2> DEFINE l == task'[t].loan
    <2>1. l \in LoanIds
      BY <1>2, StepTyped DEF TypeInv, Fits, LoanAwaits
    <2>2. payout[l] = "refused"
      <3>1. CASE task'[t] = task[t]
        BY <1>2, <3>1 DEF UnwoundInv
      <3>2. CASE Arrives(t, task'[t])
        BY <1>2, <3>2 DEF Arrives, Disproved, Decided, UnwoundInv, PayoutInv, Undoing
      <3> QED
        BY <3>1, <3>2, EveryTaskMoves DEF TaskMoves
    <2> QED
      BY <2>1, <2>2, RefusedStays
  <1> QED
    BY <1>1, <1>2 DEF UnwoundInv

\* Where a rejected call means that nothing was paid, a loan unwound, its
\* collateral given back, was not paid out: however slow the partner's answer,
\* and whichever loans an operator chooses to reconcile.
THEOREM UnwoundUnpaid ==
  ASSUME "drops" \notin PartnerFailures PROVE Spec => []UnwoundMeansUnpaid
  <1>1. Init => UnwoundInv
    BY DEF Init, UnwoundInv, Idle
  <1>2. TypeInv /\ PayoutInv /\ UnwoundInv /\ [Next]_vars => UnwoundInv'
    BY UnwoundKept
  <1>3. UnwoundInv => UnwoundMeansUnpaid
    BY DEF UnwoundInv, UnwoundMeansUnpaid
  <1>4. Init => PayoutInv
    BY PayoutStart
  <1>5. TypeInv /\ PayoutInv /\ [Next]_vars => PayoutInv'
    BY PayoutKept
  <1> QED
    BY <1>1, <1>2, <1>3, <1>4, <1>5, AlwaysTyped, PTL DEF Spec

-----------------------------------------------------------------------------
(* No vault owes more than it holds                                        *)

\* What a task's step makes of the vault of guarantor g.
VaultMoves(g) ==
    \/ vault'[g] = vault[g]
    \/ \E t \in Tasks :
         /\ HasTurn(t)
         /\ \/ /\ task[t].at = "deposit" /\ vault'[g] = Deposited(vault[g], task[t].amount)
            \/ /\ task[t].at = "withdraw" /\ task[t].guarantor = g
               /\ vault'[g] = Withdrawn(vault[g], task[t].amount)
            \/ /\ task[t].at = "lock" /\ task[t].loan \in LoanIds
               /\ CanLock(vault[g], loan[task[t].loan].locked)
               /\ vault'[g] = LockedUp(vault[g], loan[task[t].loan].locked)
            \/ /\ task[t].at = "unwindClose" /\ task[t].loan \in LoanIds
               /\ vault'[g] = Released(vault[g], loan[task[t].loan].locked)
            \/ /\ task[t].at = "release"
               /\ vault'[g] = Released(vault[g], task[t].amount)
            \/ /\ task[t].at = "liquidate"
               /\ vault'[g] = VaultAfterDefault(vault[g], task[t].amount, task[t].excess)
            \/ \E l \in LoanIds :
               /\ task[t].at = "next" /\ GraceExpired(t, l)
               /\ vault'[g] = VaultAfterDefault(vault[g], 0, OutstandingCollateral(Marked(t, l)))

LEMMA OneVaultWritten ==
  ASSUME TypeInv, NEW h, NEW v, vault' = [vault EXCEPT ![h] = v], NEW g \in Guarantors
  PROVE  vault'[g] = IF g = h THEN v ELSE vault[g]
  BY DEF TypeInv, TypeOK

LEMMA ContinueMovesVault ==
  ASSUME TypeInv, NEW t \in Tasks, Continue(t), NEW g \in Guarantors PROVE VaultMoves(g)
  <1> DEFINE m == task[t].loan
  <1>1. ASSUME task[t].at \in LoanAwaits PROVE m \in LoanIds
    BY <1>1 DEF TypeInv, Fits
  <1>2. CASE UNCHANGED vault
    BY <1>2 DEF VaultMoves
  <1>3. CASE DepositReturns(t)
    <2>1. HasTurn(t) /\ task[t].at = "deposit"
      BY <1>3 DEF DepositReturns, Resumes
    <2>2. CASE vault' = [vault EXCEPT ![task[t].guarantor] = Deposited(@, task[t].amount)]
      <3>1. vault'[g] = vault[g] \/ vault'[g] = Deposited(vault[g], task[t].amount)
        BY <2>2, OneVaultWritten
      <3> QED
        BY <2>1, <3>1 DEF VaultMoves
    <2> QED
      BY <1>2, <1>3, <2>2 DEF DepositReturns
  <1>4. CASE WithdrawReturns(t)
    <2>1. HasTurn(t) /\ task[t].at = "withdraw"
      BY <1>4 DEF WithdrawReturns, Resumes
    <2>2. CASE vault' = [vault EXCEPT ![task[t].guarantor] = Withdrawn(@, task[t].amount)]
      <3>1. \/ vault'[g] = vault[g]
            \/ task[t].guarantor = g /\ vault'[g] = Withdrawn(vault[g], task[t].amount)
        BY <2>2, OneVaultWritten
      <3> QED
        BY <2>1, <3>1 DEF VaultMoves
    <2> QED
      BY <1>2, <1>4, <2>2 DEF WithdrawReturns
  <1>5. CASE LockReturns(t)
    <2>1. HasTurn(t) /\ task[t].at = "lock" /\ m \in LoanIds
      BY <1>1, <1>5 DEF LockReturns, Resumes, LoanAwaits
    <2>2. CASE /\ LockHolds(t, m)
               /\ vault' = [vault EXCEPT ![loan[m].guarantor] = LockedUp(@, loan[m].locked)]
      <3> DEFINE h == loan[m].guarantor
                 v == LockedUp(vault[h], loan[m].locked)
      <3>1. CanLock(vault[h], loan[m].locked) /\ vault' = [vault EXCEPT ![h] = v]
        BY <2>2 DEF LockHolds
      <3>2. vault'[g] = IF g = h THEN v ELSE vault[g]
        <4> HIDE DEF h, v
        <4> QED
          BY <3>1, OneVaultWritten
      <3>3. \/ vault'[g] = vault[g]
            \/ CanLock(vault[g], loan[m].locked) /\ vault'[g] = LockedUp(vault[g], loan[m].locked)
        BY <3>1, <3>2
      <3> QED
        BY <2>1, <3>3 DEF VaultMoves
    <2> QED
      BY <1>2, <1>5, <2>2 DEF LockReturns
  <1>6. CASE UnwindCloseReturns(t)
    <2>1. HasTurn(t) /\ task[t].at = "unwindClose" /\ m \in LoanIds
      BY <1>1, <1>6 DEF UnwindCloseReturns, Resumes, LoanAwaits
    <2>2. CASE vault' = [vault EXCEPT ![loan[m].guarantor] = Released(@, loan[m].locked)]
      <3>1. vault'[g] = vault[g] \/ vault'[g] = Released(vault[g], loan[m].locked)
        BY <2>2, OneVaultWritten
      <3> QED
        BY <2>1, <3>1 DEF VaultMoves
    <2> QED
      BY <1>2, <1>6, <2>2 DEF UnwindCloseReturns
  <1>7. CASE ReleaseReturns(t)
    <2>1. HasTurn(t) /\ task[t].at = "release"
      BY <1>7 DEF ReleaseReturns, Resumes
    <2>2. CASE vault' = [vault EXCEPT ![loan[m].guarantor] = Released(@, task[t].amount)]
      <3>1. vault'[g] = vault[g] \/ vault'[g] = Released(vault[g], task[t].amount)
        BY <2>2, OneVaultWritten
      <3> QED
        BY <2>1, <3>1 DEF VaultMoves
    <2> QED
      BY <1>2, <1>7, <2>2 DEF ReleaseReturns
  <1>8. CASE LiquidateReturns(t)
    <2>1. HasTurn(t) /\ task[t].at = "liquidate"
      BY <1>8 DEF LiquidateReturns, Resumes
    <2>2. CASE SettleDefault(t, m, loan[m], task[t].amount, task[t].excess, task[t].todo)
      <3>1. \/ vault'[g] = vault[g]
            \/ vault'[g] = VaultAfterDefault(vault[g], task[t].amount, task[t].excess)
        BY <2>2, OneVaultWritten DEF SettleDefault
      <3> QED
        BY <2>1, <3>1 DEF VaultMoves
    <2> QED
      BY <1>2, <1>8, <2>2 DEF LiquidateReturns
  <1>9. ASSUME NEW l \in LoanIds, EvaluateExpired(t, l) PROVE VaultMoves(g)
    <2> DEFINE ln == Marked(t, l)
    <2>1. HasTurn(t) /\ task[t].at = "next" /\ GraceExpired(t, l)
      BY <1>9 DEF EvaluateExpired, Evaluates, Resumes
    <2>2. CASE SettleDefault(t, l, ln, 0, OutstandingCollateral(ln), task[t].todo \ {l})
      <3>1. \/ vault'[g] = vault[g]
            \/ vault'[g] = VaultAfterDefault(vault[g], 0, OutstandingCollateral(ln))
        BY <2>2, OneVaultWritten DEF SettleDefault
      <3> QED
        BY <2>1, <3>1 DEF VaultMoves
    <2> QED
      BY <1>2, <1>9, <2>2 DEF EvaluateExpired
  <1> QED
    BY <1>2, <1>3, <1>4, <1>5, <1>6, <1>7, <1>8, <1>9
    DEF Continue, QuoteReturns, RecordReturns, DisburseReturns, DisburseTimesOut,
        DisburseRejects, DisbursementEnds, UnwindReturns, VerifyReturns, RepayReturns,
        CloseReturns, LiquidateCloseReturns, StatusReturns, EvaluateClosed,
        EvaluateMissed, EvaluateOther

LEMMA EveryVaultMoves ==
  ASSUME TypeInv, [Next]_vars, NEW g \in Guarantors PROVE VaultMoves(g)
  <1>1. CASE UNCHANGED vault
    BY <1>1 DEF VaultMoves
  <1>2. ASSUME NEW t \in Tasks, Request(t) \/ Sweep(t) PROVE UNCHANGED vault
    BY <1>2 DEF Request, Deposit, Withdraw, Originate, Attest, Reconcile, PollStatus, Sweep
  <1> QED
    BY <1>1, <1>2, ContinueMovesVault DEF Next, vars, PartnerDecides, DayPasses, Tasks

Solvent(v) == 0 <= v.locked /\ v.locked <= v.balance

\* Every operation of the vault service leaves a solvent vault solvent, given
\* an amount that is none below zero and, where one is checked, its check.
LEMMA VaultOperationsSolvent ==
  ASSUME NEW v \in VaultAccount, Solvent(v), NEW a \in Nat
  PROVE  /\ Solvent(Deposited(v, a))
         /\ a <= Available(v) => Solvent(Withdrawn(v, a))
         /\ CanLock(v, a) => Solvent(LockedUp(v, a))
         /\ Solvent(Released(v, a)) /\ Solvent(Forfeited(v, a))
         /\ Released(v, a) \in VaultAccount /\ Forfeited(v, a) \in VaultAccount
  <1>1. Solvent(Deposited(v, a)) /\ (a <= Available(v) => Solvent(Withdrawn(v, a)))
    BY DEF Solvent, VaultAccount, Deposited, Withdrawn, Available
  <1>2. CanLock(v, a) => Solvent(LockedUp(v, a))
    BY DEF Solvent, VaultAccount, CanLock, LockedUp, Available
  <1>3. Solvent(Released(v, a))
    BY DEF Solvent, VaultAccount, Released
  <1>4. Solvent(Forfeited(v, a))
    BY DEF Solvent, VaultAccount, Forfeited
  <1> QED
    BY <1>1, <1>2, <1>3, <1>4, VaultTyped

\* Rounding a quotient of natural numbers gives a natural number.
LEMMA RoundNat == ASSUME NEW x \in Nat, NEW y \in Nat \ {0} PROVE Round(x, y) \in Nat
  <1>1. 2 * x + y \in Nat /\ 2 * y \in Nat \ {0}
    OBVIOUS
  <1>2. \A a \in Nat, b \in Nat \ {0} : a \div b \in Nat
    OBVIOUS
  <1> QED
    BY <1>1, <1>2 DEF Round

LEMMA RequiredNat == ASSUME NEW tm \in Terms PROVE RequiredCollateral(tm.principal, tm.ltv) \in Nat
  <1>1. tm.principal \in Nat /\ tm.ltv \in Nat
    BY LoanBookAssumption DEF Term
  <1>2. tm.principal * tm.ltv \in Nat
    BY <1>1
  <1> QED
    BY <1>2, RoundNat DEF RequiredCollateral

LEMMA AmountsNat ==
  ASSUME NEW ln \in LoanRecord, Begun(ln)
  PROVE  /\ OutstandingCollateral(ln) \in Nat
         /\ CollateralRelease(ln) \in Nat
         /\ OutstandingPrincipal(ln) \in Nat
  <1>1. ln.locked \in Int /\ ln.released \in Int /\ ln.forfeited \in Int
    BY DEF LoanRecord
  <1>2. OutstandingCollateral(ln) \in Nat
    BY <1>1 DEF OutstandingCollateral, StillLocked, AtLeastZero
  <1> DEFINE p == ln.terms.principal
             r == RepaidTotal(ln)
             x == AtLeastZero(ln.locked * r * (100 - SafetyBuffer) - ln.released * p * 100)
  <1>3. p \in Nat \ {0} /\ r \in Int /\ SafetyBuffer \in Int
    BY LoanBookAssumption, SafetyBufferAssumption, RepaidInt DEF Term, Begun
  <1> HIDE DEF p, r
  <1>4. x \in Nat /\ p * 100 \in Nat \ {0} /\ StillOwed(p, r) \in Nat
    BY <1>1, <1>3 DEF AtLeastZero, StillOwed
  <1>5. Round(x, p * 100) \in Nat
    BY <1>4, RoundNat
  <1> QED
    BY <1>2, <1>4, <1>5 DEF CollateralRelease, ReleaseDue, OutstandingPrincipal, p, r

(***************************************************************************)
(* The inductive invariant.  Amounts in a handler's hands are none below   *)
(* zero, and what a withdrawal has found available is still available: its *)
(* gateway call gives nobody else a turn.                                  *)
(***************************************************************************)
SolventInv ==
    /\ VaultsSolvent
    /\ \A t \in Tasks :
         /\ task[t].amount \in Nat /\ task[t].excess \in Nat
         /\ task[t].at = "withdraw" => task[t].amount <= Available(vault[task[t].guarantor])
    /\ \A l \in LoanIds : loan[l].locked \in Nat

\* While a handler waits where it does not yield, nobody else has a turn: it
\* goes on, or at most the partner decides something.
LEMMA OnlyIt ==
  ASSUME [Next]_vars, NEW t \in Tasks, ~Parked(t)
  PROVE  Continue(t) \/ UNCHANGED <<vault, position, loan, book, attested, task, now>>
  <1>1. task[t].at # "idle"
    BY DEF Parked
  <1>2. ASSUME NEW u \in Tasks, HasTurn(u) PROVE u = t
    BY <1>2 DEF HasTurn
  <1>3. ASSUME NEW u \in Tasks, Request(u) \/ Sweep(u) PROVE FALSE
    <2>1. Starts(u)
      BY <1>3 DEF Request, Deposit, Withdraw, Originate, Attest, Reconcile, PollStatus, Sweep
    <2> QED
      BY <1>1, <1>2, <2>1 DEF Starts
  <1>4. ASSUME NEW u \in Tasks, Continue(u) PROVE u = t
    <2>1. HasTurn(u)
      BY <1>4 DEF Continue, DepositReturns, WithdrawReturns, QuoteReturns, LockReturns,
         RecordReturns, DisburseReturns, DisburseTimesOut, DisburseRejects, UnwindReturns,
         UnwindCloseReturns, VerifyReturns, RepayReturns, ReleaseReturns, CloseReturns,
         LiquidateReturns, LiquidateCloseReturns, StatusReturns, EvaluateClosed,
         EvaluateMissed, EvaluateOther, EvaluateExpired, Evaluates, Resumes
    <2> QED
      BY <1>2, <2>1
  <1>5. ~DayPasses
    BY DEF DayPasses
  <1>6. Handlers \subseteq Tasks /\ Job \in Tasks
    BY DEF Tasks
  <1> QED
    BY <1>3, <1>4, <1>5, <1>6 DEF Next, vars, PartnerDecides

LEMMA LockedKept ==
  ASSUME TypeInv, SolventInv, [Next]_vars, NEW l \in LoanIds PROVE loan'[l].locked \in Nat
  <1>1. loan[l] \in LoanRecord /\ loan[l].locked \in Nat
    BY DEF SolventInv, TypeInv, TypeOK
  <1>2. ASSUME NEW t \in Tasks, SweptTo(t, l) PROVE loan'[l].locked = loan[l].locked
    <2> DEFINE x == Marked(t, l)
    <2>1. x \in LoanRecord /\ Begun(x)
      BY <1>2, MarkedTyped DEF SweptTo
    <2>2. SameContract(x, loan[l])
      BY <1>1, ItemsFields DEF Marked
    <2> HIDE DEF x
    <2>3. SameContract(loan'[l], x)
      BY <1>2, <2>1, InGraceFields, DefaultedFields, AmountsInt DEF SweptTo, x, SameContract
    <2> QED
      BY <2>2, <2>3 DEF SameContract
  <1>3. ASSUME NEW t \in Tasks, FlaggedTo(t, l) PROVE loan'[l].locked = loan[l].locked
    BY <1>1, <1>3, FlaggedFields DEF FlaggedTo, SameContract
  <1>4. ASSUME NEW t \in Tasks, HandledTo(t, l) PROVE loan'[l].locked \in Nat
    <2>1. /\ task[t] \in TaskRecord /\ task[t].amount \in Int /\ task[t].excess \in Int
          /\ task[t].full \in BOOLEAN /\ task[t].loan = l
      BY <1>4, MovingTyped DEF HandledTo, TaskRecord
    <2>2. CASE task[t].at = "quote"
      <3>1. loan'[l] = NewLoan(task[t].guarantor, task[t].beneficiary, task[t].terms)
            /\ task[t].terms \in Terms
        BY <1>4, <2>2 DEF HandledTo, TypeInv, Fits
      <3> QED
        BY <3>1, RequiredNat, NewLoanFields
    <2>3. CASE task[t].at = "verify"
      BY <1>1, <1>4, <2>3, ItemsFields DEF HandledTo, SameContract
    <2>4. CASE task[t].at = "repay"
      BY <1>1, <1>4, <2>1, <2>4, SettledFields DEF HandledTo, SameContract
    <2>5. CASE task[t].at = "release"
      <3> DEFINE ln == [loan[l] EXCEPT !.released = @ + task[t].amount]
      <3>1. Begun(loan[l])
        BY <2>1, <2>5, MovingTyped DEF LoanAwaits
      <3>2. ln \in LoanRecord /\ ln.locked = loan[l].locked
        BY <1>1, <2>1, <3>1, ReleasedTyped, ReleasedFields DEF SameContract
      <3>3. loan'[l] = Settled(ln, task[t].full)
        BY <1>4, <2>5 DEF HandledTo
      <3> HIDE DEF ln
      <3> QED
        BY <1>1, <2>1, <3>2, <3>3, SettledFields DEF SameContract
    <2>6. CASE task[t].at = "liquidate"
      <3>1. Begun(loan[l])
        BY <2>1, <2>6, MovingTyped DEF LoanAwaits
      <3> QED
        BY <1>1, <1>4, <2>1, <2>6, <3>1, DefaultedFields DEF HandledTo, SameContract
    <2> QED
      BY <1>4, <2>2, <2>3, <2>4, <2>5, <2>6 DEF HandledTo
  <1> QED
    BY <1>1, <1>2, <1>3, <1>4, EveryLoanMoves DEF LoanMoves

LEMMA TaskAmountsKept ==
  ASSUME TypeInv, SolventInv, [Next]_vars, NEW t \in Tasks
  PROVE  task'[t].amount \in Nat /\ task'[t].excess \in Nat
  <1> DEFINE x == task'[t]
             l == x.loan
  <1>1. task[t].amount \in Nat /\ task[t].excess \in Nat
    BY DEF SolventInv
  <1>2. Amounts \subseteq Nat
    BY LoanBookAssumption
  <1>3. CASE Arrives(t, x) /\ x.at = "repay"
    <2>1. x.excess \in Nat
      BY <1>1, <1>3 DEF Arrives
    <2>2. l = task[t].loan /\ task[t].at = "verify"
      BY <1>3 DEF Arrives
    <2>3. loan[l] \in LoanRecord /\ Begun(loan[l])
      BY <2>2, MovingTyped DEF LoanAwaits
    <2> DEFINE ln == WithItems(loan[l], {task[t].n}, "repaid")
    <2>4. ln \in LoanRecord /\ Begun(ln)
      BY <2>3, ItemsTyped
    <2>5. x.amount = IF x.full THEN OutstandingCollateral(ln) ELSE CollateralRelease(ln)
      BY <1>3 DEF Arrives
    <2> HIDE DEF ln
    <2>6. x.amount \in Nat
      BY <2>4, <2>5, AmountsNat
    <2> QED
      BY <2>1, <2>6
  <1>4. CASE Arrives(t, x) /\ x.at = "liquidate"
    <2> DEFINE ln == Marked(t, l)
    <2>1. l \in LoanIds /\ loan[l].status # "none"
      BY <1>4, MovingTyped DEF Arrives, GraceExpired, TaskRecord
    <2>2. ln \in LoanRecord /\ Begun(ln)
      BY <2>1, MarkedTyped
    <2>3. /\ x.amount = Forfeit(OutstandingPrincipal(ln), OutstandingCollateral(ln))
          /\ x.excess = OutstandingCollateral(ln) - x.amount
      BY <1>4 DEF Arrives
    <2> HIDE DEF ln
    <2>4. OutstandingPrincipal(ln) \in Nat /\ OutstandingCollateral(ln) \in Nat
      BY <2>2, AmountsNat
    <2> QED
      BY <2>3, <2>4 DEF Forfeit, Least
  <1>5. CASE Arrives(t, x) /\ x.at \notin {"repay", "liquidate"}
    <2>1. x.excess \in Nat
      BY <1>1, <1>5 DEF Arrives
    <2> HIDE DEF x
    <2>2. x.at \in {"deposit", "withdraw"} => x.amount \in Amounts
      BY <1>5 DEF Arrives
    <2>3. x.at \notin {"deposit", "withdraw"} => x.amount = 0 \/ x.amount = task[t].amount
      BY <1>5 DEF Arrives
    <2>4. x.amount \in Nat
      <3>1. CASE x.at \in {"deposit", "withdraw"}
        BY <1>2, <2>2, <3>1
      <3>2. CASE x.at \notin {"deposit", "withdraw"}
        BY <1>1, <2>3, <3>2
      <3> QED
        BY <3>1, <3>2
    <2> QED
      BY <2>1, <2>4 DEF x
  <1> QED
    BY <1>1, <1>3, <1>4, <1>5, EveryTaskMoves DEF TaskMoves

LEMMA VaultStaysSolvent ==
  ASSUME TypeInv, SolventInv, [Next]_vars, NEW g \in Guarantors PROVE Solvent(vault'[g])
  <1> DEFINE v == vault[g]
  <1>1. v \in VaultAccount /\ Solvent(v)
    BY DEF TypeInv, TypeOK, SolventInv, VaultsSolvent, Solvent
  <1>2. \A a, b \in Nat : Solvent(VaultAfterDefault(v, a, b))
    BY <1>1, VaultOperationsSolvent DEF VaultAfterDefault
  <1>3. ASSUME NEW t \in Tasks, NEW l \in LoanIds, GraceExpired(t, l)
        PROVE  OutstandingCollateral(Marked(t, l)) \in Nat
    BY <1>3, MarkedTyped, AmountsNat DEF GraceExpired
  <1>4. \A t \in Tasks : task[t].amount \in Nat /\ task[t].excess \in Nat
    BY DEF SolventInv
  <1>5. \A l \in LoanIds : loan[l].locked \in Nat
    BY DEF SolventInv
  <1>6. \A t \in Tasks : task[t].at = "withdraw" =>
          task[t].amount <= Available(vault[task[t].guarantor])
    BY DEF SolventInv
  <1>7. VaultMoves(g)
    BY EveryVaultMoves
  <1> QED
    BY <1>1, <1>2, <1>3, <1>4, <1>5, <1>6, <1>7, VaultOperationsSolvent DEF VaultMoves

LEMMA SolventKept ==
  ASSUME "withdraw" \notin YieldsAt, TypeInv, SolventInv, [Next]_vars PROVE SolventInv'
  <1>1. VaultsSolvent'
    BY VaultStaysSolvent DEF VaultsSolvent, Solvent
  <1>2. ASSUME NEW t \in Tasks, task'[t].at = "withdraw"
        PROVE  task'[t].amount <= Available(vault'[task'[t].guarantor])
    <2> DEFINE g == task'[t].guarantor
    <2>1. g \in Guarantors
      BY <1>2, StepTyped DEF TypeInv, Fits
    <2>2. task'[t].amount <= Available(vault[g]) /\ vault'[g] = vault[g]
      <3>1. CASE Arrives(t, task'[t])
        BY <1>2, <3>1 DEF Arrives, Beginnings, Sweeping
      <3>2. CASE task'[t] = task[t]
        <4>1. ~Parked(t) /\ task[t].at = "withdraw"
          BY <1>2, <3>2 DEF Parked
        <4>2. vault' = vault \/ WithdrawReturns(t)
          BY <4>1, OnlyIt DEF Continue, DepositReturns, QuoteReturns, LockReturns,
             RecordReturns, DisburseReturns, DisburseTimesOut, DisburseRejects,
             UnwindReturns, UnwindCloseReturns, VerifyReturns, RepayReturns,
             ReleaseReturns, CloseReturns, LiquidateReturns, LiquidateCloseReturns,
             StatusReturns, EvaluateClosed, EvaluateMissed, EvaluateOther,
             EvaluateExpired, Evaluates, Resumes
        <4>3. ~WithdrawReturns(t)
          BY <1>2, EndsIdle DEF WithdrawReturns
        <4> QED
          BY <3>2, <4>1, <4>2, <4>3 DEF SolventInv
      <3> QED
        BY <3>1, <3>2, EveryTaskMoves DEF TaskMoves
    <2> QED
      BY <2>2
  <1> QED
    BY <1>1, <1>2, LockedKept, TaskAmountsKept DEF SolventInv

LEMMA AlwaysSolvent == ASSUME "withdraw" \notin YieldsAt PROVE Spec => []SolventInv
  <1>1. Init => SolventInv
    BY DEF Init, SolventInv, VaultsSolvent, EmptyVault, NoLoan, Idle
  <1>2. TypeInv /\ SolventInv /\ [Next]_vars => SolventInv'
    BY SolventKept
  <1> QED
    BY <1>1, <1>2, AlwaysTyped, PTL DEF Spec

\* Where a withdrawal's gateway call gives nobody else a turn, no vault ever
\* owes more than it holds: withdrawals, forfeits and locks never leave the
\* locked amount above the balance, nor either of them below zero.
THEOREM VaultsStaySolvent ==
  ASSUME "withdraw" \notin YieldsAt PROVE Spec => []VaultsSolvent
  <1>1. SolventInv => VaultsSolvent
    BY DEF SolventInv
  <1> QED
    BY <1>1, AlwaysSolvent, PTL

(***************************************************************************)
(* An installment is attested at most once.  While the signature is being  *)
(* verified nobody else has a turn, so what the request's checks found -   *)
(* not attested, not repaid, the loan open - still holds when the          *)
(* attestation is recorded.                                                *)
(***************************************************************************)
AttestInv ==
    /\ AttestedOnce
    /\ \A l \in LoanIds : loan[l].status = "none" => ItemsIn(loan[l], "repaid") = {}
    /\ \A t \in Tasks : task[t].at = "verify" =>
         /\ task[t].n \in Installments
         /\ Attestable(task[t].loan, task[t].n)

\* Only the end of a verification records an attestation.
LEMMA AttestedStays ==
  ASSUME [Next]_vars, \A t \in Tasks : ~VerifyReturns(t) PROVE UNCHANGED attested
  <1>1. ASSUME NEW t \in Tasks, Request(t) \/ Sweep(t) PROVE UNCHANGED attested
    BY <1>1 DEF Request, Deposit, Withdraw, Originate, Attest, Reconcile, PollStatus, Sweep
  <1>2. ASSUME NEW t \in Tasks, Continue(t) PROVE UNCHANGED attested
    BY <1>2 DEF Continue, DepositReturns, WithdrawReturns, QuoteReturns, LockReturns,
       RecordReturns, DisburseReturns, DisburseTimesOut, DisburseRejects, DisbursementEnds,
       UnwindReturns, UnwindCloseReturns, RepayReturns, ReleaseReturns,
       CloseReturns, LiquidateReturns, LiquidateCloseReturns, StatusReturns,
       EvaluateClosed, EvaluateMissed, EvaluateOther, EvaluateExpired
  <1> QED
    BY <1>1, <1>2 DEF Next, vars, PartnerDecides, DayPasses, Tasks

\* And nothing else settles an installment, or takes one back.
LEMMA RepaidStays ==
  ASSUME "verify" \notin YieldsAt, TypeInv, TimelyInv, AttestInv, [Next]_vars,
         \A t \in Tasks : ~VerifyReturns(t), NEW l \in LoanIds, NEW i \in Installments
  PROVE  loan'[l].item[i] = "repaid" <=> loan[l].item[i] = "repaid"
  <1>1. loan[l] \in LoanRecord
    BY DEF TypeInv, TypeOK
  <1>2. ASSUME NEW t \in Tasks, SweptTo(t, l)
        PROVE  loan'[l].item[i] = "repaid" <=> loan[l].item[i] = "repaid"
    <2> DEFINE x == Marked(t, l)
    <2>1. x \in LoanRecord /\ Begun(x)
      BY <1>2, MarkedTyped DEF SweptTo
    <2>2. x.item[i] = "repaid" <=> loan[l].item[i] = "repaid"
      BY <1>1, ItemsFields DEF Marked, PastDue, ItemsIn
    <2> HIDE DEF x
    <2>3. \/ loan'[l] = x
          \/ loan'[l] = InGrace(x, task[t].asOf)
          \/ loan'[l] = Defaulted(x, 0, OutstandingCollateral(x))
      BY <1>2 DEF SweptTo, x
    <2>4. loan'[l].item[i] = "repaid" <=> x.item[i] = "repaid"
      BY <2>1, <2>3, InGraceFields, DefaultedFields, AmountsInt
    <2> QED
      BY <2>2, <2>4
  <1>3. ASSUME NEW t \in Tasks, HandledTo(t, l)
        PROVE  loan'[l].item[i] = "repaid" <=> loan[l].item[i] = "repaid"
    <2>1. /\ task[t] \in TaskRecord /\ task[t].amount \in Int /\ task[t].excess \in Int
          /\ task[t].full \in BOOLEAN /\ task[t].loan = l
      BY <1>3, MovingTyped DEF HandledTo, TaskRecord
    <2>2. CASE task[t].at = "quote"
      <3>1. loan[l].item[i] # "repaid"
        BY <2>1, <2>2 DEF TimelyInv, AttestInv, ItemsIn
      <3>2. loan'[l] = NewLoan(task[t].guarantor, task[t].beneficiary, task[t].terms)
        BY <1>3, <2>2 DEF HandledTo
      <3> QED
        BY <3>1, <3>2, NewLoanFields
    <2>3. task[t].at # "verify"
      <3>1. SUFFICES ASSUME task[t].at = "verify" PROVE FALSE
        OBVIOUS
      <3>2. ~Parked(t) /\ task' # task
        BY <1>3, <3>1 DEF Parked, HandledTo
      <3>3. Continue(t)
        BY <3>2, OnlyIt
      <3> QED
        BY <3>1, <3>3 DEF Continue, DepositReturns, WithdrawReturns, QuoteReturns,
           LockReturns, RecordReturns, DisburseReturns, DisburseTimesOut, DisburseRejects,
           UnwindReturns, UnwindCloseReturns, RepayReturns, ReleaseReturns, CloseReturns,
           LiquidateReturns, LiquidateCloseReturns, StatusReturns, EvaluateClosed,
           EvaluateMissed, EvaluateOther, EvaluateExpired, Evaluates, Resumes
    <2>4. CASE task[t].at = "repay"
      BY <1>1, <1>3, <2>1, <2>4, SettledFields DEF HandledTo
    <2>5. CASE task[t].at = "release"
      <3> DEFINE ln == [loan[l] EXCEPT !.released = @ + task[t].amount]
      <3>1. Begun(loan[l])
        BY <2>1, <2>5, MovingTyped DEF LoanAwaits
      <3>2. ln \in LoanRecord /\ ln.item = loan[l].item
        BY <1>1, <2>1, <3>1, ReleasedTyped, ReleasedFields
      <3>3. loan'[l] = Settled(ln, task[t].full)
        BY <1>3, <2>5 DEF HandledTo
      <3> HIDE DEF ln
      <3> QED
        BY <2>1, <3>2, <3>3, SettledFields
    <2>6. CASE task[t].at = "liquidate"
      <3>1. Begun(loan[l])
        BY <2>1, <2>6, MovingTyped DEF LoanAwaits
      <3> QED
        BY <1>1, <1>3, <2>1, <2>6, <3>1, DefaultedFields DEF HandledTo
    <2> QED
      BY <1>3, <2>2, <2>3, <2>4, <2>5, <2>6 DEF HandledTo
  <1>4. ASSUME NEW t \in Tasks, FlaggedTo(t, l) PROVE loan'[l].item = loan[l].item
    BY <1>1, <1>4, FlaggedFields DEF FlaggedTo
  <1> QED
    BY <1>2, <1>3, <1>4, EveryLoanMoves DEF LoanMoves

\* A loan that is written is begun.
LEMMA WrittenBegun ==
  ASSUME TypeInv, [Next]_vars, NEW l \in LoanIds, loan'[l].status = "none"
  PROVE  loan'[l] = loan[l]
  <1>1. loan[l] \in LoanRecord
    BY DEF TypeInv, TypeOK
  <1>2. ASSUME NEW t \in Tasks, SweptTo(t, l) PROVE FALSE
    <2> DEFINE x == Marked(t, l)
    <2>1. x \in LoanRecord /\ Begun(x)
      BY <1>2, MarkedTyped DEF SweptTo
    <2>2. \/ loan'[l] = InGrace(x, task[t].asOf)
          \/ loan'[l] = x
          \/ loan'[l] = Defaulted(x, 0, OutstandingCollateral(x))
      BY <1>2 DEF SweptTo
    <2>3. OutstandingCollateral(x) \in Int /\ 0 \in Int
      BY <2>1, AmountsInt
    <2> HIDE DEF x
    <2>4. CASE loan'[l] = InGrace(x, task[t].asOf)
      BY <2>1, <2>4, InGraceFields
    <2>5. CASE loan'[l] = x
      BY <2>1, <2>5 DEF Begun
    <2>6. CASE loan'[l] = Defaulted(x, 0, OutstandingCollateral(x))
      BY <2>1, <2>3, <2>6, DefaultedFields
    <2> QED
      BY <2>2, <2>4, <2>5, <2>6
  <1>3. ASSUME NEW t \in Tasks, HandledTo(t, l) PROVE FALSE
    <2>1. /\ task[t].amount \in Int /\ task[t].excess \in Int /\ task[t].full \in BOOLEAN
          /\ task[t].at \in LoanAwaits => Begun(loan[l])
      BY <1>3, MovingTyped DEF HandledTo, TaskRecord
    <2>2. CASE task[t].at = "quote"
      BY <1>3, <2>2, NewLoanFields DEF HandledTo
    <2>3. CASE task[t].at = "verify"
      BY <1>1, <1>3, <2>1, <2>3, ItemsFields DEF HandledTo, LoanAwaits, Begun
    <2>4. CASE task[t].at = "repay"
      BY <1>1, <1>3, <2>1, <2>4, SettledFields DEF HandledTo, LoanAwaits, Begun
    <2>5. CASE task[t].at = "release"
      <3> DEFINE ln == [loan[l] EXCEPT !.released = @ + task[t].amount]
      <3>1. ln \in LoanRecord /\ Begun(ln)
        BY <1>1, <2>1, <2>5, ReleasedTyped DEF LoanAwaits
      <3>2. loan'[l] = Settled(ln, task[t].full)
        BY <1>3, <2>5 DEF HandledTo
      <3> HIDE DEF ln
      <3> QED
        BY <2>1, <3>1, <3>2, SettledFields DEF Begun
    <2>6. CASE task[t].at = "liquidate"
      BY <1>1, <1>3, <2>1, <2>6, DefaultedFields DEF HandledTo, LoanAwaits
    <2> QED
      BY <1>3, <2>2, <2>3, <2>4, <2>5, <2>6 DEF HandledTo
  <1>4. ASSUME NEW t \in Tasks, FlaggedTo(t, l) PROVE FALSE
    BY <1>1, <1>4, FlaggedFields DEF FlaggedTo
  <1> QED
    BY <1>2, <1>3, <1>4, EveryLoanMoves DEF LoanMoves

LEMMA AttestKept ==
  ASSUME "verify" \notin YieldsAt, TypeInv, TimelyInv, AttestInv, [Next]_vars PROVE AttestInv'
  <1>1. AttestedOnce'
    <2>1. CASE \A t \in Tasks : ~VerifyReturns(t)
      BY <2>1, AttestedStays, RepaidStays DEF AttestInv, AttestedOnce
    <2>2. ASSUME NEW t \in Tasks, VerifyReturns(t) PROVE AttestedOnce'
      <3> DEFINE m == task[t].loan
                 n == task[t].n
      <3>1. /\ m \in LoanIds /\ n \in Installments /\ Attestable(m, n)
            /\ loan[m] \in LoanRecord /\ task[t].at = "verify"
        BY <2>2, MovingTyped DEF VerifyReturns, Resumes, AttestInv, LoanAwaits
      <3>2. /\ attested' = [attested EXCEPT ![m][n] = @ + 1]
            /\ loan' = [loan EXCEPT ![m] = WithItems(loan[m], {n}, "repaid")]
        BY <2>2 DEF VerifyReturns
      <3>3. attested \in [LoanIds -> [Installments -> Nat]]
        BY DEF TypeInv, TypeOK
      <3> HIDE DEF m, n
      <3>4. ASSUME NEW l \in LoanIds, NEW i \in Installments
            PROVE  attested'[l][i] = IF loan'[l].item[i] = "repaid" THEN 1 ELSE 0
        <4>1. attested[l][i] = IF loan[l].item[i] = "repaid" THEN 1 ELSE 0
          BY DEF AttestInv, AttestedOnce
        <4>2. CASE l = m /\ i = n
          <5>1. attested'[l][i] = 1
            BY <3>1, <3>2, <3>3, <4>2 DEF Attestable
          <5>2. loan'[m] = WithItems(loan[m], {n}, "repaid")
            BY <3>1, <3>2, OneLoanWritten
          <5>3. n \in {n} /\ n \in Installments
            BY <3>1
          <5>4. WithItems(loan[m], {n}, "repaid").item[n] = "repaid"
            BY <3>1, <5>3, ItemsFields
          <5> QED
            BY <4>2, <5>1, <5>2, <5>4
        <4>3. CASE l = m /\ i # n
          <5>1. attested'[l][i] = attested[l][i]
            BY <3>2, <3>3, <4>3
          <5>2. loan'[l].item[i] = loan[l].item[i]
            BY <3>1, <3>2, <4>3, OneLoanWritten, ItemsFields
          <5> QED
            BY <4>1, <5>1, <5>2
        <4>4. CASE l # m
          <5>1. attested'[l][i] = attested[l][i]
            BY <3>2, <3>3, <4>4
          <5>2. loan'[l] = loan[l]
            BY <3>1, <3>2, <4>4, OneLoanWritten
          <5> QED
            BY <4>1, <5>1, <5>2
        <4> QED
          BY <4>2, <4>3, <4>4
      <3> QED
        BY <3>4 DEF AttestedOnce
    <2> QED
      BY <2>1, <2>2
  <1>2. ASSUME NEW l \in LoanIds, loan'[l].status = "none"
        PROVE  ItemsIn(loan'[l], "repaid") = {}
    BY <1>2, WrittenBegun DEF AttestInv
  <1>3. ASSUME NEW t \in Tasks, task'[t].at = "verify"
        PROVE  task'[t].n \in Installments /\ Attestable(task[t].loan, task[t].n)'
    <2>1. CASE task'[t] = task[t]
      <3>1. ~VerifyReturns(t)
        BY <1>3, GoesOnToRepay
      <3>2. ~Parked(t) /\ task[t].at = "verify"
        BY <1>3, <2>1 DEF Parked
      <3>3. UNCHANGED <<loan, attested>>
        BY <3>1, <3>2, OnlyIt DEF Continue, DepositReturns, WithdrawReturns, QuoteReturns,
           LockReturns, RecordReturns, DisburseReturns, DisburseTimesOut, DisburseRejects,
           UnwindReturns, UnwindCloseReturns, RepayReturns, ReleaseReturns, CloseReturns,
           LiquidateReturns, LiquidateCloseReturns, StatusReturns, EvaluateClosed,
           EvaluateMissed, EvaluateOther, EvaluateExpired, Evaluates, Resumes
      <3> QED
        BY <2>1, <3>2, <3>3 DEF AttestInv, Attestable
    <2>2. CASE Arrives(t, task'[t])
      BY <1>3, <2>2 DEF Arrives, Beginnings, Sweeping, Attestable
    <2> QED
      BY <2>1, <2>2, EveryTaskMoves DEF TaskMoves
  <1> QED
    BY <1>1, <1>2, <1>3 DEF AttestInv

\* Where a signature's verification gives nobody else a turn, an installment is
\* attested at most once, and only an attested installment counts as repaid.
THEOREM NoSecondAttestation ==
  ASSUME "verify" \notin YieldsAt PROVE Spec => []AttestedOnce
  <1>1. Init => AttestInv
    BY DEF Init, AttestInv, AttestedOnce, ItemsIn, NoLoan, Idle
  <1>2. TypeInv /\ TimelyInv /\ AttestInv /\ [Next]_vars => AttestInv'
    BY AttestKept
  <1>3. AttestInv => AttestedOnce
    BY DEF AttestInv
  <1> QED
    BY <1>1, <1>2, <1>3, AlwaysTyped, AlwaysTimely, PTL DEF Spec
=============================================================================
