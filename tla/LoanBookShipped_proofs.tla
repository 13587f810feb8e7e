----------------------- MODULE LoanBookShipped_proofs -----------------------
(***************************************************************************)
(* What the wiring the repository ships makes true of the loan book: with  *)
(* its gateway and partner a handler gives others a turn only while it     *)
(* waits for the disbursement, so a handler that has computed an amount or *)
(* checked a loan still finds it so when it acts on it.                    *)
(***************************************************************************)
EXTENDS LoanBook_proofs

\* Only a pending disbursement gives other tasks a turn.
OneAtATime == YieldsAt \subseteq {"disburse"}

\* The operator works from the listing of unknown disbursements.
FromTheListing == Operator # "any"

\* What the repository's partner, operator and settings add: a rejected
\* disbursement was not paid, loans are reconciled while they are open, and a
\* missed installment is followed by some grace.
AsShipped ==
    /\ OneAtATime
    /\ "drops" \notin PartnerFailures
    /\ Operator = "prompt"
    /\ GracePeriod > 0

-----------------------------------------------------------------------------
(* Whose turn it is                                                        *)

\* A step moves one task.
LEMMA OneTaskSteps ==
  ASSUME TypeInv, NEW t \in Tasks, Request(t) \/ Sweep(t) \/ Continue(t)
  PROVE  \A u \in Tasks \ {t} : task'[u] = task[u]
  <1>1. ASSUME NEW x, task' = [task EXCEPT ![t] = x]
        PROVE  \A u \in Tasks \ {t} : task'[u] = task[u]
    BY <1>1 DEF TypeInv, TypeOK
  <1>2. ASSUME NEW a, NEW o, task' = [task EXCEPT ![t].at = a, ![t].answer = o]
        PROVE  \A u \in Tasks \ {t} : task'[u] = task[u]
    BY <1>2 DEF TypeInv, TypeOK
  <1>3. CASE Request(t) \/ Sweep(t)
    BY <1>1, <1>3 DEF Request, Deposit, Withdraw, Originate, Attest, Reconcile, PollStatus,
       Sweep, Resolve, Ends, StartUnwind
  <1>4. CASE \/ DepositReturns(t) \/ WithdrawReturns(t) \/ QuoteReturns(t) \/ LockReturns(t)
             \/ DisburseReturns(t) \/ DisburseTimesOut(t) \/ DisburseRejects(t)
             \/ UnwindReturns(t) \/ UnwindCloseReturns(t)
    BY <1>1, <1>2, <1>4 DEF DepositReturns, WithdrawReturns, QuoteReturns, LockReturns,
       DisburseReturns, DisburseTimesOut, DisburseRejects, DisbursementEnds,
       StartUnwind, UnwindReturns, UnwindCloseReturns, Ends
  <1>5. CASE RecordReturns(t)
    <2>1. CASE Ends(t)
      BY <1>1, <2>1 DEF Ends
    <2>2. CASE task' = [task EXCEPT ![t].at = "disburse", ![t].answer = "ok", ![t].asOf = now]
      BY <2>2 DEF TypeInv, TypeOK
    <2> QED
      BY <1>5, <2>1, <2>2 DEF RecordReturns
  <1>6. CASE VerifyReturns(t) \/ RepayReturns(t) \/ ReleaseReturns(t) \/ CloseReturns(t)
    BY <1>1, <1>2, <1>6 DEF VerifyReturns, RepayReturns, ReleaseReturns, CloseReturns,
       SettleInstallment, Ends
  <1>7. CASE LiquidateReturns(t) \/ LiquidateCloseReturns(t) \/ StatusReturns(t)
    BY <1>1, <1>7 DEF LiquidateReturns, LiquidateCloseReturns, StatusReturns, SettleDefault,
       Proceeds, Resolve, StartUnwind, Ends
  <1>8. ASSUME NEW l \in LoanIds, \/ EvaluateClosed(t, l) \/ EvaluateMissed(t, l)
                                  \/ EvaluateOther(t, l) \/ EvaluateExpired(t, l)
        PROVE  \A u \in Tasks \ {t} : task'[u] = task[u]
    BY <1>1, <1>8 DEF EvaluateClosed, EvaluateMissed, EvaluateOther, EvaluateExpired,
       SettleDefault, Proceeds
  <1> QED
    BY <1>3, <1>4, <1>5, <1>6, <1>7, <1>8 DEF Continue

LEMMA SomeTaskMoves ==
  ASSUME TypeInv, [Next]_vars
  PROVE  \E t \in Tasks : \A u \in Tasks \ {t} : task'[u] = task[u]
  <1>1. CASE UNCHANGED task
    BY <1>1 DEF Tasks
  <1> QED
    BY <1>1, OneTaskSteps DEF Next, vars, PartnerDecides, DayPasses, Tasks

\* So no two handlers are ever between two steps of theirs that belong together.
BusyOnce == \A t, u \in Tasks : ~Parked(t) /\ ~Parked(u) => t = u

LEMMA BusyOnceKept == ASSUME TypeInv, BusyOnce, [Next]_vars PROVE BusyOnce'
  <1>1. PICK w \in Tasks : \A v \in Tasks \ {w} : task'[v] = task[v]
    BY SomeTaskMoves
  <1>2. ASSUME NEW v \in Tasks, NEW z \in Tasks, v # z, task'[v] = task[v], ~Parked(v)',
               ~Parked(z)'
        PROVE  FALSE
    <2>1. ~Parked(v)
      BY <1>2 DEF Parked
    <2>2. ~HasTurn(z)
      BY <1>2, <2>1 DEF HasTurn
    <2>3. task'[z] = task[z]
      BY <2>2, EveryTaskMoves DEF TaskMoves
    <2>4. ~Parked(z)
      BY <1>2, <2>3 DEF Parked
    <2> QED
      BY <1>2, <2>1, <2>4 DEF BusyOnce
  <1>3. ASSUME NEW t \in Tasks, NEW u \in Tasks, ~Parked(t)', ~Parked(u)' PROVE t = u
    BY <1>1, <1>2, <1>3
  <1> QED
    BY <1>3 DEF BusyOnce

\* A handler that goes on does not stay where it was.
LEMMA GoesOn == ASSUME TypeInv, NEW t \in Tasks, Continue(t) PROVE task'[t] # task[t]
  <1>1. ASSUME Ends(t), task[t].at # "idle" PROVE task'[t] # task[t]
    BY <1>1, EndsIdle
  <1>2. ASSUME NEW a, NEW o, task' = [task EXCEPT ![t].at = a, ![t].answer = o], task[t].at # a
        PROVE  task'[t] # task[t]
    <2>1. task'[t].at = a
      BY <1>2 DEF TypeInv, TypeOK, TaskRecord
    <2> QED
      BY <1>2, <2>1
  <1>3. ASSUME NEW x, task' = [task EXCEPT ![t] = x], task[t].at # x.at
        PROVE  task'[t] # task[t]
    BY <1>3, TaskWritten
  <1>4. CASE DepositReturns(t) \/ WithdrawReturns(t) \/ CloseReturns(t)
    BY <1>1, <1>4 DEF DepositReturns, WithdrawReturns, CloseReturns, Resumes
  <1>5. CASE QuoteReturns(t)
    <2>1. ASSUME NEW w, task' = [task EXCEPT ![t] = [Idle EXCEPT !.at = "lock",
                                   !.loan = task[t].loan, !.answer = w]]
          PROVE  task'[t].at = "lock"
      BY <2>1, GoesOnWithLoan
    <2> QED
      BY <1>1, <1>5, <2>1 DEF QuoteReturns, Resumes
  <1>6. CASE LockReturns(t) \/ UnwindReturns(t) \/ UnwindCloseReturns(t)
    BY <1>1, <1>2, <1>6 DEF LockReturns, UnwindReturns, UnwindCloseReturns, Resumes
  <1>7. CASE RecordReturns(t)
    <2>1. CASE task' = [task EXCEPT ![t].at = "disburse", ![t].answer = "ok", ![t].asOf = now]
      <3>1. task'[t].at = "disburse"
        BY <2>1 DEF TypeInv, TypeOK, TaskRecord
      <3> QED
        BY <1>7, <3>1 DEF RecordReturns, Resumes
    <2> QED
      BY <1>1, <1>7, <2>1 DEF RecordReturns, Resumes
  <1>8. ASSUME NEW l, StartUnwind(t, l), task[t].at # "unwind" PROVE task'[t] # task[t]
    <2>1. ASSUME NEW o, task' = [task EXCEPT ![t] = [Idle EXCEPT !.at = "unwind", !.loan = l,
                                   !.answer = o]]
          PROVE  task'[t].at = "unwind"
      BY <2>1, GoesOnWithLoan
    <2> QED
      BY <1>8, <2>1 DEF StartUnwind
  <1>9. CASE DisburseReturns(t) \/ DisburseTimesOut(t) \/ DisburseRejects(t)
    BY <1>1, <1>8, <1>9 DEF DisburseReturns, DisburseTimesOut, DisburseRejects,
       DisbursementEnds, Resumes
  <1>10. CASE StatusReturns(t)
    BY <1>1, <1>8, <1>10 DEF StatusReturns, Resolve, Resumes
  <1>11. CASE VerifyReturns(t)
    BY <1>11, GoesOnToRepay DEF VerifyReturns, Resumes
  <1>12. CASE RepayReturns(t) \/ ReleaseReturns(t)
    <2>1. ASSUME NEW ln, SettleInstallment(t, ln), task[t].at \in {"repay", "release"}
          PROVE  task'[t] # task[t]
      BY <2>1, GoesOnToClose
    <2> QED
      BY <1>1, <1>2, <1>12, <2>1 DEF RepayReturns, ReleaseReturns, Resumes
  <1>13. ASSUME NEW left, Proceeds(t, left), task[t].at \in Sweeping,
                task[t].at = "next" => left # task[t].todo
         PROVE  task'[t] # task[t]
    <2>1. CASE left = {}
      <3>1. Ends(t)
        BY <1>13, <2>1 DEF Proceeds, Ends
      <3> QED
        BY <1>1, <1>13, <3>1 DEF Sweeping
    <2>2. CASE left # {}
      <3> DEFINE x == [Idle EXCEPT !.at = "next", !.todo = left, !.asOf = task[t].asOf]
      <3>1. x.at = "next" /\ x.todo = left
        BY DEF Idle
      <3>2. task' = [task EXCEPT ![t] = x]
        BY <1>13, <2>2 DEF Proceeds
      <3> HIDE DEF x
      <3> QED
        BY <1>13, <3>1, <3>2, TaskWritten
    <2> QED
      BY <2>1, <2>2
  <1>14. ASSUME NEW l, NEW ln, NEW f, NEW r, NEW left, SettleDefault(t, l, ln, f, r, left),
                task[t].at # "liquidateClose"
         PROVE  task'[t] # task[t]
    BY <1>14, GoesOnToLiquidateClose
  <1>15. CASE LiquidateReturns(t) \/ LiquidateCloseReturns(t)
    BY <1>13, <1>14, <1>15 DEF LiquidateReturns, LiquidateCloseReturns, Resumes, Sweeping
  <1>16. ASSUME NEW l \in LoanIds, \/ EvaluateClosed(t, l) \/ EvaluateMissed(t, l)
                                   \/ EvaluateOther(t, l) \/ EvaluateExpired(t, l)
         PROVE  task'[t] # task[t]
    <2>1. task[t].at = "next" /\ task[t].todo \ {l} # task[t].todo
      BY <1>16 DEF EvaluateClosed, EvaluateMissed, EvaluateOther, EvaluateExpired, Evaluates,
         Resumes
    <2>2. CASE EvaluateExpired(t, l)
      <3> DEFINE ln == Marked(t, l)
                 held == OutstandingCollateral(ln)
                 f == Forfeit(OutstandingPrincipal(ln), held)
                 e == held - f
                 left == task[t].todo \ {l}
      <3>1. CASE SettleDefault(t, l, ln, 0, held, left)
        BY <1>14, <2>1, <3>1
      <3>2. CASE \E o \in Outcomes : task' = [task EXCEPT ![t] = [Idle EXCEPT
                   !.at = "liquidate", !.answer = o, !.loan = l, !.amount = f,
                   !.excess = e, !.todo = left, !.asOf = task[t].asOf]]
        <4> HIDE DEF f, e, left
        <4>1. PICK o : task' = [task EXCEPT ![t] = [Idle EXCEPT
                   !.at = "liquidate", !.answer = o, !.loan = l, !.amount = f,
                   !.excess = e, !.todo = left, !.asOf = task[t].asOf]]
          BY <3>2
        <4> DEFINE x == [Idle EXCEPT !.at = "liquidate", !.answer = o, !.loan = l,
                           !.amount = f, !.excess = e, !.todo = left, !.asOf = task[t].asOf]
        <4>2. x.at = "liquidate"
          BY DEF Idle
        <4>3. task' = [task EXCEPT ![t] = x]
          BY <4>1
        <4> HIDE DEF x
        <4> QED
          BY <1>3, <2>1, <4>2, <4>3
      <3> QED
        BY <2>2, <3>1, <3>2 DEF EvaluateExpired
    <2> QED
      BY <1>13, <1>16, <2>1, <2>2 DEF EvaluateClosed, EvaluateMissed, EvaluateOther, Sweeping
  <1> QED
    BY <1>4, <1>5, <1>6, <1>7, <1>9, <1>10, <1>11, <1>12, <1>15, <1>16 DEF Continue

\* So while a handler waits and does not yield, only payouts may change.
LEMMA BusyRests ==
  ASSUME TypeInv, [Next]_vars, NEW t \in Tasks, ~Parked(t), task'[t] = task[t]
  PROVE  UNCHANGED <<vault, position, loan, book, attested, task, now>>
  BY OnlyIt, GoesOn

-----------------------------------------------------------------------------
(* What a handler has in hand                                              *)

\* Awaits on behalf of a loan that is in the store.
Stored == {"record", "disburse", "status", "unwind", "unwindClose", "verify", "repay",
           "release", "liquidate"}

\* Await by await, what still holds when the handler resumes: its request's
\* checks, its loan, and the amounts it computed.
InHand(t) ==
    LET l == task[t].loan
        held == OutstandingCollateral(loan[l])
    IN /\ task[t].at = "quote" => ~ExistingLoan(task[t].guarantor, task[t].beneficiary)
       /\ task[t].at = "lock" =>
            l \notin book /\ ~ExistingLoan(loan[l].guarantor, loan[l].beneficiary)
       /\ task[t].at \in {"lock", "record"} => loan[l].born = now
       /\ task[t].at \in {"lock", "record", "disburse"} => loan[l].disbursement = "none"
       /\ task[t].at = "disburse" =>
            task[t].asOf = loan[l].born /\ now <= loan[l].born + 1 /\ payout[l] # "none"
       /\ task[t].at = "status" => loan[l].disbursement = "unknown"
       /\ task[t].at \in Stored => l \in book
       /\ task[t].at \in {"verify", "repay", "release"} => payout[l] = "paid"
       /\ task[t].at \in {"repay", "release"} =>
            /\ IsOpen(loan[l]) /\ task[t].full = AllRepaid(loan[l])
            /\ task[t].amount = IF task[t].full THEN held ELSE CollateralRelease(loan[l])
       /\ task[t].at = "release" => task[t].amount > 0
       /\ task[t].at = "liquidate" =>
            /\ GraceExpired(t, l) /\ task[t].amount > 0
            /\ task[t].amount = Forfeit(OutstandingPrincipal(loan[l]), held)
            /\ task[t].excess = held - task[t].amount
       /\ task[t].at \in Sweeping => task[t].todo \subseteq book

\* A loan being disbursed is nobody else's to disburse or unwind.
DisbursedAlone ==
    \A t, u \in Tasks :
        /\ task[t].at = "disburse" /\ task[u].at \in {"disburse", "unwind", "unwindClose"}
        /\ task[t].loan = task[u].loan
        => t = u

TurnInv == BusyOnce /\ (\A t \in Tasks : InHand(t)) /\ DisbursedAlone

\* Whoever has the turn is the only one not suspended where the event loop
\* may leave it.
LEMMA TurnIsTaken ==
  ASSUME OneAtATime, NEW t \in Tasks, HasTurn(t), NEW u \in Tasks,
         task[u].at \notin {"idle", "disburse"}
  PROVE  u = t /\ ~Parked(u)
  BY DEF HasTurn, Parked, OneAtATime

\* The store gains a loan only when its collateral has been locked.
LEMMA BookGrows ==
  ASSUME FromTheListing, TypeInv, TurnInv, [Next]_vars, NEW l \in LoanIds, l \in book', l \notin book
  PROVE  \E t \in Tasks : LockReturns(t) /\ task[t].loan = l /\ UNCHANGED loan
  <1>1. Reconcilable \subseteq book
    BY LoanBookAssumption DEF Reconcilable, UnknownDisbursements, FromTheListing
  <1>2. ASSUME NEW t \in Tasks, Request(t) \/ Sweep(t) PROVE FALSE
    BY <1>1, <1>2 DEF Request, Deposit, Withdraw, Originate, Attest, Reconcile, PollStatus,
       Sweep, Resolve
  <1>3. ASSUME NEW t \in Tasks, Continue(t) PROVE LockReturns(t) /\ task[t].loan = l
    <2>1. InHand(t)
      BY DEF TurnInv
    <2>2. CASE \/ DepositReturns(t) \/ WithdrawReturns(t) \/ QuoteReturns(t)
               \/ LockReturns(t) \/ RecordReturns(t)
      BY <2>2 DEF DepositReturns, WithdrawReturns, QuoteReturns, LockReturns, RecordReturns
    <2>3. CASE \/ DisburseReturns(t) \/ DisburseTimesOut(t) \/ DisburseRejects(t)
               \/ UnwindReturns(t) \/ UnwindCloseReturns(t)
      BY <2>1, <2>3 DEF DisburseReturns, DisburseTimesOut, DisburseRejects, DisbursementEnds,
         UnwindReturns, UnwindCloseReturns, Resumes, InHand, Stored
    <2>4. CASE VerifyReturns(t) \/ RepayReturns(t) \/ ReleaseReturns(t) \/ CloseReturns(t)
      BY <2>1, <2>4 DEF VerifyReturns, RepayReturns, ReleaseReturns, CloseReturns,
         SettleInstallment, Resumes, InHand, Stored
    <2>5. CASE LiquidateReturns(t) \/ LiquidateCloseReturns(t) \/ StatusReturns(t)
      BY <2>1, <2>5 DEF LiquidateReturns, LiquidateCloseReturns, StatusReturns, Resolve,
         SettleDefault, Resumes, InHand, Stored
    <2>6. CASE \E m \in LoanIds : \/ EvaluateClosed(t, m) \/ EvaluateMissed(t, m)
                                  \/ EvaluateOther(t, m) \/ EvaluateExpired(t, m)
      BY <2>1, <2>6 DEF EvaluateClosed, EvaluateMissed, EvaluateOther, EvaluateExpired,
         Evaluates, SettleDefault, Resumes, InHand, Sweeping
    <2> QED
      BY <1>3, <2>2, <2>3, <2>4, <2>5, <2>6 DEF Continue
  <1> QED
    BY <1>2, <1>3 DEF Next, vars, PartnerDecides, DayPasses, Tasks, LockReturns

LEMMA PaidStays ==
  ASSUME TypeInv, PayoutInv, [Next]_vars, NEW l \in LoanIds, payout[l] = "paid"
  PROVE  payout'[l] = "paid"
  BY PayoutMoves DEF PayoutInv, Originating

LEMMA AskedStays ==
  ASSUME TypeInv, PayoutInv, [Next]_vars, NEW l \in LoanIds, payout[l] # "none"
  PROVE  payout'[l] # "none"
  BY PayoutMoves DEF PayoutInv, Originating, Decided

\* While a handler waits where it does not yield, what it has in hand stays so.
LEMMA BusyInHand ==
  ASSUME TypeInv, PayoutInv, TurnInv, [Next]_vars, NEW t \in Tasks, ~Parked(t),
         task'[t] = task[t]
  PROVE  InHand(t)'
  <1>1. UNCHANGED <<loan, book, task, now>>
    BY BusyRests
  <1>2. InHand(t)
    BY DEF TurnInv
  <1>3. ASSUME task[t].at \in LoanAwaits PROVE task[t].loan \in LoanIds
    BY <1>3 DEF TypeInv, Fits
  <1>4. task[t].at \in {"verify", "repay", "release"} => payout'[task[t].loan] = "paid"
    BY <1>2, <1>3, PaidStays DEF InHand, LoanAwaits
  <1>5. task[t].at = "disburse" => payout'[task[t].loan] # "none"
    BY <1>2, <1>3, AskedStays DEF InHand, LoanAwaits
  <1>6. \A g, b : ExistingLoan(g, b)' <=> ExistingLoan(g, b)
    BY <1>1 DEF ExistingLoan
  <1>7. \A l : GraceExpired(t, l)' <=> GraceExpired(t, l)
    BY <1>1 DEF GraceExpired
  <1> QED
    BY <1>1, <1>2, <1>4, <1>5, <1>6, <1>7 DEF InHand

\* A loan once begun keeps its parties, terms, date and collateral.
LEMMA ContractKept ==
  ASSUME TypeInv, TimelyInv, [Next]_vars, NEW l \in LoanIds, loan[l].status # "none"
  PROVE  SameContract(loan'[l], loan[l])
  BY EveryLoanMoves, SweptTimely, HandledTimely, FlaggedTimely DEF LoanMoves, SameContract

\* A disbursement's outcome changes only where one is noted.
LEMMA FlagStays ==
  ASSUME TypeInv, TimelyInv, [Next]_vars, NEW l \in LoanIds, loan[l].status # "none",
         \A t \in Tasks : ~FlaggedTo(t, l)
  PROVE  loan'[l].disbursement = loan[l].disbursement
  <1>1. loan[l] \in LoanRecord /\ Begun(loan[l])
    BY DEF TypeInv, TypeOK, Begun
  <1>2. ASSUME NEW t \in Tasks
        PROVE  /\ task[t].full \in BOOLEAN /\ task[t].amount \in Int /\ task[t].excess \in Int
               /\ task[t].asOf \in Nat
    BY MovingTyped DEF TaskRecord
  <1>3. ASSUME NEW t \in Tasks, SweptTo(t, l)
        PROVE  loan'[l].disbursement = loan[l].disbursement
    <2> DEFINE x == Marked(t, l)
    <2>1. x \in LoanRecord /\ Begun(x)
      BY <1>3, MarkedTyped DEF SweptTo
    <2>2. x.disbursement = loan[l].disbursement
      BY <1>1, FlagKept DEF Marked
    <2>3. OutstandingCollateral(x) \in Int
      BY <2>1, AmountsInt
    <2>4. InGrace(x, task[t].asOf).disbursement = x.disbursement
      BY <1>2, <2>1, FlagKept
    <2>5. Defaulted(x, 0, OutstandingCollateral(x)).disbursement = x.disbursement
      BY <2>1, <2>3, DefaultedFlagKept
    <2> QED
      BY <1>3, <2>2, <2>4, <2>5 DEF SweptTo
  <1>4. ASSUME NEW t \in Tasks, HandledTo(t, l)
        PROVE  loan'[l].disbursement = loan[l].disbursement
    <2>1. CASE /\ task[t].at = "quote" /\ task[t].loan = l
      BY <2>1 DEF TimelyInv
    <2>2. CASE loan'[l] = WithItems(loan[l], {task[t].n}, "repaid")
      BY <1>1, <2>2, FlagKept
    <2>3. CASE loan'[l] = Settled(loan[l], task[t].full)
      BY <1>1, <1>2, <2>3, FlagKept
    <2>4. CASE loan'[l] = Settled([loan[l] EXCEPT !.released = @ + task[t].amount], task[t].full)
      <3> DEFINE x == [loan[l] EXCEPT !.released = @ + task[t].amount]
      <3>1. x \in LoanRecord /\ x.disbursement = loan[l].disbursement
        BY <1>1, <1>2, ReleasedTyped, FlagKept
      <3>2. loan'[l] = Settled(x, task[t].full)
        BY <2>4
      <3> HIDE DEF x
      <3> QED
        BY <1>2, <3>1, <3>2, FlagKept
    <2>5. CASE loan'[l] = Defaulted(loan[l], task[t].amount, task[t].excess)
      BY <1>1, <1>2, <2>5, DefaultedFlagKept
    <2> QED
      BY <1>4, <2>1, <2>2, <2>3, <2>4, <2>5 DEF HandledTo
  <1> QED
    BY <1>3, <1>4, EveryLoanMoves DEF LoanMoves

\* While a request waits for its disbursement, what it has in hand stays so.
LEMMA DisbursingInHand ==
  ASSUME FromTheListing, TypeInv, TimelyInv, PayoutInv, TurnInv, [Next]_vars,
         NEW t \in Tasks, task[t].at = "disburse", task'[t] = task[t]
  PROVE  InHand(t)'
  <1> DEFINE l == task[t].loan
  <1>1. InHand(t) /\ l \in LoanIds /\ loan[l].status # "none" /\ now \in Nat
    BY DEF TurnInv, TypeInv, TypeOK, Fits, LoanAwaits
  <1>2. /\ l \in book /\ loan[l].disbursement = "none" /\ payout[l] # "none"
        /\ task[t].asOf = loan[l].born /\ now <= loan[l].born + 1
    BY <1>1 DEF InHand, Stored
  <1>3. l \in book'
    BY <1>2, LeavesUnwound DEF TurnInv, DisbursedAlone
  <1>4. payout'[l] # "none"
    BY <1>1, <1>2, AskedStays
  <1>5. ASSUME NEW u \in Tasks PROVE ~FlaggedTo(u, l)
    <2>1. SUFFICES ASSUME FlaggedTo(u, l) PROVE FALSE
      OBVIOUS
    <2>2. CASE task[u].at = "disburse" /\ task[u].loan = l /\ task'[u].at = "idle"
      <3>1. u = t
        BY <2>2 DEF TurnInv, DisbursedAlone
      <3> QED
        BY <2>2, <3>1
    <2>3. CASE task[u].at = "status" /\ task[u].loan = l
      BY <1>2, <2>3 DEF TurnInv, InHand
    <2>4. CASE l \in Reconcilable
      BY <1>2, <2>4, LoanBookAssumption DEF Reconcilable, UnknownDisbursements, FromTheListing
    <2> QED
      BY <2>1, <2>2, <2>3, <2>4 DEF FlaggedTo
  <1>6. loan'[l].disbursement = "none" /\ loan'[l].born = loan[l].born
    BY <1>1, <1>2, <1>5, FlagStays, ContractKept DEF SameContract
  <1>7. now' <= loan[l].born + 1
    <2>1. CASE now' = now
      BY <1>2, <2>1
    <2>2. CASE DayPasses
      BY <1>1, <1>2, <2>2 DEF DayPasses
    <2> QED
      BY <2>1, <2>2, ClockMoves
  <1> QED
    BY <1>2, <1>3, <1>4, <1>6, <1>7 DEF InHand, Stored, Sweeping

\* A loan in the store stays there while a handler has a turn that does not
\* end an unwinding.
LEMMA StaysStored ==
  ASSUME OneAtATime, TypeInv, [Next]_vars, NEW t \in Tasks, HasTurn(t),
         task[t].at # "unwindClose"
  PROVE  book \subseteq book'
  <1>1. ASSUME NEW l \in book, l \notin book' PROVE FALSE
    <2>1. PICK u \in Tasks : task[u].at = "unwindClose"
      BY <1>1, LeavesUnwound
    <2> QED
      BY <2>1, TurnIsTaken
  <1> QED
    BY <1>1

\* What a handler finds on arriving at the awaits it only looks around for.
LEMMA BeginsInHand ==
  ASSUME FromTheListing, TypeInv, PayoutInv, TurnInv, [Next]_vars, NEW t \in Tasks, HasTurn(t),
         Arrives(t, task'[t]), task'[t].at \in Beginnings
  PROVE  InHand(t)'
  <1> DEFINE x == task'[t]
  <1>1. UNCHANGED <<vault, loan, book, attested, payout, now>>
    BY DEF Arrives
  <1>2. ASSUME x.at = "quote"
        PROVE  ~ExistingLoan(task[t].guarantor, task[t].beneficiary)'
    <2>1. ~ExistingLoan(x.guarantor, x.beneficiary)
      BY <1>2 DEF Arrives
    <2> QED
      BY <1>1, <2>1 DEF ExistingLoan, IsOpen
  <1>3. x.at = "status" => /\ x.loan \in book /\ loan[x.loan].disbursement = "unknown"
    BY LoanBookAssumption DEF Arrives, Reconcilable, UnknownDisbursements, FromTheListing
  <1>4. x.at = "verify" => x.loan \in book /\ payout[x.loan] = "paid"
    BY DEF Arrives
  <1> QED
    BY <1>1, <1>2, <1>3, <1>4 DEF InHand, Beginnings, Stored, Sweeping

\* A handler that asks for collateral finds its loan new, and alone of its kind.
LEMMA LocksInHand ==
  ASSUME OneAtATime, FromTheListing, TypeInv, TimelyInv, TurnInv, [Next]_vars,
         NEW t \in Tasks, HasTurn(t), Arrives(t, task'[t]), task'[t].at = "lock"
  PROVE  InHand(t)'
  <1> DEFINE l == task[t].loan
             g == task[t].guarantor
             b == task[t].beneficiary
  <1>1. /\ task[t].at = "quote" /\ task'[t].loan = l
        /\ loan'[l] = NewLoan(g, b, task[t].terms)
    BY DEF Arrives
  <1>2. l \in LoanIds /\ loan[l].status = "none" /\ l \notin book /\ ~ExistingLoan(g, b)
        /\ book \subseteq LoanIds
    BY <1>1 DEF TypeInv, TypeOK, Fits, TimelyInv, TurnInv, InHand
  <1>3. now' = now
    BY <1>1, ClockMoves
  <1>4. loan'[l].born = now /\ loan'[l].disbursement = "none"
        /\ loan'[l].guarantor = g /\ loan'[l].beneficiary = b
    BY <1>1, NewLoanFields
  <1>5. ASSUME NEW m \in LoanIds, m \in book' PROVE m \in book
    <2>1. SUFFICES ASSUME m \notin book PROVE FALSE
      BY <1>5
    <2>2. PICK u \in Tasks : LockReturns(u)
      BY <1>5, <2>1, BookGrows
    <2> QED
      BY <1>1, <2>2, TurnIsTaken DEF LockReturns, Resumes
  <1>6. ASSUME NEW m \in LoanIds \ {l} PROVE loan'[m] = loan[m]
    <2>1. SUFFICES ASSUME NEW u \in Tasks, HasTurn(u),
                          SweptTo(u, m) \/ HandledTo(u, m) \/ FlaggedTo(u, m)
                   PROVE  FALSE
      <3>1. LoanMoves(m)
        BY EveryLoanMoves
      <3> QED
        BY <3>1 DEF LoanMoves
    <2>2. u = t
      BY <1>1, <2>1, TurnIsTaken
    <2>3. task[t].loan # m
      OBVIOUS
    <2> QED
      BY <1>1, <2>1, <2>2, <2>3 DEF SweptTo, HandledTo, FlaggedTo
  <1>7. ~ExistingLoan(loan[task[t].loan].guarantor, loan[task[t].loan].beneficiary)'
    <2>1. SUFFICES ASSUME NEW m \in book', loan'[m].guarantor = g, loan'[m].beneficiary = b,
                          IsOpen(loan'[m])
                   PROVE  FALSE
      BY <1>1, <1>4 DEF ExistingLoan
    <2>2. m \in LoanIds
      BY StepTyped DEF TypeInv, TypeOK
    <2>3. m \in book /\ loan'[m] = loan[m]
      BY <1>2, <1>5, <1>6, <2>2
    <2> QED
      BY <1>2, <2>1, <2>3 DEF ExistingLoan
  <1>8. l \notin book'
    BY <1>2, <1>5
  <1> QED
    BY <1>1, <1>3, <1>4, <1>7, <1>8 DEF InHand, Stored, Sweeping

\* And once it is locked, stored and recorded, its loan is as it made it.
LEMMA RecordsInHand ==
  ASSUME TypeInv, TurnInv, [Next]_vars, NEW t \in Tasks, HasTurn(t), Arrives(t, task'[t]),
         task'[t].at \in {"record", "disburse"}
  PROVE  InHand(t)'
  <1> DEFINE l == task[t].loan
  <1>1. /\ task[t].at \in {"lock", "record"} /\ task'[t].loan = l /\ UNCHANGED loan
        /\ task'[t].at = "disburse" => /\ task[t].at = "record" /\ book' = book
                                       /\ task'[t].asOf = now /\ payout'[l] = "asked"
        /\ task'[t].at = "record" => task[t].at = "lock" /\ l \in book'
    BY DEF Arrives
  <1>2. /\ loan[l].born = now /\ loan[l].disbursement = "none" /\ now \in Nat
        /\ task[t].at = "record" => l \in book
    BY <1>1 DEF TurnInv, InHand, Stored, TypeInv, TypeOK
  <1>3. now' = now
    BY <1>1, ClockMoves
  <1> QED
    BY <1>1, <1>2, <1>3 DEF InHand, Stored, Sweeping

LEMMA UnwindsInHand ==
  ASSUME FromTheListing, TypeInv, TurnInv, [Next]_vars, NEW t \in Tasks, HasTurn(t),
         Arrives(t, task'[t]), task'[t].at \in {"unwind", "unwindClose"}
  PROVE  InHand(t)'
  <1>1. UNCHANGED <<loan, book>>
        /\ (task'[t].at = "unwind" => Disproved(t, task'[t].loan))
        /\ (task'[t].at = "unwindClose" => task[t].at = "unwind" /\ task'[t].loan = task[t].loan)
    BY DEF Arrives
  <1>2. task'[t].loan \in book
    BY <1>1, LoanBookAssumption DEF Disproved, TurnInv, InHand, Stored, Reconcilable,
       UnknownDisbursements, FromTheListing
  <1> QED
    BY <1>1, <1>2 DEF InHand, Stored, Sweeping

LEMMA SettlesInHand ==
  ASSUME OneAtATime, TypeInv, PayoutInv, AttestInv, TurnInv, [Next]_vars, NEW t \in Tasks,
         HasTurn(t), Arrives(t, task'[t]), task'[t].at \in {"repay", "release"}
  PROVE  InHand(t)'
  <1> DEFINE l == task[t].loan
  <1>1. task[t].at \in {"verify", "repay"} /\ task'[t].loan = l
    BY DEF Arrives
  <1>2. l \in LoanIds /\ loan[l] \in LoanRecord /\ l \in book /\ payout[l] = "paid"
    BY <1>1 DEF TypeInv, TypeOK, Fits, LoanAwaits, TurnInv, InHand, Stored
  <1>3. l \in book' /\ payout'[l] = "paid"
    BY <1>1, <1>2, StaysStored, PaidStays
  <1>4. CASE task'[t].at = "repay"
    <2>1. task[t].at = "verify" /\ loan'[l] = WithItems(loan[l], {task[t].n}, "repaid")
          /\ task'[t].full = AllRepaid(loan'[l])
          /\ task'[t].amount = IF task'[t].full THEN OutstandingCollateral(loan'[l])
                                                ELSE CollateralRelease(loan'[l])
      BY <1>4 DEF Arrives
    <2>2. IsOpen(loan[l])
      BY <2>1 DEF AttestInv, Attestable
    <2>3. IsOpen(loan'[l])
      BY <1>2, <2>1, <2>2, ItemsFields DEF IsOpen
    <2> QED
      BY <1>1, <1>3, <1>4, <2>1, <2>3 DEF InHand, Stored, Sweeping
  <1>5. CASE task'[t].at = "release"
    <2>1. /\ task[t].at = "repay" /\ UNCHANGED loan /\ task'[t].full = task[t].full
          /\ task'[t].amount = task[t].amount /\ task'[t].amount > 0
      BY <1>5 DEF Arrives
    <2>2. /\ IsOpen(loan[l]) /\ task[t].full = AllRepaid(loan[l])
          /\ task[t].amount = IF task[t].full THEN OutstandingCollateral(loan[l])
                                              ELSE CollateralRelease(loan[l])
      BY <2>1 DEF TurnInv, InHand
    <2> QED
      BY <1>1, <1>3, <1>5, <2>1, <2>2 DEF InHand, Stored, Sweeping
  <1> QED
    BY <1>4, <1>5

LEMMA SweepsInHand ==
  ASSUME OneAtATime, TypeInv, TurnInv, [Next]_vars, NEW t \in Tasks, HasTurn(t),
         Arrives(t, task'[t]), task'[t].at \in Sweeping
  PROVE  InHand(t)'
  <1>1. book \subseteq book'
    <2>1. task[t].at \in Sweeping \cup {"idle"}
      BY DEF Arrives
    <2> QED
      BY <2>1, StaysStored DEF Sweeping
  <1>2. task[t].at \in Sweeping => task[t].todo \subseteq book
    BY DEF TurnInv, InHand
  <1>3. task'[t].todo \subseteq book'
    BY <1>1, <1>2 DEF Arrives
  <1>4. CASE task'[t].at = "liquidate"
    <2> DEFINE l == task'[t].loan
               x == Marked(t, l)
               held == OutstandingCollateral(x)
    <2>1. /\ task[t].at = "next" /\ l \in task[t].todo /\ GraceExpired(t, l)
          /\ task'[t].amount = Forfeit(OutstandingPrincipal(x), held)
          /\ task'[t].excess = held - task'[t].amount /\ task'[t].amount > 0
          /\ task'[t].asOf = task[t].asOf /\ loan'[l] = x
      BY <1>4 DEF Arrives
    <2>2. l \in LoanIds /\ l \in book /\ loan[l] \in LoanRecord
      BY <1>2, <2>1 DEF Sweeping, TypeInv, TypeOK
    <2>3. x.status = loan[l].status /\ x.graceEnds = loan[l].graceEnds
      BY <2>2, ItemsFields DEF Marked
    <2> HIDE DEF x
    <2>4. GraceExpired(t, task[t].loan)'
      BY <2>1, <2>3 DEF GraceExpired
    <2> QED
      BY <1>1, <1>3, <1>4, <2>1, <2>2, <2>4 DEF InHand, Stored, Sweeping
  <1>5. CASE task'[t].at # "liquidate"
    BY <1>3, <1>5 DEF InHand, Stored, Sweeping
  <1> QED
    BY <1>4, <1>5

LEMMA EveryInHand ==
  ASSUME OneAtATime, FromTheListing, TypeInv, TimelyInv, PayoutInv, AttestInv, TurnInv,
         [Next]_vars, NEW t \in Tasks
  PROVE  InHand(t)'
  <1>1. CASE task'[t] = task[t]
    <2>1. CASE task[t].at = "disburse"
      BY <1>1, <2>1, DisbursingInHand
    <2>2. CASE task[t].at = "idle"
      BY <1>1, <2>2 DEF InHand, Stored, Sweeping
    <2>3. CASE task[t].at \notin {"idle", "disburse"}
      BY <1>1, <2>3, BusyInHand DEF Parked, OneAtATime
    <2> QED
      BY <2>1, <2>2, <2>3
  <1>2. CASE HasTurn(t) /\ Arrives(t, task'[t])
    <2>1. CASE task'[t].at \notin Beginnings \cup Sweeping \cup Stored \cup {"lock"}
      BY <2>1 DEF InHand, Beginnings, Stored, Sweeping
    <2>2. task'[t].at \in Stored =>
            task'[t].at \in Beginnings \cup Sweeping \cup
              {"record", "disburse", "unwind", "unwindClose", "repay", "release"}
      BY DEF Stored, Beginnings, Sweeping
    <2> QED
      BY <1>2, <2>1, <2>2, BeginsInHand, LocksInHand, RecordsInHand, UnwindsInHand,
         SettlesInHand, SweepsInHand
  <1> QED
    BY <1>1, <1>2, EveryTaskMoves DEF TaskMoves

LEMMA AloneKept ==
  ASSUME OneAtATime, FromTheListing, TypeInv, PayoutInv, TurnInv, [Next]_vars
  PROVE  DisbursedAlone'
  <1> DEFINE Awaited == {"disburse", "unwind", "unwindClose"}
  <1> SUFFICES ASSUME NEW t \in Tasks, NEW u \in Tasks, t # u, task'[t].at = "disburse",
                      task'[u].at \in Awaited, task'[t].loan = task'[u].loan
               PROVE  FALSE
    BY DEF DisbursedAlone
  <1> DEFINE l == task'[t].loan
  <1>1. ASSUME NEW w \in Tasks PROVE InHand(w) /\ TaskMoves(w)
    BY EveryTaskMoves DEF TurnInv
  \* A loan that is only now being disbursed has not been asked for before.
  <1>2. ASSUME NEW v \in Tasks, NEW w \in Tasks, v # w, task'[v].at = "disburse",
               task'[v] # task[v], task'[w].at \in Awaited, task'[w].loan = task'[v].loan
        PROVE  FALSE
    <2>1. /\ HasTurn(v) /\ task[v].at = "record" /\ task'[v].loan = task[v].loan
          /\ payout[task[v].loan] = "none"
      BY <1>1, <1>2 DEF TaskMoves, Arrives, PayoutInv, Originating
    <2>2. task'[w] = task[w]
      BY <1>1, <1>2, <2>1, TurnIsTaken DEF TaskMoves
    <2>3. task[w].at = "disburse"
      BY <1>2, <2>1, <2>2, TurnIsTaken
    <2> QED
      BY <1>1, <1>2, <2>1, <2>2, <2>3 DEF InHand
  <1>3. task'[t] = task[t]
    BY <1>2
  <1>4. loan[l].disbursement = "none" /\ task[t].at = "disburse" /\ task[t].loan = l
    BY <1>1, <1>3 DEF InHand
  <1>5. task'[u] # task[u]
    BY <1>3, <1>4 DEF TurnInv, DisbursedAlone
  <1>6. HasTurn(u) /\ Arrives(u, task'[u])
    BY <1>1, <1>5 DEF TaskMoves
  <1>7. CASE task'[u].at = "disburse"
    BY <1>2, <1>5, <1>7
  <1>8. CASE task'[u].at = "unwind"
    <2>1. Disproved(u, l)
      BY <1>6, <1>8 DEF Arrives
    <2>2. CASE task[u].at = "disburse" /\ task[u].loan = l
      BY <1>4, <2>2 DEF TurnInv, DisbursedAlone
    <2>3. CASE task[u].at = "status" /\ task[u].loan = l
      BY <1>1, <1>4, <2>3 DEF InHand
    <2>4. CASE l \in Reconcilable
      BY <1>4, <2>4, LoanBookAssumption DEF Reconcilable, UnknownDisbursements, FromTheListing
    <2> QED
      BY <2>1, <2>2, <2>3, <2>4 DEF Disproved
  <1>9. CASE task'[u].at = "unwindClose"
    <2>1. task[u].at = "unwind" /\ task[u].loan = l
      BY <1>6, <1>9 DEF Arrives
    <2> QED
      BY <1>4, <2>1 DEF TurnInv, DisbursedAlone
  <1> QED
    BY <1>7, <1>8, <1>9

LEMMA TurnStart == ASSUME Init PROVE TurnInv
  BY DEF Init, Idle, TurnInv, BusyOnce, Parked, InHand, Stored, Sweeping, DisbursedAlone

\* All that is known of the shipped loan book's handlers between two steps.
ShippedInv == PayoutInv /\ TimelyInv /\ AttestInv /\ TurnInv

LEMMA AlwaysInHand == ASSUME OneAtATime, FromTheListing PROVE Spec => []ShippedInv
  <1>1. "verify" \notin YieldsAt
    BY DEF OneAtATime
  <1>2. Init => ShippedInv
    <2>1. Init => AttestInv
      BY DEF Init, AttestInv, AttestedOnce, ItemsIn, NoLoan, Idle
    <2> QED
      BY <2>1, PayoutStart, TimelyStart, TurnStart DEF ShippedInv
  <1>3. TypeInv /\ ShippedInv /\ [Next]_vars => ShippedInv'
    <2> SUFFICES ASSUME TypeInv, ShippedInv, [Next]_vars PROVE ShippedInv'
      OBVIOUS
    <2>1. PayoutInv' /\ TimelyInv' /\ AttestInv'
      BY <1>1, PayoutKept, TimelyKept, AttestKept DEF ShippedInv
    <2>2. TurnInv'
      BY EveryInHand, BusyOnceKept, AloneKept DEF TurnInv, ShippedInv
    <2> QED
      BY <2>1, <2>2 DEF ShippedInv
  <1> QED
    BY <1>2, <1>3, AlwaysTyped, PTL DEF Spec

-----------------------------------------------------------------------------
(* Closed loans stay closed, and only one is open at a time                *)

\* Only its disbursement's outcome is still noted on a closed loan.
LEMMA ClosedStays ==
  ASSUME TypeInv, ShippedInv, [Next]_vars, NEW l \in LoanIds,
         loan[l].status \in {"repaid", "defaulted"}
  PROVE  /\ loan'[l].status = loan[l].status /\ loan'[l].item = loan[l].item
         /\ loan'[l].released = loan[l].released /\ loan'[l].forfeited = loan[l].forfeited
         /\ SameContract(loan'[l], loan[l])
  <1>1. loan[l] \in LoanRecord /\ ~IsOpen(loan[l])
    BY DEF TypeInv, TypeOK, IsOpen
  <1>2. ASSUME NEW t \in Tasks PROVE ~SweptTo(t, l)
    BY <1>1 DEF SweptTo, GraceExpired, IsOpen
  <1>3. ASSUME NEW t \in Tasks, HandledTo(t, l) PROVE FALSE
    <2>1. task[t].at = "quote" => loan[l].status = "none"
      BY <1>3 DEF ShippedInv, TimelyInv, HandledTo
    <2>2. task[t].at \in {"repay", "release"} => IsOpen(loan[l])
      BY <1>3 DEF ShippedInv, TurnInv, InHand, HandledTo
    <2>3. task[t].at = "liquidate" => GraceExpired(t, l)
      BY <1>3 DEF ShippedInv, TurnInv, InHand, HandledTo
    <2>4. task[t].at = "verify" => IsOpen(loan[l])
      BY <1>3 DEF ShippedInv, AttestInv, Attestable, HandledTo
    <2> QED
      BY <1>1, <1>3, <2>1, <2>2, <2>3, <2>4 DEF HandledTo, GraceExpired
  <1>4. ASSUME NEW t \in Tasks, FlaggedTo(t, l)
        PROVE  /\ loan'[l].status = loan[l].status /\ loan'[l].item = loan[l].item
               /\ loan'[l].released = loan[l].released /\ loan'[l].forfeited = loan[l].forfeited
               /\ SameContract(loan'[l], loan[l])
    BY <1>1, <1>4, FlaggedFields DEF FlaggedTo
  <1> QED
    BY <1>2, <1>3, <1>4, EveryLoanMoves DEF LoanMoves, SameContract

\* With the shipped gateway and partner, a loan closed by its last repayment
\* or by its default stays as it closed.
THEOREM ClosedStaysClosed ==
  ASSUME OneAtATime, FromTheListing PROVE Spec => ClosedIsFinal
  <1> DEFINE Stays == \A l \in LoanIds : loan[l].status \in {"repaid", "defaulted"} =>
                        /\ loan'[l].status = loan[l].status
                        /\ loan'[l].released = loan[l].released
                        /\ loan'[l].forfeited = loan[l].forfeited
  <1>1. TypeInv /\ ShippedInv /\ [Next]_vars => Stays
    BY ClosedStays
  <1>2. ClosedIsFinal <=> [][Stays]_vars
    BY PTL DEF ClosedIsFinal
  <1> QED
    BY <1>1, <1>2, AlwaysTyped, AlwaysInHand, PTL DEF Spec

OneOpenInv ==
    \A l, m \in OpenLoans :
        /\ loan[l].guarantor = loan[m].guarantor
        /\ loan[l].beneficiary = loan[m].beneficiary
        => l = m

LEMMA OneOpenKept ==
  ASSUME OneAtATime, FromTheListing, TypeInv, ShippedInv, OneOpenInv, [Next]_vars
  PROVE  OneOpenInv'
  <1>1. book' \subseteq LoanIds /\ book \subseteq LoanIds
        /\ \A l \in book : loan[l].status # "none" /\ loan[l] \in LoanRecord
    BY StepTyped DEF TypeInv, TypeOK
  \* An open loan that was stored before was open then.
  <1>2. ASSUME NEW l \in book, IsOpen(loan'[l])
        PROVE  IsOpen(loan[l]) /\ SameContract(loan'[l], loan[l])
    BY <1>1, <1>2, ClosedStays, ContractKept
    DEF IsOpen, LoanRecord, LoanStatus, ShippedInv
  \* One that was not is the only one of its kind.
  <1>3. ASSUME NEW l \in book', l \notin book
        PROVE  /\ ~ExistingLoan(loan[l].guarantor, loan[l].beneficiary) /\ UNCHANGED loan
               /\ \A m \in book' : m \notin book => m = l
    <2>1. PICK t \in Tasks : LockReturns(t) /\ task[t].loan = l /\ UNCHANGED loan
      BY <1>1, <1>3, BookGrows DEF ShippedInv
    <2>2. HasTurn(t) /\ task[t].at = "lock"
      BY <2>1 DEF LockReturns, Resumes
    <2>3. ASSUME NEW m \in book', m \notin book PROVE m = l
      <3>1. PICK u \in Tasks : LockReturns(u) /\ task[u].loan = m
        BY <1>1, <2>3, BookGrows DEF ShippedInv
      <3> QED
        BY <2>1, <2>2, <3>1, TurnIsTaken DEF LockReturns, Resumes
    <2> QED
      BY <2>1, <2>2, <2>3 DEF ShippedInv, TurnInv, InHand
  <1>4. ASSUME NEW l \in book', NEW m \in book', IsOpen(loan'[l]), IsOpen(loan'[m]),
               loan'[l].guarantor = loan'[m].guarantor,
               loan'[l].beneficiary = loan'[m].beneficiary
        PROVE  l = m
    <2>1. CASE l \in book /\ m \in book
      BY <1>2, <1>4, <2>1 DEF OneOpenInv, OpenLoans, SameContract
    <2>2. CASE l \notin book /\ m \notin book
      BY <1>3, <2>2
    <2>3. CASE l \notin book /\ m \in book
      BY <1>2, <1>3, <1>4, <2>3 DEF ExistingLoan
    <2>4. CASE l \in book /\ m \notin book
      BY <1>2, <1>3, <1>4, <2>4 DEF ExistingLoan
    <2> QED
      BY <2>1, <2>2, <2>3, <2>4
  <1> QED
    BY <1>4 DEF OneOpenInv, OpenLoans

\* With the shipped gateway and partner, the request's check for an existing
\* loan still holds when its loan is stored: no two are open for one pair.
THEOREM OneLoanOpen ==
  ASSUME OneAtATime, FromTheListing PROVE Spec => []OneOpenLoan
  <1>1. Init => OneOpenInv
    BY DEF Init, OneOpenInv, OpenLoans
  <1>2. TypeInv /\ ShippedInv /\ OneOpenInv /\ [Next]_vars => OneOpenInv'
    BY OneOpenKept
  <1>3. OneOpenInv => OneOpenLoan
    BY DEF OneOpenInv, OneOpenLoan
  <1> QED
    BY <1>1, <1>2, <1>3, AlwaysTyped, AlwaysInHand, PTL DEF Spec

-----------------------------------------------------------------------------
(* What becomes of an open loan                                            *)

\* Its amounts and its schedule stay as they are.
Rests(x, y) ==
    /\ x.status = y.status /\ x.item = y.item /\ x.graceEnds = y.graceEnds
    /\ x.released = y.released /\ x.forfeited = y.forfeited

\* The sweep finds what is past due on it, and gives it a deadline at the first miss.
Swept(t, x, y) ==
    /\ task[t].at = "next" /\ x.released = y.released /\ x.forfeited = y.forfeited
    /\ \A i \in Installments :
         x.item[i] = IF i \in PastDue(y, task[t].asOf) THEN "overdue" ELSE y.item[i]
    /\ \/ /\ y.status = "active" /\ x.status = "grace" /\ ItemsIn(x, "overdue") # {}
          /\ x.graceEnds = task[t].asOf + GracePeriod
       \/ /\ x.status = y.status /\ x.graceEnds = y.graceEnds
          /\ y.status = "active" => ItemsIn(x, "overdue") = {}

\* An installment of it is repaid.
Attested(t, x, y) ==
    /\ task[t].at = "verify" /\ task'[t].at = "repay" /\ task'[t].loan = task[t].loan
    /\ x.status = y.status /\ x.graceEnds = y.graceEnds
    /\ x.released = y.released /\ x.forfeited = y.forfeited
    /\ task[t].n \in Installments /\ y.item[task[t].n] \in {"pending", "overdue"}
    /\ \A i \in Installments : x.item[i] = IF i = task[t].n THEN "repaid" ELSE y.item[i]

\* Its share is released, and it is closed if that was the last installment.
SettledTo(t, x, y) ==
    /\ task[t].at \in {"repay", "release"} /\ task'[t].at \in {"idle", "close"}
    /\ x.item = y.item /\ x.forfeited = y.forfeited
    /\ task[t].at = "repay" => x.released = y.released /\ task[t].amount = 0
    /\ task[t].at = "release" => x.released = y.released + task[t].amount
    /\ \/ AllRepaid(y) /\ x.status = "repaid" /\ x.graceEnds = NoDeadline
       \/ /\ ~AllRepaid(y) /\ y.status = "grace" /\ ItemsIn(y, "overdue") = {}
          /\ x.status = "active" /\ x.graceEnds = NoDeadline
       \/ /\ ~AllRepaid(y) /\ (y.status = "grace" => ItemsIn(y, "overdue") # {})
          /\ x.status = y.status /\ x.graceEnds = y.graceEnds

\* Its deadline has passed: its collateral is divided.
DefaultedTo(t, l, x, y) ==
    /\ task[t].at \in {"next", "liquidate"} /\ GraceExpired(t, l)
    /\ x.status = "defaulted"
    /\ \A i \in Installments :
         x.item[i] = IF y.item[i] = "pending" THEN "overdue" ELSE y.item[i]
    /\ \E f \in {Forfeit(OutstandingPrincipal(y), OutstandingCollateral(y))} :
         /\ x.forfeited = y.forfeited + f
         /\ x.released = y.released + (OutstandingCollateral(y) - f)

OpenMoves(l) ==
    LET x == loan'[l]
        y == loan[l]
    IN \/ Rests(x, y)
       \/ \E t \in Tasks :
            /\ HasTurn(t)
            /\ \/ Swept(t, x, y)
               \/ task[t].loan = l /\ (Attested(t, x, y) \/ SettledTo(t, x, y))
               \/ DefaultedTo(t, l, x, y)

LEMMA SameRepaid ==
  ASSUME NEW x, NEW y, SameContract(x, y), ItemsIn(x, "repaid") = ItemsIn(y, "repaid")
  PROVE  RepaidTotal(x) = RepaidTotal(y) /\ OutstandingPrincipal(x) = OutstandingPrincipal(y)
  BY DEF RepaidTotal, SameContract, OutstandingPrincipal

LEMMA SameHeld ==
  ASSUME NEW x, NEW y, SameContract(x, y), x.released = y.released, x.forfeited = y.forfeited
  PROVE  OutstandingCollateral(x) = OutstandingCollateral(y)
  BY DEF OutstandingCollateral, SameContract

\* Marking what is past due disturbs neither what is owed nor what is held.
LEMMA MarkedSame ==
  ASSUME TypeInv, NEW t \in Tasks, NEW l \in LoanIds, loan[l].status # "none"
  PROVE  LET x == Marked(t, l)
             y == loan[l]
         IN /\ x \in LoanRecord /\ Begun(x) /\ SameContract(x, y)
            /\ x.status = y.status /\ x.graceEnds = y.graceEnds
            /\ x.released = y.released /\ x.forfeited = y.forfeited
            /\ \A i \in Installments :
                 x.item[i] = IF i \in PastDue(y, task[t].asOf) THEN "overdue" ELSE y.item[i]
            /\ OutstandingPrincipal(x) = OutstandingPrincipal(y)
            /\ OutstandingCollateral(x) = OutstandingCollateral(y)
            /\ OutstandingCollateral(y) \in Int /\ OutstandingPrincipal(y) \in Int
  <1> DEFINE x == Marked(t, l)
             y == loan[l]
  <1>1. y \in LoanRecord /\ Begun(y)
    BY MovingTyped
  <1>2. x \in LoanRecord /\ Begun(x)
    BY MarkedTyped
  <1>3. /\ SameContract(x, y) /\ x.status = y.status /\ x.graceEnds = y.graceEnds
        /\ x.released = y.released /\ x.forfeited = y.forfeited
        /\ \A i \in Installments :
             x.item[i] = IF i \in PastDue(y, task[t].asOf) THEN "overdue" ELSE y.item[i]
    BY <1>1, ItemsFields DEF Marked
  <1>4. ItemsIn(x, "repaid") = ItemsIn(y, "repaid")
    <2> HIDE DEF x
    <2> QED
      BY <1>3 DEF ItemsIn, PastDue
  <1>5. /\ OutstandingPrincipal(x) = OutstandingPrincipal(y)
        /\ OutstandingCollateral(x) = OutstandingCollateral(y)
    BY <1>3, <1>4, SameRepaid, SameHeld
  <1>6. OutstandingCollateral(y) \in Int /\ OutstandingPrincipal(y) \in Int
    BY <1>1, AmountsInt DEF Begun
  <1> QED
    BY <1>2, <1>3, <1>5, <1>6

LEMMA OpenLoanMoves ==
  ASSUME TypeInv, ShippedInv, [Next]_vars, NEW l \in LoanIds, IsOpen(loan[l])
  PROVE  OpenMoves(l)
  <1> DEFINE y == loan[l]
  <1>1. y \in LoanRecord /\ Begun(y) /\ y.status # "none"
    BY DEF TypeInv, TypeOK, Begun, IsOpen
  <1>2. ASSUME NEW t \in Tasks
        PROVE  /\ task[t].full \in BOOLEAN /\ task[t].amount \in Int /\ task[t].excess \in Int
               /\ task[t].asOf \in Nat /\ InHand(t)
    BY MovingTyped DEF TaskRecord, ShippedInv, TurnInv
  <1>3. ASSUME NEW t \in Tasks, HasTurn(t), SweptTo(t, l) PROVE OpenMoves(l)
    <2> DEFINE x == Marked(t, l)
               held == OutstandingCollateral(x)
               owed == OutstandingPrincipal(x)
    <2>1. /\ x \in LoanRecord /\ Begun(x) /\ SameContract(x, y)
          /\ x.status = y.status /\ x.graceEnds = y.graceEnds
          /\ x.released = y.released /\ x.forfeited = y.forfeited
          /\ \A i \in Installments :
               x.item[i] = IF i \in PastDue(y, task[t].asOf) THEN "overdue" ELSE y.item[i]
          /\ held = OutstandingCollateral(y) /\ held \in Int
          /\ owed = OutstandingPrincipal(y)
      BY <1>1, MarkedSame
    <2> HIDE DEF x, held, owed
    <2>2. CASE /\ y.status = "active" /\ ItemsIn(x, "overdue") # {}
               /\ loan'[l] = InGrace(x, task[t].asOf)
      <3>1. Swept(t, loan'[l], y)
        BY <1>3, <2>1, <2>2, InGraceFields DEF Swept, SweptTo, ItemsIn
      <3> QED
        BY <1>3, <3>1 DEF OpenMoves
    <2>3. CASE (y.status = "active" => ItemsIn(x, "overdue") = {}) /\ loan'[l] = x
      <3>1. Swept(t, loan'[l], y)
        BY <1>3, <2>1, <2>3 DEF Swept, SweptTo
      <3> QED
        BY <1>3, <3>1 DEF OpenMoves
    <2>4. CASE GraceExpired(t, l) /\ Forfeit(owed, held) = 0 /\ loan'[l] = Defaulted(x, 0, held)
      <3>1. /\ loan'[l].status = "defaulted" /\ loan'[l].released = x.released + held
            /\ loan'[l].forfeited = x.forfeited + 0
            /\ \A i \in Installments :
                 loan'[l].item[i] = IF x.item[i] = "pending" THEN "overdue" ELSE x.item[i]
        BY <2>1, <2>4, DefaultedFields
      <3>2. \A i \in Installments :
                 loan'[l].item[i] = IF y.item[i] = "pending" THEN "overdue" ELSE y.item[i]
        BY <2>1, <3>1 DEF PastDue, ItemsIn
      <3>3. held = OutstandingCollateral(y) - 0
            /\ Forfeit(OutstandingPrincipal(y), OutstandingCollateral(y)) = 0
        BY <2>1, <2>4
      <3>4. DefaultedTo(t, l, loan'[l], y)
        BY <1>3, <2>1, <2>4, <3>1, <3>2, <3>3 DEF DefaultedTo, SweptTo
      <3> QED
        BY <1>3, <3>4 DEF OpenMoves
    <2> QED
      BY <1>3, <2>2, <2>3, <2>4 DEF SweptTo, x, held, owed
  <1>4. ASSUME NEW t \in Tasks, HasTurn(t), HandledTo(t, l) PROVE OpenMoves(l)
    <2>1. task[t].loan = l /\ InHand(t)
      BY <1>2, <1>4 DEF HandledTo
    <2>2. CASE task[t].at = "quote"
      BY <1>1, <2>1, <2>2 DEF ShippedInv, TimelyInv
    <2>3. CASE /\ task[t].at = "verify" /\ task'[t].at = "repay"
               /\ loan'[l] = WithItems(y, {task[t].n}, "repaid")
      <3>1. Attestable(l, task[t].n) /\ task[t].n \in Installments
        BY <2>1, <2>3 DEF ShippedInv, AttestInv
      <3>2. task'[t].loan = task[t].loan
        BY <2>3, EveryTaskMoves DEF TaskMoves, Arrives
      <3>3. Attested(t, loan'[l], y)
        BY <1>1, <2>3, <3>1, <3>2, ItemsFields DEF Attested, Attestable
      <3> QED
        BY <1>4, <2>1, <3>3 DEF OpenMoves
    <2>4. CASE /\ task[t].at = "repay" /\ task'[t].at \in {"idle", "close"}
               /\ task[t].amount = 0
               /\ loan'[l] = Settled(y, task[t].full)
      <3>1. task[t].full = AllRepaid(y)
        BY <2>1, <2>4 DEF InHand
      <3>2. SettledTo(t, loan'[l], y)
        BY <1>1, <1>2, <2>4, <3>1, SettledFields DEF SettledTo
      <3> QED
        BY <1>4, <2>1, <3>2 DEF OpenMoves
    <2>5. CASE /\ task[t].at = "release" /\ task'[t].at \in {"idle", "close"}
               /\ loan'[l] = Settled([y EXCEPT !.released = @ + task[t].amount], task[t].full)
      <3> DEFINE z == [y EXCEPT !.released = @ + task[t].amount]
      <3>1. task[t].full = AllRepaid(y)
        BY <2>1, <2>5 DEF InHand
      <3>2. /\ z \in LoanRecord /\ z.item = y.item /\ z.status = y.status
            /\ z.graceEnds = y.graceEnds /\ z.forfeited = y.forfeited
            /\ z.released = y.released + task[t].amount
        BY <1>1, <1>2, ReleasedTyped, ReleasedFields
      <3>3. loan'[l] = Settled(z, task[t].full)
        BY <2>5
      <3> HIDE DEF z
      <3>4. SettledTo(t, loan'[l], y)
        BY <1>2, <2>5, <3>1, <3>2, <3>3, SettledFields DEF SettledTo, ItemsIn
      <3> QED
        BY <1>4, <2>1, <3>4 DEF OpenMoves
    <2>6. CASE /\ task[t].at = "liquidate"
               /\ loan'[l] = Defaulted(y, task[t].amount, task[t].excess)
      <3>1. /\ GraceExpired(t, l)
            /\ task[t].amount = Forfeit(OutstandingPrincipal(y), OutstandingCollateral(y))
            /\ task[t].excess = OutstandingCollateral(y) - task[t].amount
        BY <2>1, <2>6 DEF InHand
      <3>2. DefaultedTo(t, l, loan'[l], y)
        BY <1>1, <1>2, <2>6, <3>1, DefaultedFields DEF DefaultedTo
      <3> QED
        BY <1>4, <3>2 DEF OpenMoves
    <2> QED
      BY <1>4, <2>2, <2>3, <2>4, <2>5, <2>6 DEF HandledTo
  <1>5. ASSUME NEW t \in Tasks, FlaggedTo(t, l) PROVE OpenMoves(l)
    BY <1>1, <1>5, FlaggedFields DEF FlaggedTo, OpenMoves, Rests
  <1>6. CASE loan'[l] = y
    BY <1>6 DEF OpenMoves, Rests
  <1> QED
    BY <1>3, <1>4, <1>5, <1>6, EveryLoanMoves DEF LoanMoves

\* A loan that has not begun yet stays so, or is made by its request.
LEMMA UnbegunMoves ==
  ASSUME TypeInv, [Next]_vars, NEW l \in LoanIds, loan[l].status = "none"
  PROVE  \/ loan'[l] = loan[l]
         \/ \E t \in Tasks :
              /\ HasTurn(t) /\ task[t].at = "quote" /\ task[t].terms \in Terms
              /\ task'[t].at = "lock" /\ task[t].loan = l
              /\ loan'[l] = NewLoan(task[t].guarantor, task[t].beneficiary, task[t].terms)
  <1>1. ASSUME NEW t \in Tasks PROVE ~SweptTo(t, l) /\ ~FlaggedTo(t, l)
    BY DEF SweptTo, FlaggedTo
  <1>2. ASSUME NEW t \in Tasks, HandledTo(t, l)
        PROVE  /\ task[t].at = "quote" /\ task[t].terms \in Terms
               /\ task'[t].at = "lock" /\ task[t].loan = l
               /\ loan'[l] = NewLoan(task[t].guarantor, task[t].beneficiary, task[t].terms)
    <2>1. task[t].at \notin LoanAwaits /\ task[t].loan = l
      BY <1>2, MovingTyped DEF HandledTo
    <2>2. task[t].at = "quote" => task[t].terms \in Terms
      BY DEF TypeInv, Fits
    <2> QED
      BY <1>2, <2>1, <2>2 DEF HandledTo, LoanAwaits
  <1> QED
    BY <1>1, <1>2, EveryLoanMoves DEF LoanMoves

\* So an invariant of a loan's amounts and schedule is kept if it is made so
\* and every move of an open loan keeps it.
LEMMA StatusCases ==
  ASSUME TypeInv, NEW l \in LoanIds
  PROVE  loan[l].status = "none" \/ IsOpen(loan[l]) \/ loan[l].status \in {"repaid", "defaulted"}
  BY DEF TypeInv, TypeOK, LoanRecord, LoanStatus, IsOpen

-----------------------------------------------------------------------------
(* What a default costs                                                    *)

DebtInv ==
    /\ ForfeitWithinDebt
    /\ \A l \in LoanIds : /\ loan[l].status # "defaulted" => loan[l].forfeited = 0
                          /\ loan[l].status = "none" => loan[l].released = 0

LEMMA DebtKept ==
  ASSUME OneAtATime, TypeInv, ShippedInv, DebtInv, [Next]_vars PROVE DebtInv'
  <1> SUFFICES ASSUME NEW l \in LoanIds
               PROVE  /\ loan'[l].forfeited > 0 =>
                           loan'[l].forfeited + RepaidTotal(loan'[l]) <= loan'[l].terms.principal
                      /\ loan'[l].status # "defaulted" => loan'[l].forfeited = 0
                      /\ loan'[l].status = "none" => loan'[l].released = 0
    BY DEF DebtInv, ForfeitWithinDebt, RepaidTotal, ItemsIn
  <1> DEFINE x == loan'[l]
             y == loan[l]
  <1>1. /\ y.forfeited > 0 => y.forfeited + RepaidTotal(y) <= y.terms.principal
        /\ y.status # "defaulted" => y.forfeited = 0
        /\ y.status = "none" => y.released = 0
    BY DEF DebtInv, ForfeitWithinDebt
  <1>2. CASE y.status = "none"
    <2>1. CASE x = y
      BY <1>1, <2>1
    <2>2. ASSUME NEW g, NEW b, NEW tm, x = NewLoan(g, b, tm)
          PROVE  x.forfeited = 0 /\ x.status = "active"
      BY <2>2, NewLoanFields
    <2> QED
      BY <1>2, <2>1, <2>2, UnbegunMoves
  <1>3. CASE y.status \in {"repaid", "defaulted"}
    <2>1. /\ x.status = y.status /\ x.item = y.item /\ x.forfeited = y.forfeited
          /\ SameContract(x, y)
      BY <1>3, ClosedStays
    <2>2. RepaidTotal(x) = RepaidTotal(y)
      BY <2>1, SameRepaid DEF ItemsIn
    <2> QED
      BY <1>1, <1>3, <2>1, <2>2 DEF SameContract
  <1>4. CASE IsOpen(y)
    <2>1. y.forfeited = 0 /\ y.status \notin {"none", "defaulted"} /\ x.status # "none"
      <3>1. y.status \notin {"none", "defaulted"}
        BY <1>4 DEF IsOpen
      <3> QED
        BY <1>1, <3>1, WrittenBegun
    <2>2. CASE x.forfeited = y.forfeited
      BY <2>1, <2>2
    <2>3. ASSUME NEW t \in Tasks, DefaultedTo(t, l, x, y)
          PROVE  /\ x.status = "defaulted"
                 /\ x.forfeited > 0 => x.forfeited + RepaidTotal(x) <= x.terms.principal
      <3>1. y \in LoanRecord /\ Begun(y) /\ y.terms.principal \in Int
        <4>1. y \in LoanRecord /\ Begun(y)
          BY <2>1 DEF TypeInv, TypeOK, Begun
        <4> QED
          BY <4>1, LoanBookAssumption DEF Begun, Term
      <3>2. RepaidTotal(y) \in Int /\ OutstandingCollateral(y) \in Int
        BY <3>1, RepaidInt, AmountsInt DEF Begun
      <3>3. SameContract(x, y)
        BY <2>1, ContractKept DEF ShippedInv
      <3>4. ItemsIn(x, "repaid") = ItemsIn(y, "repaid") /\ x.status = "defaulted"
        BY <2>3 DEF DefaultedTo, ItemsIn
      <3>5. RepaidTotal(x) = RepaidTotal(y) /\ x.terms = y.terms
        BY <3>3, <3>4, SameRepaid DEF SameContract
      <3>6. PICK f \in {Forfeit(OutstandingPrincipal(y), OutstandingCollateral(y))} :
              x.forfeited = y.forfeited + f
        BY <2>3 DEF DefaultedTo
      <3>7. f = Forfeit(OutstandingPrincipal(y), OutstandingCollateral(y))
        BY <3>6
      <3>8. x.forfeited > 0 => x.forfeited + RepaidTotal(x) <= x.terms.principal
        <4>1. f \in Int /\ f <= OutstandingPrincipal(y)
              /\ OutstandingPrincipal(y) \in Int
          BY <3>1, <3>2, <3>7 DEF Forfeit, Least, OutstandingPrincipal, StillOwed, AtLeastZero
        <4>2. x.forfeited = f
          BY <2>1, <3>6, <4>1
        <4>3. f > 0 => f <= y.terms.principal - RepaidTotal(y)
          BY <3>1, <3>2, <4>1 DEF OutstandingPrincipal, StillOwed, AtLeastZero
        <4> QED
          BY <3>1, <3>2, <3>4, <3>5, <4>1, <4>2, <4>3
      <3> QED
        BY <3>4, <3>8
    <2> QED
      BY <1>4, <2>1, <2>2, <2>3, OpenLoanMoves
      DEF OpenMoves, Rests, Swept, Attested, SettledTo
  <1> QED
    BY <1>2, <1>3, <1>4, StatusCases

LEMMA DebtStart == ASSUME Init PROVE DebtInv
  BY DEF Init, NoLoan, DebtInv, ForfeitWithinDebt

\* With the shipped gateway and partner, a default forfeits at most what the
\* beneficiary left unpaid at that moment, whatever was repaid before.
THEOREM ForfeitsWithinDebt ==
  ASSUME OneAtATime, FromTheListing PROVE Spec => []ForfeitWithinDebt
  <1>1. Init => DebtInv
    BY DebtStart
  <1>2. TypeInv /\ ShippedInv /\ DebtInv /\ [Next]_vars => DebtInv'
    BY DebtKept
  <1>3. DebtInv => ForfeitWithinDebt
    BY DEF DebtInv
  <1> QED
    BY <1>1, <1>2, <1>3, AlwaysTyped, AlwaysInHand, PTL DEF Spec

-----------------------------------------------------------------------------
(* What an unwinding gives back                                            *)

\* Only a loan that was paid out has had any of its collateral released, or was
\* repaid; only an open loan is unwound.
PaidInv ==
    /\ \A l \in LoanIds :
         /\ loan[l].status # "defaulted"
         /\ loan[l].released # 0 \/ loan[l].status = "repaid"
         => payout[l] = "paid"
    /\ \A t \in Tasks : task[t].at \in {"status", "unwind", "unwindClose"} =>
         IsOpen(loan[task[t].loan])

LEMMA ReleasesPaid ==
  ASSUME TypeInv, ShippedInv, DebtInv, PaidInv, [Next]_vars, NEW l \in LoanIds,
         loan'[l].status # "defaulted", loan'[l].released # 0 \/ loan'[l].status = "repaid"
  PROVE  payout'[l] = "paid"
  <1> DEFINE x == loan'[l]
             y == loan[l]
  <1>1. y.status = "none" => y.released = 0
    BY DEF DebtInv
  <1>2. SUFFICES payout[l] = "paid"
    BY PaidStays DEF ShippedInv
  <1>3. CASE y.status = "none"
    <2>1. ASSUME NEW g, NEW b, NEW tm, x = NewLoan(g, b, tm) PROVE FALSE
      BY <2>1, NewLoanFields
    <2> QED
      BY <1>1, <1>3, <2>1, UnbegunMoves
  <1>4. CASE y.status \in {"repaid", "defaulted"}
    BY <1>4, ClosedStays DEF PaidInv
  <1>5. CASE IsOpen(y)
    <2>1. CASE x.released = y.released /\ x.status # "repaid"
      BY <1>5, <2>1 DEF PaidInv, IsOpen
    <2>2. ASSUME NEW t \in Tasks, task[t].loan = l, SettledTo(t, x, y)
          PROVE  payout[l] = "paid"
      BY <2>2 DEF SettledTo, ShippedInv, TurnInv, InHand
    <2> QED
      BY <1>5, <2>1, <2>2, OpenLoanMoves
      DEF OpenMoves, Rests, Swept, Attested, DefaultedTo, IsOpen
  <1> QED
    BY <1>3, <1>4, <1>5, StatusCases

\* A request whose disbursement is rejected finds its loan still open.
LEMMA RejectedOpen ==
  ASSUME GracePeriod > 0, TypeInv, ShippedInv, PaidInv, NEW t \in Tasks,
         task[t].at = "disburse", payout[task[t].loan] # "paid"
  PROVE  IsOpen(loan[task[t].loan])
  <1> DEFINE l == task[t].loan
             ln == loan[l]
  <1>1. /\ l \in LoanIds /\ ln \in LoanRecord /\ Begun(ln) /\ now <= ln.born + 1
        /\ now \in Nat
    BY DEF ShippedInv, TurnInv, InHand, TypeInv, TypeOK, Fits, LoanAwaits, Begun
  <1>2. ln.status # "repaid"
    BY <1>1 DEF PaidInv
  <1>3. CASE ln.status = "defaulted"
    <2>1. now > FirstDeadline(ln)
      BY <1>1, <1>3 DEF ShippedInv, TimelyInv, LoanTimely
    <2>2. ln.terms.interval \in Nat /\ ln.born \in Nat /\ GracePeriod \in Nat
      BY <1>1, LoanBookAssumption DEF Begun, Term, LoanRecord
    <2>3. FirstDeadline(ln) >= ln.born + 1
      BY <2>2 DEF FirstDeadline, DueAt
    <2> QED
      BY <1>1, <2>1, <2>2, <2>3 DEF FirstDeadline, DueAt
  <1> QED
    BY <1>1, <1>2, <1>3 DEF LoanRecord, LoanStatus, Begun, IsOpen

LEMMA UnwindsOpen ==
  ASSUME AsShipped, TypeInv, ShippedInv, PaidInv, [Next]_vars, NEW t \in Tasks,
         task'[t].at \in {"status", "unwind", "unwindClose"}
  PROVE  IsOpen(loan'[task'[t].loan])
  <1>1. CASE task'[t] = task[t]
    <2>1. ~Parked(t)
      BY <1>1 DEF Parked, AsShipped, OneAtATime
    <2>2. UNCHANGED loan
      BY <1>1, <2>1, BusyRests
    <2> QED
      BY <1>1, <2>2 DEF PaidInv
  <1>2. CASE HasTurn(t) /\ Arrives(t, task'[t])
    <2>1. UNCHANGED loan
      BY <1>2 DEF Arrives, Beginnings
    <2>2. ASSUME NEW l \in Reconcilable PROVE IsOpen(loan[l])
      BY <2>2, LoanBookAssumption DEF Reconcilable, OpenLoans, AsShipped
    <2>3. ASSUME Disproved(t, task'[t].loan) PROVE IsOpen(loan[task'[t].loan])
      <3>1. CASE /\ task[t].at = "disburse" /\ task[t].loan = task'[t].loan
                 /\ payout[task[t].loan] # "paid"
        BY <3>1, RejectedOpen DEF AsShipped
      <3>2. CASE task[t].at = "status" /\ task[t].loan = task'[t].loan
        BY <3>2 DEF PaidInv
      <3> QED
        BY <2>2, <2>3, <3>1, <3>2 DEF Disproved, AsShipped
    <2>4. task'[t].at = "unwindClose" => IsOpen(loan[task'[t].loan])
      BY <1>2 DEF Arrives, PaidInv
    <2> QED
      BY <1>2, <2>1, <2>2, <2>3, <2>4 DEF Arrives
  <1> QED
    BY <1>1, <1>2, EveryTaskMoves DEF TaskMoves

LEMMA PaidKept ==
  ASSUME AsShipped, TypeInv, ShippedInv, DebtInv, PaidInv, [Next]_vars PROVE PaidInv'
  <1>1. ASSUME NEW t \in Tasks, task'[t].at \in {"status", "unwind", "unwindClose"}
        PROVE  IsOpen(loan'[task'[t].loan])
    BY <1>1, UnwindsOpen
  <1> QED
    BY <1>1, ReleasesPaid DEF PaidInv, IsOpen

LEMMA AlwaysPaid ==
  ASSUME AsShipped PROVE Spec => [](ShippedInv /\ DebtInv /\ PaidInv /\ UnwoundInv)
  <1>1. OneAtATime /\ FromTheListing /\ "drops" \notin PartnerFailures
    BY DEF AsShipped, FromTheListing
  <1>2. Init => DebtInv /\ PaidInv /\ UnwoundInv
    BY DebtStart DEF Init, NoLoan, Idle, PaidInv, UnwoundInv
  <1>3. TypeInv /\ ShippedInv /\ DebtInv /\ PaidInv /\ UnwoundInv /\ [Next]_vars
          => DebtInv' /\ PaidInv' /\ UnwoundInv'
    BY <1>1, DebtKept, PaidKept, UnwoundKept DEF ShippedInv
  <1> QED
    BY <1>1, <1>2, <1>3, AlwaysTyped, AlwaysInHand, PTL DEF Spec

\* With the shipped gateway and partner, a loan that leaves the store has had
\* none of its collateral released or forfeited: all of it is given back.
THEOREM UnwindingGivesAllBack ==
  ASSUME AsShipped PROVE Spec => UnwoundWhole
  <1> DEFINE Whole == \A l \in book : l \notin book' =>
                        loan[l].released = 0 /\ loan[l].forfeited = 0
  <1>1. TypeInv /\ ShippedInv /\ DebtInv /\ PaidInv /\ UnwoundInv /\ [Next]_vars => Whole
    <2> SUFFICES ASSUME TypeInv, ShippedInv, DebtInv, PaidInv, UnwoundInv, [Next]_vars,
                        NEW l \in book, l \notin book'
                 PROVE  loan[l].released = 0 /\ loan[l].forfeited = 0
      OBVIOUS
    <2>1. PICK t \in Tasks : task[t].at = "unwindClose" /\ task[t].loan = l
      BY LeavesUnwound
    <2>2. IsOpen(loan[l]) /\ payout[l] = "refused" /\ l \in LoanIds
      BY <2>1 DEF PaidInv, UnwoundInv, TypeInv, TypeOK
    <2> QED
      BY <2>2 DEF PaidInv, DebtInv, IsOpen
  <1>2. UnwoundWhole <=> [][Whole]_vars
    BY PTL DEF UnwoundWhole
  <1> QED
    BY <1>1, <1>2, AlwaysTyped, AlwaysPaid, PTL DEF Spec

-----------------------------------------------------------------------------
(* The status follows from the schedule                                    *)

\* The gateway's calls do what they are asked and say so.
Faultless == GatewayFaults = {}

\* A repayment of the loan has been attested and is about to be settled.
Settling(l) ==
    \E t \in Tasks : task[t].at \in {"repay", "release"} /\ task[t].loan = l

OnSchedule(ln) ==
    /\ ln.status = "active" => ln.graceEnds = NoDeadline /\ ItemsIn(ln, "overdue") = {}
    /\ ln.status = "grace" => ln.graceEnds # NoDeadline
    /\ ln.status = "repaid" => AllRepaid(ln) /\ OutstandingCollateral(ln) = 0
    /\ ln.status = "defaulted" => ~AllRepaid(ln) /\ OutstandingCollateral(ln) = 0

\* What only holds while no repayment of the loan is being settled.
Unsettled(ln) ==
    \/ ln.status = "active" /\ ItemsIn(ln, "pending") = {}
    \/ ln.status = "grace" /\ ItemsIn(ln, "overdue") = {}

ScheduleInv ==
    /\ \A l \in LoanIds : OnSchedule(loan[l]) /\ (Unsettled(loan[l]) => Settling(l))
    /\ \A t \in Tasks : task[t].at \in {"repay", "release"} => task[t].answer = "ok"

\* An attested repayment goes on being settled, or is.
LEMMA SettlingGoesOn ==
  ASSUME OneAtATime, TypeInv, ShippedInv, ScheduleInv, [Next]_vars,
         NEW t \in Tasks, task[t].at \in {"repay", "release"}
  PROVE  \/ task'[t].at \in {"repay", "release"} /\ task'[t].loan = task[t].loan
         \/ SettleInstallment(t, loan[task[t].loan])
         \/ SettleInstallment(t, [loan[task[t].loan] EXCEPT !.released = @ + task[t].amount])
  <1>1. task[t].answer = "ok" /\ ~Parked(t)
    BY DEF ScheduleInv, Parked, OneAtATime
  <1>2. CASE UNCHANGED task
    BY <1>2
  <1>3. CASE Continue(t)
    <2>1. RepayReturns(t) \/ ReleaseReturns(t)
      BY <1>3 DEF Continue, DepositReturns, WithdrawReturns, QuoteReturns, LockReturns,
         RecordReturns, DisburseReturns, DisburseTimesOut, DisburseRejects, UnwindReturns,
         UnwindCloseReturns, VerifyReturns, CloseReturns, LiquidateReturns,
         LiquidateCloseReturns, StatusReturns, EvaluateClosed, EvaluateMissed,
         EvaluateOther, EvaluateExpired, Evaluates, Resumes
    <2>2. ASSUME NEW o, task' = [task EXCEPT ![t].at = "release", ![t].answer = o]
          PROVE  task'[t].at = "release" /\ task'[t].loan = task[t].loan
      BY <2>2 DEF TypeInv, TypeOK, TaskRecord
    <2>3. CASE RepayReturns(t)
      BY <1>1, <2>2, <2>3 DEF RepayReturns, Threw
    <2>4. CASE ReleaseReturns(t)
      BY <1>1, <2>4 DEF ReleaseReturns
    <2> QED
      BY <2>1, <2>3, <2>4
  <1> QED
    BY <1>1, <1>2, <1>3, OnlyIt

LEMMA AnswersKept ==
  ASSUME Faultless, TypeInv, ScheduleInv, [Next]_vars, NEW t \in Tasks,
         task'[t].at \in {"repay", "release"}
  PROVE  task'[t].answer = "ok"
  <1>1. task'[t] = task[t] \/ Arrives(t, task'[t])
    BY EveryTaskMoves DEF TaskMoves
  <1> QED
    BY <1>1 DEF Arrives, ScheduleInv, Outcomes, Faultless

LEMMA SettledNow ==
  ASSUME TypeInv, ShippedInv, ScheduleInv, NEW t \in Tasks,
         task[t].at \in {"repay", "release"}, NEW z \in LoanRecord,
         z.item = loan[task[t].loan].item, z.status = loan[task[t].loan].status,
         SettleInstallment(t, z)
  PROVE  ~Unsettled(loan'[task[t].loan])
  <1> DEFINE l == task[t].loan
             y == loan[l]
             x == loan'[l]
  <1>1. l \in LoanIds /\ IsOpen(y) /\ task[t].full = AllRepaid(y) /\ task[t].full \in BOOLEAN
    BY MovingTyped DEF ShippedInv, TurnInv, InHand, LoanAwaits, TaskRecord
  <1>2. x = Settled(z, task[t].full)
    BY <1>1, OneLoanWritten DEF SettleInstallment
  <1>3. /\ x.item = z.item
        /\ \/ task[t].full /\ x.status = "repaid"
           \/ ~task[t].full /\ z.status = "grace" /\ ItemsIn(z, "overdue") = {} /\ x.status = "active"
           \/ /\ ~task[t].full /\ (z.status = "grace" => ItemsIn(z, "overdue") # {})
              /\ x.status = z.status
    BY <1>1, <1>2, SettledFields
  <1> HIDE DEF x
  <1>4. \A s : ItemsIn(x, s) = ItemsIn(y, s) /\ ItemsIn(z, s) = ItemsIn(y, s)
    BY <1>3 DEF ItemsIn
  <1>5. y.status = "active" => ItemsIn(y, "overdue") = {}
    BY <1>1 DEF ScheduleInv, OnSchedule
  <1>6. ~Unsettled(x)
    BY <1>1, <1>3, <1>4, <1>5 DEF Unsettled, AllRepaid, IsOpen
  <1> QED
    BY <1>6 DEF x

LEMMA SettlingStays ==
  ASSUME OneAtATime, TypeInv, ShippedInv, ScheduleInv, [Next]_vars, NEW l \in LoanIds,
         Settling(l)
  PROVE  Settling(l)' \/ ~Unsettled(loan'[l])
  <1>1. PICK t \in Tasks : task[t].at \in {"repay", "release"} /\ task[t].loan = l
    BY DEF Settling
  <1> DEFINE y == loan[l]
             z == [y EXCEPT !.released = @ + task[t].amount]
  <1>2. y \in LoanRecord /\ task[t].amount \in Int
    BY MovingTyped DEF TaskRecord
  <1>3. z \in LoanRecord /\ z.item = y.item /\ z.status = y.status
    BY <1>2, ReleasedFields DEF LoanRecord
  <1>4. CASE task'[t].at \in {"repay", "release"} /\ task'[t].loan = task[t].loan
    BY <1>1, <1>4 DEF Settling
  <1>5. CASE SettleInstallment(t, y)
    BY <1>1, <1>2, <1>5, SettledNow
  <1>6. CASE SettleInstallment(t, z)
    <2> HIDE DEF z
    <2> QED
      BY <1>1, <1>3, <1>6, SettledNow
  <1> QED
    BY <1>1, <1>4, <1>5, <1>6, SettlingGoesOn

\* Every move of an open loan leaves it on schedule.
LEMMA OpenOnSchedule ==
  ASSUME OneAtATime, TypeInv, ShippedInv, ScheduleInv, DebtInv, [Next]_vars,
         NEW l \in LoanIds, IsOpen(loan[l])
  PROVE  OnSchedule(loan'[l]) /\ (Unsettled(loan'[l]) => Settling(l)')
  <1> DEFINE x == loan'[l]
             y == loan[l]
  <1>1. /\ y \in LoanRecord /\ Begun(y) /\ y.status # "none" /\ y.forfeited = 0
        /\ y.status \in {"active", "grace"}
    BY DEF TypeInv, TypeOK, Begun, IsOpen, DebtInv
  <1>2. SameContract(x, y) /\ x \in LoanRecord
    BY <1>1, ContractKept, StepTyped DEF ShippedInv, TypeInv, TypeOK
  <1>3. OnSchedule(y) /\ (Unsettled(y) => Settling(l)) /\ (Settling(l) => Settling(l)' \/ ~Unsettled(x))
    BY SettlingStays DEF ScheduleInv
  <1>4. CASE Rests(x, y)
    <2>1. \A s : ItemsIn(x, s) = ItemsIn(y, s)
      BY <1>4 DEF Rests, ItemsIn
    <2>2. OnSchedule(x)
      BY <1>1, <1>3, <1>4, <2>1 DEF OnSchedule, Rests
    <2>3. Unsettled(x) => Unsettled(y)
      BY <1>4, <2>1 DEF Unsettled, Rests
    <2> QED
      BY <1>3, <2>2, <2>3
  <1>5. ASSUME NEW t \in Tasks, HasTurn(t), Swept(t, x, y)
        PROVE  OnSchedule(x) /\ ~Unsettled(x)
    <2>1. ~Settling(l)
      <3>1. task[t].at = "next"
        BY <1>5 DEF Swept
      <3> QED
        BY <1>5, <3>1 DEF Settling, HasTurn, Parked, OneAtATime
    <2>2. task[t].asOf \in Nat /\ GracePeriod \in Nat
      BY MovingTyped, LoanBookAssumption DEF TaskRecord
    <2>3. y.status = "active" => ItemsIn(y, "pending") # {} /\ y.graceEnds = NoDeadline
                                 /\ ItemsIn(y, "overdue") = {}
      BY <1>3, <2>1 DEF Unsettled, OnSchedule
    <2>4. y.status = "grace" => ItemsIn(y, "overdue") # {} /\ y.graceEnds # NoDeadline
      BY <1>3, <2>1 DEF Unsettled, OnSchedule
    <2>5. \A i \in Installments :
            x.item[i] = IF i \in PastDue(y, task[t].asOf) THEN "overdue" ELSE y.item[i]
      BY <1>5 DEF Swept
    <2>6. ItemsIn(y, "overdue") \subseteq ItemsIn(x, "overdue")
      BY <2>5 DEF ItemsIn
    <2>7. ItemsIn(x, "overdue") = {} => ItemsIn(x, "pending") = ItemsIn(y, "pending")
      BY <2>5 DEF ItemsIn
    <2>8. \/ /\ y.status = "active" /\ x.status = "grace" /\ ItemsIn(x, "overdue") # {}
             /\ x.graceEnds = task[t].asOf + GracePeriod
          \/ /\ x.status = y.status /\ x.graceEnds = y.graceEnds
             /\ y.status = "active" => ItemsIn(x, "overdue") = {}
      BY <1>5 DEF Swept
    <2>9. task[t].asOf + GracePeriod # NoDeadline
      BY <2>2 DEF NoDeadline
    <2> QED
      BY <1>1, <2>3, <2>4, <2>6, <2>7, <2>8, <2>9 DEF OnSchedule, Unsettled
  <1>6. ASSUME NEW t \in Tasks, task[t].loan = l, Attested(t, x, y)
        PROVE  OnSchedule(x) /\ Settling(l)'
    <2>1. ItemsIn(x, "overdue") \subseteq ItemsIn(y, "overdue")
      BY <1>6 DEF Attested, ItemsIn
    <2>2. Settling(l)'
      BY <1>6 DEF Attested, Settling
    <2>3. x.status = y.status /\ x.graceEnds = y.graceEnds
      BY <1>6 DEF Attested
    <2> QED
      BY <1>1, <1>3, <2>1, <2>2, <2>3 DEF OnSchedule
  <1>7. ASSUME NEW t \in Tasks, task[t].loan = l, SettledTo(t, x, y)
        PROVE  OnSchedule(x) /\ ~Unsettled(x)
    <2>1. \A s : ItemsIn(x, s) = ItemsIn(y, s)
      BY <1>7 DEF SettledTo, ItemsIn
    <2>2. AllRepaid(x) <=> AllRepaid(y)
      BY <2>1 DEF AllRepaid
    <2>3. CASE AllRepaid(y)
      <3>1. x.status = "repaid"
        BY <1>7, <2>3 DEF SettledTo
      <3>2. task[t].amount = OutstandingCollateral(y)
        BY <1>7, <2>3 DEF SettledTo, ShippedInv, TurnInv, InHand
      <3>3. x.released = y.released + OutstandingCollateral(y) /\ x.forfeited = y.forfeited
        BY <1>1, <1>7, <3>2 DEF SettledTo, LoanRecord
      <3>4. OutstandingCollateral(x) = 0
        BY <1>1, <1>2, <3>3
        DEF OutstandingCollateral, StillLocked, AtLeastZero, SameContract, LoanRecord
      <3> QED
        BY <2>2, <2>3, <3>1, <3>4 DEF OnSchedule, Unsettled
    <2>4. CASE ~AllRepaid(y)
      <3>1. ItemsIn(y, "overdue") = {} => ItemsIn(y, "pending") # {}
        BY <2>4 DEF AllRepaid
      <3>2. \/ /\ y.status = "grace" /\ ItemsIn(y, "overdue") = {}
               /\ x.status = "active" /\ x.graceEnds = NoDeadline
            \/ /\ y.status = "grace" => ItemsIn(y, "overdue") # {}
               /\ x.status = y.status /\ x.graceEnds = y.graceEnds
        BY <1>7, <2>4 DEF SettledTo
      <3> QED
        BY <1>1, <1>3, <2>1, <3>1, <3>2 DEF OnSchedule, Unsettled
    <2> QED
      BY <2>3, <2>4
  <1>8. ASSUME NEW t \in Tasks, HasTurn(t), DefaultedTo(t, l, x, y)
        PROVE  OnSchedule(x) /\ ~Unsettled(x)
    <2>1. ~Settling(l) /\ y.status = "grace" /\ x.status = "defaulted"
      <3>1. task[t].at \in {"next", "liquidate"}
        BY <1>8 DEF DefaultedTo
      <3>2. ~Settling(l)
        BY <1>8, <3>1 DEF Settling, HasTurn, Parked, OneAtATime
      <3> QED
        BY <1>8, <3>2 DEF DefaultedTo, GraceExpired
    <2>2. ItemsIn(y, "overdue") # {}
      BY <1>3, <2>1 DEF Unsettled
    <2>3. ~AllRepaid(x)
      BY <1>8, <2>2 DEF DefaultedTo, AllRepaid, ItemsIn
    <2>4. PICK f \in {Forfeit(OutstandingPrincipal(y), OutstandingCollateral(y))} :
            /\ x.forfeited = y.forfeited + f
            /\ x.released = y.released + (OutstandingCollateral(y) - f)
      BY <1>8 DEF DefaultedTo
    <2>5. f \in Int /\ OutstandingCollateral(y) \in Int
      BY <1>1, AmountsInt DEF Begun, Forfeit, Least
    <2>6. OutstandingCollateral(x) = 0
      BY <1>1, <1>2, <2>4, <2>5
      DEF OutstandingCollateral, StillLocked, AtLeastZero, SameContract, LoanRecord
    <2> QED
      BY <2>1, <2>3, <2>6 DEF OnSchedule, Unsettled
  <1> QED
    BY <1>4, <1>5, <1>6, <1>7, <1>8, OpenLoanMoves DEF OpenMoves

LEMMA ScheduleKept ==
  ASSUME OneAtATime, Faultless, TypeInv, ShippedInv, DebtInv, ScheduleInv, [Next]_vars
  PROVE  ScheduleInv'
  <1>1. ASSUME NEW l \in LoanIds
        PROVE  OnSchedule(loan'[l]) /\ (Unsettled(loan'[l]) => Settling(l)')
    <2> DEFINE x == loan'[l]
               y == loan[l]
    <2>1. OnSchedule(y) /\ (Unsettled(y) => Settling(l))
      BY DEF ScheduleInv
    <2>2. CASE y.status = "none"
      <3>1. CASE x = y
        BY <2>1, <2>2, <3>1 DEF Unsettled
      <3>2. ASSUME NEW t \in Tasks, task[t].terms \in Terms,
                   x = NewLoan(task[t].guarantor, task[t].beneficiary, task[t].terms)
            PROVE  OnSchedule(x) /\ ~Unsettled(x)
        <4> DEFINE n == task[t].terms.count
        <4>1. n \in Nat \ {0} /\ 1..n \subseteq Installments
          BY <3>2, LoanBookAssumption DEF Installments, Term
        <4>2. 1 \in Installments /\ 1 <= n
          BY <4>1
        <4>3. /\ x.status = "active" /\ x.graceEnds = NoDeadline
              /\ \A i \in Installments : x.item[i] = IF i <= n THEN "pending" ELSE "absent"
          BY <3>2, NewLoanFields
        <4> HIDE DEF n, x
        <4>4. ItemsIn(x, "overdue") = {} /\ 1 \in ItemsIn(x, "pending")
          BY <4>2, <4>3 DEF ItemsIn
        <4>5. OnSchedule(x) /\ ~Unsettled(x)
          BY <4>3, <4>4 DEF OnSchedule, Unsettled
        <4> QED
          BY <4>5 DEF x
      <3> QED
        BY <2>2, <3>1, <3>2, UnbegunMoves
    <2>3. CASE y.status \in {"repaid", "defaulted"}
      <3>1. /\ x.status = y.status /\ x.item = y.item /\ x.released = y.released
            /\ x.forfeited = y.forfeited /\ SameContract(x, y)
        BY <2>3, ClosedStays
      <3>2. OutstandingCollateral(x) = OutstandingCollateral(y)
        BY <3>1, SameHeld
      <3>3. \A s : ItemsIn(x, s) = ItemsIn(y, s)
        BY <3>1 DEF ItemsIn
      <3> QED
        BY <2>1, <2>3, <3>1, <3>2, <3>3 DEF OnSchedule, Unsettled, AllRepaid
    <2>4. CASE IsOpen(y)
      BY <2>4, OpenOnSchedule
    <2> QED
      BY <2>2, <2>3, <2>4, StatusCases
  <1> QED
    BY <1>1, AnswersKept DEF ScheduleInv

LEMMA ScheduleStart == ASSUME Init PROVE ScheduleInv
  BY DEF Init, NoLoan, Idle, ScheduleInv, OnSchedule, Unsettled

LEMMA AlwaysOnSchedule ==
  ASSUME OneAtATime, FromTheListing, Faultless
  PROVE  Spec => [](TypeInv /\ ShippedInv /\ DebtInv /\ ScheduleInv)
  <1>1. Init => DebtInv /\ ScheduleInv
    BY DebtStart, ScheduleStart
  <1>2. TypeInv /\ ShippedInv /\ DebtInv /\ ScheduleInv /\ [Next]_vars
          => DebtInv' /\ ScheduleInv'
    BY DebtKept, ScheduleKept
  <1> QED
    BY <1>1, <1>2, AlwaysTyped, AlwaysInHand, PTL DEF Spec

\* With the shipped gateway and partner, a stored loan's status between two
\* requests is the one its installments call for.
THEOREM StatusFollowsSchedule ==
  ASSUME OneAtATime, FromTheListing, Faultless PROVE Spec => []StatusMatchesSchedule
  <1>1. TypeInv /\ ShippedInv /\ DebtInv /\ ScheduleInv => StatusMatchesSchedule
    <2> SUFFICES ASSUME TypeInv, ScheduleInv, Quiet, NEW l \in book
                 PROVE  CASE loan[l].status = "active" ->
                               /\ ItemsIn(loan[l], "overdue") = {}
                               /\ ItemsIn(loan[l], "pending") # {}
                               /\ loan[l].graceEnds = NoDeadline
                          [] loan[l].status = "grace" ->
                               ItemsIn(loan[l], "overdue") # {} /\ loan[l].graceEnds # NoDeadline
                          [] loan[l].status = "repaid" ->
                               AllRepaid(loan[l]) /\ OutstandingCollateral(loan[l]) = 0
                          [] loan[l].status = "defaulted" ->
                               ~AllRepaid(loan[l]) /\ OutstandingCollateral(loan[l]) = 0
                          [] OTHER -> FALSE
      BY DEF StatusMatchesSchedule
    <2>1. l \in LoanIds /\ loan[l].status \in LoanStatus \ {"none"}
      BY DEF TypeInv, TypeOK, LoanRecord
    <2>2. ~Settling(l)
      BY DEF Quiet, Parked, Settling, OneAtATime
    <2>3. OnSchedule(loan[l]) /\ ~Unsettled(loan[l])
      BY <2>1, <2>2 DEF ScheduleInv
    <2> QED
      BY <2>1, <2>3 DEF OnSchedule, Unsettled, LoanStatus
  <1> QED
    BY <1>1, AlwaysOnSchedule, PTL

\* The deadline of a loan in grace comes a grace period after an installment
\* that was missed, even if that one has been repaid since.
MissedInv ==
    \A l \in LoanIds : loan[l].status = "grace" =>
        \E i \in ItemsIn(loan[l], "overdue") \cup ItemsIn(loan[l], "repaid") :
          DueAt(loan[l], i) + GracePeriod < loan[l].graceEnds

LEMMA MissedKept ==
  ASSUME TypeInv, ShippedInv, ScheduleInv, MissedInv, [Next]_vars PROVE MissedInv'
  <1> SUFFICES ASSUME NEW l \in LoanIds, loan'[l].status = "grace"
               PROVE  \E i \in ItemsIn(loan'[l], "overdue") \cup ItemsIn(loan'[l], "repaid") :
                        DueAt(loan'[l], i) + GracePeriod < loan'[l].graceEnds
    BY DEF MissedInv, ItemsIn, DueAt
  <1> DEFINE x == loan'[l]
             y == loan[l]
  <1>1. y.status \notin {"none", "repaid", "defaulted"}
    <2>1. ASSUME NEW g, NEW b, NEW tm, x = NewLoan(g, b, tm) PROVE x.status = "active"
      BY <2>1, NewLoanFields
    <2>2. y.status = "none" => x = y \/ x.status = "active"
      BY <2>1, UnbegunMoves
    <2> QED
      BY <2>2, ClosedStays
  <1>2. /\ IsOpen(y) /\ y \in LoanRecord /\ Begun(y) /\ SameContract(x, y)
    BY <1>1, ContractKept, StatusCases DEF ShippedInv, TypeInv, TypeOK, Begun
  <1>3. \A i : DueAt(x, i) = DueAt(y, i)
    BY <1>2 DEF DueAt, SameContract
  \* Staying in grace, what was missed stays missed or is repaid.
  <1>4. ASSUME y.status = "grace", x.graceEnds = y.graceEnds,
               \A i \in Installments : y.item[i] \in {"overdue", "repaid"} =>
                                       x.item[i] \in {"overdue", "repaid"}
        PROVE  \E i \in ItemsIn(x, "overdue") \cup ItemsIn(x, "repaid") :
                 DueAt(x, i) + GracePeriod < x.graceEnds
    <2>1. PICK i \in ItemsIn(y, "overdue") \cup ItemsIn(y, "repaid") :
            DueAt(y, i) + GracePeriod < y.graceEnds
      BY <1>4 DEF MissedInv
    <2>2. i \in ItemsIn(x, "overdue") \cup ItemsIn(x, "repaid")
      BY <1>4, <2>1 DEF ItemsIn
    <2> QED
      BY <1>3, <1>4, <2>1, <2>2
  <1>5. CASE Rests(x, y)
    BY <1>4, <1>5 DEF Rests
  <1>6. ASSUME NEW t \in Tasks, Swept(t, x, y)
        PROVE  \E i \in ItemsIn(x, "overdue") \cup ItemsIn(x, "repaid") :
                 DueAt(x, i) + GracePeriod < x.graceEnds
    <2>1. \A i \in Installments :
            x.item[i] = IF i \in PastDue(y, task[t].asOf) THEN "overdue" ELSE y.item[i]
      BY <1>6 DEF Swept
    <2>2. CASE /\ y.status = "active" /\ ItemsIn(x, "overdue") # {}
               /\ x.graceEnds = task[t].asOf + GracePeriod
      <3>1. ItemsIn(y, "overdue") = {}
        BY <2>2 DEF ScheduleInv, OnSchedule
      <3>2. PICK i \in ItemsIn(x, "overdue") : i \in PastDue(y, task[t].asOf)
        BY <2>1, <2>2, <3>1 DEF ItemsIn
      <3>3. DueAt(y, i) < task[t].asOf
        BY <3>2 DEF PastDue
      <3>4. GracePeriod \in Nat /\ task[t].asOf \in Nat /\ DueAt(y, i) \in Int
        <4>1. i \in Nat \ {0}
          BY <3>2, LoanBookAssumption DEF ItemsIn, Installments, Term
        <4> QED
          BY <1>2, <4>1, MovingTyped, DueInt, LoanBookAssumption DEF TaskRecord
      <3> QED
        BY <1>3, <2>2, <3>2, <3>3, <3>4
    <2>3. CASE x.status = y.status /\ x.graceEnds = y.graceEnds
      BY <1>4, <2>1, <2>3 DEF PastDue
    <2> QED
      BY <1>6, <2>2, <2>3 DEF Swept
  <1>7. ASSUME NEW t \in Tasks, Attested(t, x, y) \/ SettledTo(t, x, y)
        PROVE  \E i \in ItemsIn(x, "overdue") \cup ItemsIn(x, "repaid") :
                 DueAt(x, i) + GracePeriod < x.graceEnds
    BY <1>4, <1>7 DEF Attested, SettledTo
  <1> QED
    BY <1>2, <1>5, <1>6, <1>7, OpenLoanMoves DEF OpenMoves, DefaultedTo

\* With the shipped gateway and partner, a loan defaults only out of a grace
\* period whose deadline has passed, with an installment overdue.
THEOREM DefaultsOutOfGrace ==
  ASSUME OneAtATime, FromTheListing, Faultless PROVE Spec => DefaultsAfterGrace
  <1> DEFINE Late == \A l \in LoanIds : loan[l].status # "defaulted" /\ loan'[l].status = "defaulted" =>
                       /\ loan[l].status = "grace" /\ ItemsIn(loan[l], "overdue") # {}
                       /\ loan[l].graceEnds <= now
                       /\ \E i \in ItemsIn(loan[l], "overdue") \cup ItemsIn(loan[l], "repaid") :
                            DueAt(loan[l], i) + GracePeriod < loan[l].graceEnds
  <1>1. Init => MissedInv
    BY DEF Init, NoLoan, MissedInv
  <1>2. TypeInv /\ ShippedInv /\ DebtInv /\ ScheduleInv /\ MissedInv /\ [Next]_vars
          => MissedInv' /\ Late
    <2> SUFFICES ASSUME TypeInv, ShippedInv, DebtInv, ScheduleInv, MissedInv, [Next]_vars,
                        NEW l \in LoanIds, loan[l].status # "defaulted",
                        loan'[l].status = "defaulted"
                 PROVE  /\ loan[l].status = "grace" /\ ItemsIn(loan[l], "overdue") # {}
                        /\ loan[l].graceEnds <= now
      BY MissedKept DEF MissedInv
    <2> DEFINE x == loan'[l]
               y == loan[l]
    <2>1. IsOpen(y)
      <3>1. ASSUME NEW g, NEW b, NEW tm, x = NewLoan(g, b, tm) PROVE x.status = "active"
        BY <3>1, NewLoanFields
      <3>2. y.status = "none" => x = y \/ x.status = "active"
        BY <3>1, UnbegunMoves
      <3> QED
        BY <3>2, ClosedStays, StatusCases
    <2>2. PICK t \in Tasks : HasTurn(t) /\ DefaultedTo(t, l, x, y)
      BY <2>1, OpenLoanMoves
      DEF OpenMoves, Rests, Swept, Attested, SettledTo, IsOpen
    <2>3. ~Settling(l)
      <3>1. task[t].at \in {"next", "liquidate"}
        BY <2>2 DEF DefaultedTo
      <3> QED
        BY <2>2, <3>1 DEF Settling, HasTurn, Parked, OneAtATime
    <2>4. /\ y.status = "grace" /\ y.graceEnds # NoDeadline /\ y.graceEnds <= task[t].asOf
          /\ task[t].asOf <= now
      BY <2>2 DEF DefaultedTo, GraceExpired, ShippedInv, TimelyInv
    <2>5. y.graceEnds \in Int /\ task[t].asOf \in Nat /\ now \in Nat
      BY MovingTyped DEF TaskRecord, TypeInv, TypeOK, LoanRecord, NoDeadline
    <2> QED
      BY <2>3, <2>4, <2>5 DEF ScheduleInv, Unsettled
  <1>3. DefaultsAfterGrace <=> [][Late]_vars
    BY PTL DEF DefaultsAfterGrace
  <1> QED
    BY <1>1, <1>2, <1>3, AlwaysOnSchedule, PTL DEF Spec
=============================================================================
