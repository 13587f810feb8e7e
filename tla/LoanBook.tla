------------------------------ MODULE LoanBook ------------------------------
(***************************************************************************)
(* Loans held by the backend without the contracts connected: origination, *)
(* disbursement, repayment, the lifecycle sweep, liquidation and the       *)
(* operator's reconciliation of unknown disbursements, together with the   *)
(* guarantors' vaults and the contract gateway's positions they move.      *)
(*                                                                         *)
(* A task is one run of an asynchronous handler.  Between two awaits a     *)
(* handler runs to completion, so an action is the code from one await to  *)
(* the next; task[t].at names the await the task is suspended at.  Where   *)
(* a pending call completes in a microtask, nothing else runs before the   *)
(* task resumes; only the awaits in YieldsAt give other tasks a turn.      *)
(* With the gateway and partner the repository ships, that is the partner's*)
(* `disburse` alone; with remote ones behind the same interfaces it is     *)
(* every await on them.                                                    *)
(*                                                                         *)
(* Operators commented as mutants stand for plausible bugs in the          *)
(* definition that follows them; no action uses them.                      *)
(***************************************************************************)
EXTENDS Money, VaultAccounts, GatewayPositions

CONSTANTS
    Guarantors, Beneficiaries, \* parties; a vault is named by its guarantor
    Handlers,                  \* slots for requests being served at once
    Job,                       \* the lifecycle job's own slot
    None,                      \* no loan, no party, no terms
    Terms,                     \* loan requests: principal, count, interval, ltv
    Amounts, MaxBalance,       \* deposits and withdrawals; bound on a balance
    GracePeriod, MaxTime,      \* in days; bound on the clock
    SweepsDaily,               \* whether the job never falls a day behind
    YieldsAt,                  \* the awaits at which other tasks get a turn
    GatewayFaults,             \* how a gateway call may fail of its own accord
    PartnerFailures,           \* how the partner reports a failed disbursement
    Operator                   \* which loans an operator reconciles

Tasks == Handlers \cup {Job}

\* Awaits on the gateway or the partner, by the call that is pending.
RemoteAwaits == {"deposit", "withdraw", "quote", "lock", "record", "disburse",
                 "unwind", "unwindClose", "verify", "repay", "release", "close",
                 "liquidate", "liquidateClose", "status"}

\* "next" is the sweep's await on the evaluation of a loan that called nobody.
Awaits == RemoteAwaits \cup {"idle", "next"}

Term == [principal : Nat \ {0}, count : Nat \ {0}, interval : Nat, ltv : Nat]

ASSUME LoanBookAssumption ==
    /\ Job \notin Handlers
    /\ None \notin LoanIds \cup Guarantors \cup Beneficiaries \cup Terms
    /\ Terms \subseteq Term /\ IsFiniteSet(Terms)
    /\ Amounts \subseteq Nat \ {0}
    /\ MaxBalance \in Nat /\ MaxTime \in Nat /\ GracePeriod \in Nat
    /\ SweepsDaily \in BOOLEAN
    /\ YieldsAt \subseteq RemoteAwaits
    /\ GatewayFaults \subseteq {"refused", "threw", "lost"}
    /\ PartnerFailures \subseteq {"rejects", "resolves", "drops"}
    /\ Operator \in {"prompt", "listed", "any"}

VARIABLES
    vault,      \* guarantor -> the backend's account of its collateral
    position,   \* guarantor -> the gateway's account of the same collateral
    loan,       \* loan id -> the loan object, whether or not in the store
    book,       \* the keys of the `loans` store
    attested,   \* loan id -> installment -> attestations recorded for it
    payout,     \* loan id -> what became of the partner's payment (external)
    task,       \* task -> the handler it runs and where it is suspended
    now         \* the day

vars == <<vault, position, loan, book, attested, payout, task, now>>

-----------------------------------------------------------------------------
(* Loans                                                                   *)

NoDeadline == -1

Installments == UNION {1 .. tm.count : tm \in Terms}

NoLoan == [status |-> "none", guarantor |-> None, beneficiary |-> None,
           terms |-> None, born |-> 0, locked |-> 0, released |-> 0,
           forfeited |-> 0, item |-> [i \in Installments |-> "absent"],
           graceEnds |-> NoDeadline, disbursement |-> "none"]

NewLoan(g, b, tm) ==
    [status |-> "active", guarantor |-> g, beneficiary |-> b, terms |-> tm,
     born |-> now, locked |-> RequiredCollateral(tm.principal, tm.ltv),
     released |-> 0, forfeited |-> 0,
     item |-> [i \in Installments |-> IF i <= tm.count THEN "pending" ELSE "absent"],
     graceEnds |-> NoDeadline, disbursement |-> "none"]

IsOpen(ln) == ln.status \in {"active", "grace"}

ItemsIn(ln, s) == {i \in Installments : ln.item[i] = s}

AllRepaid(ln) == ItemsIn(ln, "pending") \cup ItemsIn(ln, "overdue") = {}

RepaidTotal(ln) ==
    TotalRepaid(ln.terms.principal, ln.terms.count, ItemsIn(ln, "repaid"))

OutstandingCollateral(ln) == StillLocked(ln.locked, ln.released, ln.forfeited)

\* Mutant: repaid installments do not count.
WholePrincipal(ln) == ln.terms.principal

OutstandingPrincipal(ln) == StillOwed(ln.terms.principal, RepaidTotal(ln))

\* Mutants: each installment releases everything; or the cumulative share anew.
ReleaseEverything(ln) == OutstandingCollateral(ln)

ReleaseCumulative(ln) == ReleaseDue(ln.terms.principal, ln.locked, 0, RepaidTotal(ln))

CollateralRelease(ln) ==
    ReleaseDue(ln.terms.principal, ln.locked, ln.released, RepaidTotal(ln))

DueAt(ln, i) == ln.born + ln.terms.interval * i

\* The pending installments whose due date had passed at the given time.
PastDue(ln, asOf) == {i \in ItemsIn(ln, "pending") : DueAt(ln, i) < asOf}

WithItems(ln, S, s) ==
    [ln EXCEPT !.item = [i \in Installments |-> IF i \in S THEN s ELSE ln.item[i]]]

\* Mutant: a loan in its grace period is overlooked.
ExistingActiveLoan(g, b) ==
    \E l \in book : /\ loan[l].guarantor = g
                    /\ loan[l].beneficiary = b
                    /\ loan[l].status = "active"

ExistingLoan(g, b) ==
    \E l \in book : /\ loan[l].guarantor = g
                    /\ loan[l].beneficiary = b
                    /\ IsOpen(loan[l])

-----------------------------------------------------------------------------
(* Tasks and the event loop                                                *)

Idle == [at |-> "idle", answer |-> "ok", loan |-> None, guarantor |-> None,
         beneficiary |-> None, terms |-> None, n |-> 0, amount |-> 0,
         excess |-> 0, full |-> FALSE, todo |-> {}, asOf |-> 0]

Parked(t) == task[t].at \in YieldsAt \cup {"idle"}

\* A task gets a turn only while every other one waits on the event loop.
HasTurn(t) == \A u \in Tasks \ {t} : Parked(u)

Starts(t) == task[t].at = "idle" /\ HasTurn(t)

Resumes(t, await) == task[t].at = await /\ HasTurn(t)

\* A resumed task whose pending call resolved, and one whose call rejected.
Resolved(t) == task[t].answer \in {"ok", "refused"}

Threw(t) == task[t].answer \in {"threw", "lost"}

Ends(t) == task' = [task EXCEPT ![t] = Idle]

\* How a gateway call can turn out, and whether its effect took place: a
\* call that is refused resolves without success, one that threw did not
\* reach the contract, and one that is lost took effect but rejects.
Outcomes == {"ok"} \cup GatewayFaults

TookEffect(o) == o \in {"ok", "lost"}

-----------------------------------------------------------------------------
Init ==
    /\ vault = [g \in Guarantors |-> EmptyVault]
    /\ position = [g \in Guarantors |-> EmptyPosition]
    /\ loan = [l \in LoanIds |-> NoLoan]
    /\ book = {}
    /\ attested = [l \in LoanIds |-> [i \in Installments |-> 0]]
    /\ payout = [l \in LoanIds |-> "none"]
    /\ task = [t \in Tasks |-> Idle]
    /\ now = 0

-----------------------------------------------------------------------------
(* Deposits and withdrawals                                                *)

Deposit(t, g, amount) ==
    /\ Starts(t)
    /\ vault[g].balance + amount <= MaxBalance
    /\ position[g].balance + amount <= MaxBalance
    /\ \E o \in Outcomes :
         /\ position' = IF TookEffect(o)
                        THEN [position EXCEPT ![g] = GwDeposit(@, amount)]
                        ELSE position
         /\ task' = [task EXCEPT ![t] = [Idle EXCEPT !.at = "deposit", !.answer = o,
                                           !.guarantor = g, !.amount = amount]]
    /\ UNCHANGED <<vault, loan, book, attested, payout, now>>

DepositReturns(t) ==
    /\ Resumes(t, "deposit")
    /\ vault' = IF task[t].answer = "ok"
                THEN [vault EXCEPT ![task[t].guarantor] = Deposited(@, task[t].amount)]
                ELSE vault
    /\ Ends(t)
    /\ UNCHANGED <<position, loan, book, attested, payout, now>>

Withdraw(t, g, amount) ==
    /\ Starts(t)
    /\ amount <= Available(vault[g])
    /\ \E o \in Outcomes :
         LET done == TookEffect(o) /\ amount <= PositionAvailable(position[g])
         IN /\ position' = IF done
                           THEN [position EXCEPT ![g] = GwWithdraw(@, amount)]
                           ELSE position
            /\ task' = [task EXCEPT ![t] =
                 [Idle EXCEPT !.at = "withdraw", !.guarantor = g, !.amount = amount,
                              !.answer = IF TookEffect(o) /\ ~done THEN "refused" ELSE o]]
    /\ UNCHANGED <<vault, loan, book, attested, payout, now>>

WithdrawReturns(t) ==
    /\ Resumes(t, "withdraw")
    /\ vault' = IF task[t].answer = "ok"
                THEN [vault EXCEPT ![task[t].guarantor] = Withdrawn(@, task[t].amount)]
                ELSE vault
    /\ Ends(t)
    /\ UNCHANGED <<position, loan, book, attested, payout, now>>

-----------------------------------------------------------------------------
(* Origination                                                             *)

FreshLoans == {l \in LoanIds : loan[l].status = "none"
                               /\ \A t \in Tasks : task[t].loan # l}

\* The request's checks, up to the partner's quote.  Loans are bounded by
\* LoanIds, and only begun while there is time left to see them end.
Originate(t, g, b, tm) ==
    /\ Starts(t)
    /\ ~ExistingLoan(g, b)
    /\ now + tm.interval * tm.count + GracePeriod + 2 <= MaxTime
    /\ \E l \in FreshLoans :
         task' = [task EXCEPT ![t] = [Idle EXCEPT !.at = "quote", !.loan = l,
                    !.guarantor = g, !.beneficiary = b, !.terms = tm]]
    /\ UNCHANGED <<vault, position, loan, book, attested, payout, now>>

\* Priced: the loan object is built and the gateway asked to lock its collateral.
QuoteReturns(t) ==
    /\ Resumes(t, "quote")
    /\ LET g  == task[t].guarantor
           l  == task[t].loan
           ln == NewLoan(g, task[t].beneficiary, task[t].terms)
       IN \/ /\ Available(vault[g]) < ln.locked
             /\ Ends(t)
             /\ UNCHANGED <<position, loan>>
          \/ /\ Available(vault[g]) >= ln.locked
             /\ loan' = [loan EXCEPT ![l] = ln]
             /\ \E o \in Outcomes :
                  LET done == TookEffect(o) /\ ln.locked <= PositionAvailable(position[g])
                  IN /\ position' = IF done
                                    THEN [position EXCEPT ![g] = GwLock(@, l, ln.locked)]
                                    ELSE position
                     /\ task' = [task EXCEPT ![t] =
                          [Idle EXCEPT !.at = "lock", !.loan = l,
                             !.answer = IF TookEffect(o) /\ ~done THEN "refused" ELSE o]]
    /\ UNCHANGED <<vault, book, attested, payout, now>>

\* Mutant: the gateway's answer is not looked at.
LockedLocally(t, l) == CanLock(vault[loan[l].guarantor], loan[l].locked)

\* The gateway has locked the collateral, and the vault can follow suit.
LockHolds(t, l) ==
    task[t].answer = "ok" /\ CanLock(vault[loan[l].guarantor], loan[l].locked)

\* Locked on the gateway, so locked here too, stored, and recorded there; the
\* local lock throws if the vault has meanwhile been committed elsewhere.
LockReturns(t) ==
    /\ Resumes(t, "lock")
    /\ LET l == task[t].loan
           g == loan[l].guarantor
       IN IF LockHolds(t, l)
          THEN /\ vault' = [vault EXCEPT ![g] = LockedUp(@, loan[l].locked)]
               /\ book' = book \cup {l}
               /\ \E o \in Outcomes :
                    task' = [task EXCEPT ![t].at = "record", ![t].answer = o]
          ELSE Ends(t) /\ UNCHANGED <<vault, book>>
    /\ UNCHANGED <<position, loan, attested, payout, now>>

\* Only a rejection stops the disbursement: an unsuccessful result is ignored.
RecordReturns(t) ==
    /\ Resumes(t, "record")
    /\ IF Resolved(t)
       THEN /\ task' = [task EXCEPT ![t].at = "disburse", ![t].answer = "ok",
                                      ![t].asOf = now]
            /\ payout' = [payout EXCEPT ![task[t].loan] = "asked"]
       ELSE Ends(t) /\ UNCHANGED payout
    /\ UNCHANGED <<vault, position, loan, book, attested, now>>

\* Mutant: the outcome is not recorded.
EndsUnrecorded(t, outcome) ==
    Ends(t) /\ UNCHANGED <<vault, position, loan, book, attested, payout, now>>

DisbursementEnds(t, outcome) ==
    LET l == task[t].loan
    IN /\ loan' = [loan EXCEPT ![l].disbursement = outcome]
       /\ book' = book \cup {l}
       /\ Ends(t)
       /\ UNCHANGED <<vault, position, attested, payout, now>>

\* The partner's promise resolved; whether with success is not looked at.
DisburseReturns(t) ==
    /\ Resumes(t, "disburse")
    /\ \/ payout[task[t].loan] = "paid"
       \/ payout[task[t].loan] = "refused" /\ "resolves" \in PartnerFailures
    /\ DisbursementEnds(t, "completed")

\* Mutant: the gateway is not told.
UnwindLocally(t, l) ==
    /\ task' = [task EXCEPT ![t] = [Idle EXCEPT !.at = "unwind", !.loan = l]]
    /\ UNCHANGED position

\* A loan is unwound: the gateway releases what it locked for it.
StartUnwind(t, l) ==
    \E o \in Outcomes :
      /\ position' = IF TookEffect(o)
                     THEN [position EXCEPT ![loan[l].guarantor] =
                             GwRelease(@, l, loan[l].locked)]
                     ELSE position
      /\ task' = [task EXCEPT ![t] = [Idle EXCEPT !.at = "unwind", !.loan = l,
                                                  !.answer = o]]

\* Mutant: a timeout is taken for a rejection.
TimeoutUnwinds(t) ==
    /\ Resumes(t, "disburse")
    /\ StartUnwind(t, task[t].loan)
    /\ UNCHANGED <<vault, loan, book, attested, payout, now>>

\* The timer won the race: the partner may have paid, refused or do either yet.
DisburseTimesOut(t) ==
    /\ Resumes(t, "disburse")
    /\ DisbursementEnds(t, "unknown")

\* The partner's promise rejected: taken as proof that nothing was paid.  A
\* dropped call rejects although the partner did pay.
DisburseRejects(t) ==
    /\ Resumes(t, "disburse")
    /\ \/ payout[task[t].loan] = "refused" /\ "rejects" \in PartnerFailures
       \/ payout[task[t].loan] = "paid" /\ "drops" \in PartnerFailures
    /\ StartUnwind(t, task[t].loan)
    /\ UNCHANGED <<vault, loan, book, attested, payout, now>>

UnwindReturns(t) ==
    /\ Resumes(t, "unwind")
    /\ IF Resolved(t)
       THEN \E o \in Outcomes :
              task' = [task EXCEPT ![t].at = "unwindClose", ![t].answer = o]
       ELSE Ends(t)
    /\ UNCHANGED <<vault, position, loan, book, attested, payout, now>>

UnwindCloseReturns(t) ==
    /\ Resumes(t, "unwindClose")
    /\ LET l == task[t].loan
       IN IF Resolved(t)
          THEN /\ vault' = [vault EXCEPT ![loan[l].guarantor] = Released(@, loan[l].locked)]
               /\ book' = book \ {l}
          ELSE UNCHANGED <<vault, book>>
    /\ Ends(t)
    /\ UNCHANGED <<position, loan, attested, payout, now>>

-----------------------------------------------------------------------------
(* Repayment attestations                                                  *)

\* Mutants: replays are not recognised; the loan's status is not looked at.
AttestableAgain(l, i) == IsOpen(loan[l]) /\ loan[l].item[i] # "absent"

AttestableClosed(l, i) ==
    attested[l][i] = 0 /\ loan[l].item[i] \in {"pending", "overdue"}

\* An installment the loan has, of an open loan, never attested or repaid.
Attestable(l, i) ==
    /\ attested[l][i] = 0
    /\ IsOpen(loan[l])
    /\ loan[l].item[i] \in {"pending", "overdue"}

\* The request's checks, up to the signature's verification.  A replay, a
\* closed loan or wrong figures end it with nothing changed.  The partner
\* attests only to repayments of loans it has paid out (external).
Attest(t, l, i) ==
    /\ Starts(t)
    /\ l \in book
    /\ payout[l] = "paid"
    /\ Attestable(l, i)
    /\ task' = [task EXCEPT ![t] = [Idle EXCEPT !.at = "verify", !.loan = l, !.n = i]]
    /\ UNCHANGED <<vault, position, loan, book, attested, payout, now>>

\* Verified: the attestation and the installment are recorded, and what to
\* release is computed, before the gateway hears of the repayment.
VerifyReturns(t) ==
    /\ Resumes(t, "verify")
    /\ LET l    == task[t].loan
           i    == task[t].n
           ln   == WithItems(loan[l], {i}, "repaid")
           full == AllRepaid(ln)
       IN /\ attested' = [attested EXCEPT ![l][i] = @ + 1]
          /\ loan' = [loan EXCEPT ![l] = ln]
          /\ \E o \in Outcomes :
               task' = [task EXCEPT ![t] = [Idle EXCEPT !.at = "repay", !.answer = o,
                          !.loan = l, !.full = full,
                          !.amount = IF full THEN OutstandingCollateral(ln)
                                             ELSE CollateralRelease(ln)]]
    /\ UNCHANGED <<vault, position, book, payout, now>>

\* Mutant: one payment ends the grace period, whatever else is overdue.
SettledAtOnce(ln, full) ==
    [ln EXCEPT !.status = IF full THEN "repaid" ELSE "active", !.graceEnds = NoDeadline]

\* The loan once an installment is settled: repaid when all of them are, and
\* out of its grace period when none is overdue any more.
Settled(ln, full) ==
    IF full
    THEN [ln EXCEPT !.status = "repaid", !.graceEnds = NoDeadline]
    ELSE IF ln.status = "grace" /\ ItemsIn(ln, "overdue") = {}
    THEN [ln EXCEPT !.status = "active", !.graceEnds = NoDeadline]
    ELSE ln

\* The end of the handler: `ln` is stored, and a repaid loan closed on the gateway.
SettleInstallment(t, ln) ==
    LET l == task[t].loan
    IN /\ loan' = [loan EXCEPT ![l] = Settled(ln, task[t].full)]
       /\ book' = book \cup {l}
       /\ IF task[t].full
          THEN \E o \in Outcomes :
                 task' = [task EXCEPT ![t] = [Idle EXCEPT !.at = "close", !.loan = l,
                                                          !.answer = o]]
          ELSE Ends(t)

RepayReturns(t) ==
    /\ Resumes(t, "repay")
    /\ LET l == task[t].loan
           g == loan[l].guarantor
       IN \/ /\ Threw(t)
             /\ Ends(t)
             /\ UNCHANGED <<position, loan, book>>
          \/ /\ Resolved(t) /\ task[t].amount = 0
             /\ SettleInstallment(t, loan[l])
             /\ UNCHANGED position
          \/ /\ Resolved(t) /\ task[t].amount > 0
             /\ \E o \in Outcomes :
                  /\ position' = IF TookEffect(o)
                                 THEN [position EXCEPT ![g] = GwRelease(@, l, task[t].amount)]
                                 ELSE position
                  /\ task' = [task EXCEPT ![t].at = "release", ![t].answer = o]
             /\ UNCHANGED <<loan, book>>
    /\ UNCHANGED <<vault, attested, payout, now>>

ReleaseReturns(t) ==
    /\ Resumes(t, "release")
    /\ LET l == task[t].loan
       IN IF task[t].answer = "ok"
          THEN /\ vault' = [vault EXCEPT ![loan[l].guarantor] = Released(@, task[t].amount)]
               /\ SettleInstallment(t, [loan[l] EXCEPT !.released = @ + task[t].amount])
          ELSE Ends(t) /\ UNCHANGED <<vault, loan, book>>
    /\ UNCHANGED <<position, attested, payout, now>>

CloseReturns(t) ==
    /\ Resumes(t, "close")
    /\ Ends(t)
    /\ UNCHANGED <<vault, position, loan, book, attested, payout, now>>

-----------------------------------------------------------------------------
(* The lifecycle sweep and liquidation                                     *)

OpenLoans == {l \in book : IsOpen(loan[l])}

\* The job's tick runs in the job's slot, so a tick finding the previous one
\* still running is skipped; an administrator's review runs in any other.
Sweep(t) ==
    /\ Starts(t)
    /\ OpenLoans # {}
    /\ task' = [task EXCEPT ![t] = [Idle EXCEPT !.at = "next", !.todo = OpenLoans,
                                                !.asOf = now]]
    /\ UNCHANGED <<vault, position, loan, book, attested, payout, now>>

\* The sweep goes on to the loans it has left, whatever became of this one.
Proceeds(t, left) ==
    task' = [task EXCEPT ![t] =
               IF left = {} THEN Idle
               ELSE [Idle EXCEPT !.at = "next", !.todo = left, !.asOf = task[t].asOf]]

\* The loan with every installment past due at the sweep's time marked overdue.
Marked(t, l) == WithItems(loan[l], PastDue(loan[l], task[t].asOf), "overdue")

Evaluates(t, l) == Resumes(t, "next") /\ l \in task[t].todo

EvaluateClosed(t, l) ==
    /\ Evaluates(t, l)
    /\ ~IsOpen(loan[l])
    /\ Proceeds(t, task[t].todo \ {l})
    /\ UNCHANGED <<vault, position, loan, book, attested, payout, now>>

\* Mutant: the grace period is given no end.
GraceForever(ln, asOf) == [ln EXCEPT !.status = "grace"]

InGrace(ln, asOf) == [ln EXCEPT !.status = "grace", !.graceEnds = asOf + GracePeriod]

\* The first miss opens the grace period.
EvaluateMissed(t, l) ==
    /\ Evaluates(t, l)
    /\ loan[l].status = "active"
    /\ ItemsIn(Marked(t, l), "overdue") # {}
    /\ loan' = [loan EXCEPT ![l] = InGrace(Marked(t, l), task[t].asOf)]
    /\ book' = book \cup {l}
    /\ Proceeds(t, task[t].todo \ {l})
    /\ UNCHANGED <<vault, position, attested, payout, now>>

\* Mutant: the deadline is not looked at.
GraceBegun(t, l) == loan[l].status = "grace"

GraceExpired(t, l) ==
    /\ loan[l].status = "grace"
    /\ loan[l].graceEnds # NoDeadline
    /\ loan[l].graceEnds <= task[t].asOf

\* Neither a first miss nor an expired grace period: at most newly overdue items.
EvaluateOther(t, l) ==
    /\ Evaluates(t, l)
    /\ IsOpen(loan[l])
    /\ loan[l].status = "active" => ItemsIn(Marked(t, l), "overdue") = {}
    /\ ~GraceExpired(t, l)
    /\ loan' = [loan EXCEPT ![l] = Marked(t, l)]
    /\ book' = IF loan' = loan THEN book ELSE book \cup {l}
    /\ Proceeds(t, task[t].todo \ {l})
    /\ UNCHANGED <<vault, position, attested, payout, now>>

\* The loan after liquidation: unpaid installments missed, collateral split.
Defaulted(ln, forfeited, returned) ==
    [WithItems(ln, ItemsIn(ln, "pending"), "overdue") EXCEPT
       !.status = "defaulted", !.graceEnds = NoDeadline,
       !.forfeited = @ + forfeited, !.released = @ + returned]

\* Mutant: the excess is not returned.
VaultKeepsExcess(v, forfeited, returned) == Forfeited(v, forfeited)

VaultAfterDefault(v, forfeited, returned) == Released(Forfeited(v, forfeited), returned)

\* liquidateLoan past its gateway call: the vault, then the loan, then the
\* gateway's record of the loan closed.
SettleDefault(t, l, ln, forfeited, returned, left) ==
    /\ vault' = [vault EXCEPT ![ln.guarantor] = VaultAfterDefault(@, forfeited, returned)]
    /\ loan' = [loan EXCEPT ![l] = Defaulted(ln, forfeited, returned)]
    /\ book' = book \cup {l}
    /\ \E o \in Outcomes :
         task' = [task EXCEPT ![t] = [Idle EXCEPT !.at = "liquidateClose", !.answer = o,
                                        !.todo = left, !.asOf = task[t].asOf]]

\* Grace expired: the principal owed is forfeited out of the collateral held.
EvaluateExpired(t, l) ==
    /\ Evaluates(t, l)
    /\ GraceExpired(t, l)
    /\ LET ln        == Marked(t, l)
           held      == OutstandingCollateral(ln)
           forfeited == Forfeit(OutstandingPrincipal(ln), held)
           left      == task[t].todo \ {l}
       IN \/ /\ forfeited > 0
             /\ loan' = [loan EXCEPT ![l] = ln]
             /\ \E o \in Outcomes :
                  /\ position' = IF TookEffect(o)
                                 THEN [position EXCEPT ![ln.guarantor] =
                                         GwLiquidate(@, l, forfeited)]
                                 ELSE position
                  /\ task' = [task EXCEPT ![t] = [Idle EXCEPT !.at = "liquidate",
                       !.answer = o, !.loan = l, !.amount = forfeited,
                       !.excess = held - forfeited, !.todo = left,
                       !.asOf = task[t].asOf]]
             /\ UNCHANGED <<vault, book>>
          \/ /\ forfeited = 0
             /\ SettleDefault(t, l, ln, 0, held, left)
             /\ UNCHANGED position
    /\ UNCHANGED <<attested, payout, now>>

LiquidateReturns(t) ==
    /\ Resumes(t, "liquidate")
    /\ LET l == task[t].loan
       IN IF task[t].answer = "ok"
          THEN SettleDefault(t, l, loan[l], task[t].amount, task[t].excess, task[t].todo)
          ELSE Proceeds(t, task[t].todo) /\ UNCHANGED <<vault, loan, book>>
    /\ UNCHANGED <<position, attested, payout, now>>

LiquidateCloseReturns(t) ==
    /\ Resumes(t, "liquidateClose")
    /\ Proceeds(t, task[t].todo)
    /\ UNCHANGED <<vault, position, loan, book, attested, payout, now>>

-----------------------------------------------------------------------------
(* Reconciliation of disbursements by an operator                          *)

UnknownDisbursements == {l \in book : loan[l].disbursement = "unknown"}

\* The loans an operator (external) picks: one who works from the listing, one
\* who besides gets to each before it closes, and one who names any loan.
Reconcilable ==
    CASE Operator = "prompt" -> UnknownDisbursements \cap OpenLoans
      [] Operator = "listed" -> UnknownDisbursements
      [] Operator = "any"    -> book

\* Mutants: everything is unwound; the result's own word is stored.
ResolveAsUnpaid(t, l, paid) == StartUnwind(t, l) /\ UNCHANGED <<loan, book>>

ResolveAsDisbursed(t, l, paid) ==
    /\ loan' = [loan EXCEPT ![l].disbursement = "disbursed"]
    /\ Ends(t)
    /\ UNCHANGED <<position, book>>

\* reconcileDisbursement once the outcome is known.
Resolve(t, l, paid) ==
    IF paid
    THEN /\ loan' = [loan EXCEPT ![l].disbursement = "completed"]
         /\ book' = book \cup {l}
         /\ Ends(t)
         /\ UNCHANGED position
    ELSE StartUnwind(t, l) /\ UNCHANGED <<loan, book>>

\* The operator supplies the outcome, having learnt it from the partner.
Reconcile(t, l) ==
    /\ Starts(t)
    /\ l \in Reconcilable
    /\ payout[l] \in {"paid", "refused"}
    /\ Resolve(t, l, payout[l] = "paid")
    /\ UNCHANGED <<vault, attested, payout, now>>

\* Or has the backend ask the partner, who answers once it has decided (external).
PollStatus(t, l) ==
    /\ Starts(t)
    /\ l \in Reconcilable
    /\ payout[l] \in {"paid", "refused"}
    /\ task' = [task EXCEPT ![t] = [Idle EXCEPT !.at = "status", !.loan = l]]
    /\ UNCHANGED <<vault, position, loan, book, attested, payout, now>>

StatusReturns(t) ==
    /\ Resumes(t, "status")
    /\ Resolve(t, task[t].loan, payout[task[t].loan] = "paid")
    /\ UNCHANGED <<vault, attested, payout, now>>

-----------------------------------------------------------------------------
(* The world outside                                                       *)

\* The off-ramp partner makes up its mind, whether or not anyone still waits.
PartnerDecides(l) ==
    /\ payout[l] = "asked"
    /\ \/ payout' = [payout EXCEPT ![l] = "paid"]
       \/ PartnerFailures # {} /\ payout' = [payout EXCEPT ![l] = "refused"]
    /\ UNCHANGED <<vault, position, loan, book, attested, task, now>>

\* No time to speak of passes while a handler has its turn, and the timer of
\* a disbursement (seconds) fires before a whole day has gone by.  A job that
\* sweeps every hour is not a day late, unless the process was down.
DayPasses ==
    /\ now < MaxTime
    /\ \A t \in Tasks : /\ Parked(t)
                        /\ task[t].at = "disburse" => task[t].asOf = now
    /\ SweepsDaily => \A l \in OpenLoans :
          /\ PastDue(loan[l], now) = {}
          /\ loan[l].status = "grace" => loan[l].graceEnds > now
    /\ now' = now + 1
    /\ UNCHANGED <<vault, position, loan, book, attested, payout, task>>

-----------------------------------------------------------------------------
Request(t) ==
    \/ \E g \in Guarantors, a \in Amounts : Deposit(t, g, a) \/ Withdraw(t, g, a)
    \/ \E g \in Guarantors, b \in Beneficiaries, tm \in Terms : Originate(t, g, b, tm)
    \/ \E l \in LoanIds, i \in Installments : Attest(t, l, i)
    \/ \E l \in LoanIds : Reconcile(t, l) \/ PollStatus(t, l)
    \/ Sweep(t)

Continue(t) ==
    \/ DepositReturns(t) \/ WithdrawReturns(t)
    \/ QuoteReturns(t) \/ LockReturns(t) \/ RecordReturns(t)
    \/ DisburseReturns(t) \/ DisburseTimesOut(t) \/ DisburseRejects(t)
    \/ UnwindReturns(t) \/ UnwindCloseReturns(t)
    \/ VerifyReturns(t) \/ RepayReturns(t) \/ ReleaseReturns(t) \/ CloseReturns(t)
    \/ LiquidateReturns(t) \/ LiquidateCloseReturns(t) \/ StatusReturns(t)
    \/ \E l \in LoanIds : \/ EvaluateClosed(t, l) \/ EvaluateMissed(t, l)
                          \/ EvaluateOther(t, l) \/ EvaluateExpired(t, l)

Next ==
    \/ \E t \in Handlers : Request(t)
    \/ Sweep(Job)
    \/ \E t \in Tasks : Continue(t)
    \/ \E l \in LoanIds : PartnerDecides(l)
    \/ DayPasses

Spec == Init /\ [][Next]_vars
=============================================================================
