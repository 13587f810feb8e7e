------------------------- MODULE LoanBookProperties -------------------------
(***************************************************************************)
(* What LoanBook must get right.  Between two requests the two accounts of *)
(* the collateral and the loans they back have to tell the same story;     *)
(* whatever the interleaving, nobody's collateral is taken before its time *)
(* or for a loan that was never paid out.                                  *)
(***************************************************************************)
EXTENDS LoanBook

\* A moment at which no handler is half-way through its changes: every task
\* is idle or waits where the event loop may leave it.
Quiet == \A t \in Tasks : Parked(t)

LoanStatus == {"none", "active", "grace", "repaid", "defaulted"}

LoanRecord ==
    [status : LoanStatus, guarantor : Guarantors \cup {None},
     beneficiary : Beneficiaries \cup {None}, terms : Terms \cup {None},
     born : Nat, locked : Int, released : Int, forfeited : Int,
     item : [Installments -> {"absent", "pending", "overdue", "repaid"}],
     graceEnds : Nat \cup {NoDeadline},
     disbursement : {"none", "completed", "unknown"}]

TaskRecord ==
    [at : Awaits, answer : {"ok", "refused", "threw", "lost"},
     loan : LoanIds \cup {None}, guarantor : Guarantors \cup {None},
     beneficiary : Beneficiaries \cup {None}, terms : Terms \cup {None},
     n : Nat, amount : Int, excess : Int, full : BOOLEAN,
     todo : SUBSET LoanIds, asOf : Nat]

\* Every variable keeps its type: the accounts, the loan objects, the tasks.
TypeOK ==
    /\ vault \in [Guarantors -> VaultAccount]
    /\ position \in [Guarantors -> Position]
    /\ loan \in [LoanIds -> LoanRecord]
    /\ book \in SUBSET LoanIds
    /\ attested \in [LoanIds -> [Installments -> Nat]]
    /\ payout \in [LoanIds -> {"none", "asked", "paid", "refused"}]
    /\ task \in [Tasks -> TaskRecord]
    /\ now \in Nat

-----------------------------------------------------------------------------
(* The two accounts                                                        *)

LoansOf(g) == {l \in book : loan[l].guarantor = g}

\* A vault's locked amount is the sum of what its stored loans still lock: a
\* release, a default or an unwinding takes away exactly its own loan's share
\* (computeCollateralRelease's comment relies on it, and so does the check
\* that a withdrawal leaves every loan covered).
LockedIsSum ==
    Quiet => \A g \in Guarantors :
        vault[g].locked = MapThenSumSet(LAMBDA l : OutstandingCollateral(loan[l]), LoansOf(g))

\* The gateway and the backend agree, vault by vault and loan by loan, on the
\* balance and on the collateral of every loan that has not defaulted, and the
\* gateway holds nothing for a loan that was unwound or never stored.
GatewayAgrees ==
    Quiet => \A g \in Guarantors :
        /\ vault[g].balance = position[g].balance
        /\ \A l \in LoanIds :
             loan[l].guarantor = g /\ loan[l].status # "defaulted" =>
               position[g].perLoan[l] =
                 IF l \in book THEN OutstandingCollateral(loan[l]) ELSE 0

\* No vault owes more than it holds: withdrawals, forfeits and locks never
\* leave the locked amount above the balance, nor either of them below zero.
VaultsSolvent ==
    \A g \in Guarantors : 0 <= vault[g].locked /\ vault[g].locked <= vault[g].balance

\* A default leaves the guarantor able to withdraw what the backend shows as
\* available: liquidateLoan's comment promises the excess back.
AvailableIsWithdrawable ==
    Quiet => \A g \in Guarantors : Available(vault[g]) <= PositionAvailable(position[g])

-----------------------------------------------------------------------------
(* Loans                                                                   *)

\* A guarantor has at most one open loan per beneficiary (originateLoan's
\* check for an existing loan), counted once handlers are between requests.
OneOpenLoan ==
    Quiet => \A l, m \in OpenLoans :
        /\ loan[l].guarantor = loan[m].guarantor
        /\ loan[l].beneficiary = loan[m].beneficiary
        => l = m

\* The collateral still locked for an open loan covers the principal still
\* owed on it, whatever part has been repaid and in whatever order.
CollateralCoversDebt ==
    Quiet => \A l \in OpenLoans :
        OutstandingCollateral(loan[l]) >= OutstandingPrincipal(loan[l])

\* The status follows from the schedule: nothing is overdue on an active loan;
\* something is on a loan in grace, which has a deadline; a repaid loan is
\* repaid in full; a defaulted one has something unpaid.  Neither holds
\* collateral any more.
StatusMatchesSchedule ==
    Quiet => \A l \in book :
        CASE loan[l].status = "active" ->
               /\ ItemsIn(loan[l], "overdue") = {}
               /\ ItemsIn(loan[l], "pending") # {}
               /\ loan[l].graceEnds = NoDeadline
          [] loan[l].status = "grace" ->
               ItemsIn(loan[l], "overdue") # {} /\ loan[l].graceEnds # NoDeadline
          [] loan[l].status = "repaid" ->
               AllRepaid(loan[l]) /\ OutstandingCollateral(loan[l]) = 0
          [] loan[l].status = "defaulted" ->
               ~AllRepaid(loan[l]) /\ OutstandingCollateral(loan[l]) = 0
          [] OTHER -> FALSE

\* A default is recorded only for a loan with something left unpaid.
DefaultedMeansUnpaid ==
    \A l \in LoanIds : loan[l].status = "defaulted" => ~AllRepaid(loan[l])

\* A default costs the guarantor at most what the beneficiary left unpaid:
\* forfeited collateral and repaid installments never exceed the principal.
ForfeitWithinDebt ==
    \A l \in LoanIds : loan[l].forfeited > 0 =>
        loan[l].forfeited + RepaidTotal(loan[l]) <= loan[l].terms.principal

\* An installment is attested at most once, and only an attested installment
\* counts as repaid: a retried or concurrent attestation changes nothing.
AttestedOnce ==
    \A l \in LoanIds, i \in Installments :
        attested[l][i] = IF loan[l].item[i] = "repaid" THEN 1 ELSE 0

-----------------------------------------------------------------------------
(* Disbursement                                                            *)

\* A disbursement is recorded as completed only for a loan the partner paid.
CompletedMeansPaid ==
    \A l \in book : loan[l].disbursement = "completed" => payout[l] = "paid"

\* A loan that was unwound, its collateral given back, was not paid out.
UnwoundMeansUnpaid ==
    \A l \in LoanIds : loan[l].status # "none" /\ l \notin book => payout[l] # "paid"

\* A stored loan is not left behind without an outcome: it is being
\* originated, was disbursed, or is flagged for an operator.
DisbursedOrFlagged ==
    Quiet => \A l \in book :
        \/ loan[l].disbursement # "none"
        \/ \E t \in Tasks : task[t].loan = l

\* Collateral is forfeited only for loans the partner paid out, so a loan left
\* for an operator to resolve is not resolved by its default.
ForfeitedMeansPaid ==
    \A l \in LoanIds : loan[l].forfeited > 0 => payout[l] = "paid"

-----------------------------------------------------------------------------
(* Steps                                                                   *)

\* A closed loan stays as it closed: no later attestation, sweep, disbursement
\* answer or reconciliation reopens it or moves its collateral again.
ClosedIsFinal ==
    [][\A l \in LoanIds : loan[l].status \in {"repaid", "defaulted"} =>
         /\ loan'[l].status = loan[l].status
         /\ loan'[l].released = loan[l].released
         /\ loan'[l].forfeited = loan[l].forfeited]_vars

\* A loan defaults only out of its grace period, with something overdue, and not
\* before the deadline it was given, more than GracePeriod days after the due
\* date of an installment that was missed.  Of that one, not of each: making it
\* good while another is overdue leaves the deadline where it was.
DefaultsAfterGrace ==
    [][\A l \in LoanIds : loan[l].status # "defaulted" /\ loan'[l].status = "defaulted" =>
         /\ loan[l].status = "grace" /\ ItemsIn(loan[l], "overdue") # {}
         /\ loan[l].graceEnds <= now
         /\ \E i \in ItemsIn(loan[l], "overdue") \cup ItemsIn(loan[l], "repaid") :
              DueAt(loan[l], i) + GracePeriod < loan[l].graceEnds]_vars

\* A loan leaves the store only with its collateral untouched: none released
\* to the guarantor and none forfeited, so all of it is what is given back.
UnwoundWhole ==
    [][\A l \in book : l \notin book' =>
         loan[l].released = 0 /\ loan[l].forfeited = 0]_vars

-----------------------------------------------------------------------------
(* What survives remote calls that yield, fail and are lost                *)

\* The gateway is asked first to lock and first to release, so whatever it
\* refuses or throws away it never holds less for a stored loan than the
\* backend counts on, and the two balances never part.
GatewayHoldsEnough ==
    Quiet => \A g \in Guarantors :
        /\ vault[g].balance = position[g].balance
        /\ \A l \in LoansOf(g) : OutstandingCollateral(loan[l]) <= position[g].perLoan[l]

\* While the partner may still pay a loan out, the loan is stored, and either
\* its request still waits for the answer or it is flagged as unknown.
PendingIsFlagged ==
    \A l \in LoanIds : payout[l] = "asked" =>
        /\ l \in book
        /\ \/ loan[l].disbursement = "unknown"
           \/ \E t \in Handlers : task[t].at = "disburse" /\ task[t].loan = l

\* However slowly calls return, no loan defaults before its first installment
\* has been due for a grace period.
DefaultsNotEarly ==
    \A l \in LoanIds : loan[l].status = "defaulted" =>
        now > DueAt(loan[l], 1) + GracePeriod

-----------------------------------------------------------------------------
(* The lifecycle a loan promises, and this book as an implementation of it *)

\* A loan stored and deleted again was unwound; one never stored is no loan.
LifecycleStatus(l) ==
    IF l \in book THEN loan[l].status
    ELSE IF payout[l] = "none" THEN "none" ELSE "unwound"

Promised == INSTANCE LoanLifecycle WITH
    status   <- [l \in LoanIds |-> LifecycleStatus(l)],
    held     <- [l \in LoanIds |-> IF l \in book THEN OutstandingCollateral(loan[l]) ELSE 0],
    returned <- [l \in LoanIds |->
                   CASE LifecycleStatus(l) = "none"    -> 0
                     [] LifecycleStatus(l) = "unwound" -> loan[l].locked
                     [] OTHER                          -> loan[l].released],
    taken    <- [l \in LoanIds |-> IF l \in book THEN loan[l].forfeited ELSE 0]

\* Every step of the book is a step of that lifecycle, or changes nothing in it.
KeepsThePromise == Promised!Spec

-----------------------------------------------------------------------------
(* Progress                                                                *)

\* Every pending call settles (a disbursement at the latest by its timer), the
\* clock moves on, and the event loop gets to the job's interval timer again
\* and again, however many requests come in between.
Fairness ==
    /\ \A t \in Tasks : SF_vars(Continue(t))
    /\ SF_vars(Sweep(Job))
    /\ SF_vars(DayPasses)

FairSpec == Spec /\ Fairness

\* Every open loan is closed in the end: repaid, defaulted or unwound, with its
\* collateral released or forfeited and nothing left locked for it.
OpenLoansClose ==
    \A l \in LoanIds : l \in OpenLoans ~> ~(l \in OpenLoans)

=============================================================================
