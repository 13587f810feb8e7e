# RemitCollateral backend: specifications

TLA+ models of the RemitCollateral backend (`src/`, TypeScript), the TLC runs that check them on small
instances, and proofs, checked by TLAPS, of what holds for every instance.

A guarantor abroad locks collateral in a vault; a beneficiary at home is lent money by an off-ramp partner
against it and repays in installments, which the partner attests; each installment releases a share of the
collateral; a loan nobody repays goes through a grace period and takes what is owed out of the collateral.

## 1. The system

| Component (source) | State it keeps | Operations | Correct when | Status |
|---|---|---|---|---|
| Loan service without contracts (`services/loan.service.ts`, `adapters/with-timeout.ts`, `routes/repayment.routes.ts`, `routes/admin.routes.ts`) | `loans`, `repaymentAttestations` | originate, disburse with a timeout, attest an installment, reconcile an unknown disbursement | collateral backs every open loan, an installment counts once, a disbursement whose outcome is unknown is neither undone nor forgotten | modelled: `LoanBook` |
| Liquidation and lifecycle sweep (`services/liquidation.service.ts`, `jobs/lifecycle.job.ts`) | loan status, `graceExpiresAt` | sweep, evaluate a loan, open grace, default, liquidate | no default before its time, nor for more than is owed; every open loan closes | modelled: `LoanBook` |
| Vault service (`services/vault.service.ts`) | `vaults` (balance, locked) | deposit, withdraw, lock, release, forfeit | locked is the sum over the loans and never more than the balance | modelled: `VaultAccounts`, `LoanBook` |
| Contract gateway (`contracts/mock-gateway.ts`) | a position per vault, an amount locked per loan | the same, seen from the contract | agrees with the vaults | modelled: `GatewayPositions`, `LoanBook` |
| Loan arithmetic (`services/loan.service.ts`) | none | required collateral, schedule, release, forfeit | the buffer stays, rounding does not accumulate | modelled: `Money`, `InstallmentPlan` |
| Durable copy (`persistence/snapshot.ts`) | PostgreSQL tables, `written`, the flush under way | flush, load | what is loaded is the stores of one moment; what changes is written | partly: `DurableCopy`, `DurableBook`, `BackendProcess` |
| Loans on chain (`services/loan-chain.service.ts`, chain mode of the loan and liquidation services, `chain/`) | the ledger's loans; the backend's copy, `repaymentAttestations` | attest on chain, crank the sweep, reconcile, record an origination | the copy never runs ahead of the ledger and catches up with it; a payment is settled and recorded once | partly: `ChainLoans`, `ChainOrigination` |
| Transactions waiting for a signature (`api/pending.ts`, `routes/vault.routes.ts`, `routes/loan.routes.ts`) | `pendingSignatures`, the network's transactions | prepare, publish a score, submit, read back, record, disburse | what landed is acted on once and not lost; the ledger locks what was quoted, but for rounding | modelled: `ChainOrigination` |
| Sessions (`auth/sessions.ts`, `routes/auth.routes.ts`) | `sessions`, `authChallenges` | issue, redeem, resolve, expire | a challenge buys one session, whatever expires or restarts | partly: `BackendProcess` |
| Start-up and shutdown (`index.ts`, `shutdown.ts`, `jobs/lifecycle.job.ts`) | the tick under way, the timers, the phase | load, serve, tick, stop, exit | a complete shutdown leaves nothing unwritten; a process told to stop stops | modelled: `BackendProcess` |
| Reputation (`services/reputation.service.ts`) | `reputationScore` | score and LTV | a better score never asks for more collateral, nor any for much less than the floor | partly: `Reputation` |
| Remittances, registration, audit, notifications, HTTP, configuration | logs and look-ups | | | not modelled: each is one synchronous step that no loan depends on, or formatting |

How they interact: an HTTP handler calls a service; a service reads and changes the stores in place and awaits
the gateway and the partner in between; the lifecycle job calls the liquidation service every hour from a timer;
after each mutating response, each sweep and every five seconds a flush copies the stores to PostgreSQL.
Everything runs on one event loop: a handler is never preempted, but at an await whose promise settles in a later
turn every other handler may run. That is where the hard behaviour is, together with calls that fail half-way
through a handler, timers that race answers, and a process that may die.

## 2. Modules

| Module | What it is |
|---|---|
| `Money` | the loan arithmetic in integer cents: rounding, installments, releases, forfeits |
| `VaultAccounts` | one guarantor's vault as the backend accounts for it |
| `GatewayPositions` | the same vault as the contract gateway accounts for it |
| `LoanBook` | the handlers, the sweep, the partner and the clock, from await to await |
| `LoanBookProperties` | what the loan book must get right; fairness; the refinement mapping |
| `LoanLifecycle` | abstract specification: what a loan promises its guarantor |
| `InstallmentPlan` | every order of paying every small loan, for the arithmetic alone |
| `DurableCopy` | stores, database, `written` and flushes, for any tables and entities |
| `DurableBook` | `LoanBook` and `DurableCopy` composed, with a process that dies and starts again |
| `ChainLoans` | loans on chain: attestation, sweep, reconciliation, crashes, lost and late answers |
| `ChainLoansProperties` | what the copy of the ledger must get right; fairness |
| `Reputation` | the score and the LTV it qualifies for |
| `ChainOrigination` | transactions a wallet signs, from their preparation to the partner's payment |
| `ChainOriginationProperties` | what must be right about them |
| `BackendProcess` | the life of the process around `DurableCopy`: start, sign-in, work, signal, exit |
| `MCLoanBook`, `MCInstallmentPlan`, `MCDurableBook`, `MCChainLoans`, `MCChainOrigination` | values of the constants for the runs |
| `LoanBook_proofs` | what holds of the loan book for any wiring: types, disbursements, deadlines, solvency, attestations |
| `LoanBookShipped_proofs` | what holds where the event loop goes on at the disbursement only: one open loan, closed is closed, schedule and status |
| `LoanBookAccounts_proofs` | that a loan's collateral, its vault and the gateway's position agree |
| `Arithmetic_proofs` | rounding, installments, shares and sums over a set of installments |
| `InstallmentPlan_proofs`, `BackendProcess_proofs`, `ChainLoans_proofs`, `ChainOrigination_proofs` | the theorems of those modules; `BackendProcess_proofs` has those of `DurableCopy` too |

`LoanBookShipped_proofs` extends `LoanBook_proofs`, `LoanBookAccounts_proofs` extends it and `Arithmetic_proofs`, on which
`InstallmentPlan_proofs` rests too.

### How `LoanBook` corresponds to the code

A *task* is one run of an asynchronous handler: a request in one of the `Handlers`' slots, or the lifecycle
job's tick in the slot `Job` (a second tick finds `running` set and returns, so one slot is enough).
`task[t].at` is the call the task is suspended at, and the record carries the local variables that are used after
it: the loan object, the amount to release or forfeit computed before the await, the sweep's list of loans and
its `now`. An action is the code from one await to the next, so that what a handler reads before an await and
uses after it may be stale.

* `YieldsAt` names the awaits at which the event loop goes on to other tasks. With the gateway and the partner
  the repository ships, every method is an `async` function that settles in a microtask, except the partner's
  `disburse`, which is raced against a timer: `YieldsAt = {"disburse"}` (`MockWiring`). With remote implementations
  of the same two interfaces every await yields; `RemoteWiring` is that, less the calls that bring nothing but
  more states. A task that is suspended elsewhere goes on before anybody else gets a turn (`HasTurn`).
* `GatewayFaults` says how a gateway call may fail: `refused` (resolves with `success: false`), `threw` (rejects,
  nothing happened), `lost` (rejects, but it took effect). The shipped gateway does none of these.
* `PartnerFailures`: the partner's failed disbursement may reject, resolve with `success: false`, or be a dropped
  connection after the payment. `payout[l]` is what really became of the money.
* `loan[l]` is the loan *object*, which a handler holds whether or not the `loans` store still does; `book` is the
  set of keys of the store. This is how a handler can go on changing a loan that was deleted under it, or store
  it again.
* `Operator` is which loans an operator reconciles: those listed as unknown before they close (`prompt`), those
  listed (`listed`), or any (`any`: the endpoint checks nothing).
* Days are the clock's unit. `DayPasses` waits for handlers that have their turn, and a disbursement's timer
  (seconds) fires before a whole day has gone by; a request may straddle midnight. With `SweepsDaily` the job,
  which sweeps every hour, is never a day late; without it the process may have been down.

Abstractions: money is an integer number of cents, and ratios are whole percentages, where the code has doubles
it rounds to the cent, so IEEE noise below a cent is left out; local-currency amounts and exchange rates are left
out; the LTV comes with the requested terms instead of from the reputation score; an attestation whose figures do
not match the schedule is an early return and changes nothing, as is a request with a bad body, so neither is an
action; the audit log and the notifications are left out. A quote that fails changes nothing. The partner answers
a status request once it has decided.

### How `DurableCopy` and `DurableBook` correspond to the code

A key is a row of a table, a value an entity's JSON. `flush` is the transaction under way: the rows `flushOnce`
found changed, and the stores as they were when it read them. It reads them in one synchronous go; the database
then takes its time, and the stores may change. `Commit` marks what was sent as written; `CommitFails` is every
failure the process sees, including (`unacknowledged`) the transaction that was committed all the same.
`queued` and `queue` are the promise chain of `enqueue`. `Restart` is the death of the process at any moment and
`loadStores`.

`DurableBook` takes `DurableCopy` by `INSTANCE`, with the tables of vaults, loans and attestations computed from
the variables of `LoanBook` as its memory. A crash forgets all tasks, loads the three tables, and leaves the partner
and the gateway as they are (`GatewayForgets = TRUE` is the shipped gateway, whose positions are in memory only).
A flush begins and ends between turns of the event loop.

### How `ChainLoans` corresponds to the code

With the contracts connected a loan has two sides. `ledger[l]` is the contract's loan (external: what the backend
sees of it through `chain.loan`, and what the calls it makes do there), `copy[l]` the backend's. A task is one run of a
handler, and `task[t].at` the call over the network it awaits: the read before an attestation, the transaction, the
read after it, the read of `reconcileLoan`, and the sweep's reads and cranks. Each call is three steps, between which
everything else may happen: the handler asks, the ledger answers (`ReadAnswered`, `TxAnswered`, `TxUnanswered`), the
handler resumes with `task[t].seen`, which is the ledger as it was then.

* `TxFaults` says how a transaction may fail to be answered: `dropped` never reaches the ledger; `timeout` is given up on and
  is `adrift`: it lands later or its time bounds run out. A crank given up on needs no such account, for
  cranks are permissionless and `OutsideCrank` may turn one at any time.
* `Patient` is whether the partner retries only what is settled: no other attestation of the loan in a handler or adrift.
* Sums are counted in installments and the collateral is one share more than there are of them, for the buffer. What a
  repayment within grace does to the deadline is the contract's business and left open (`cured`). That
  the amount sent brings the loan to the end of the installment (`loan.service.ts:585`) is what counting in
  installments assumes.
* The audit log, notifications and reputation refreshes are left out here, as is a ledger that has no such loan.
* `asked` is a history variable: the installments the partner was paid and has attested.

### How `ChainOrigination` corresponds to the code

`tx[h]` is a transaction by its hash, which does not change with its signature, and what the network made of it: `open`
until it lands or is refused, within its time bounds, whoever sends it. `pending` is `pendingSignatures`, which is in
memory only. A request goes through the awaits of `/loans/prepare` (exchange rate, required LTV, publication, simulation),
`/vaults/*/prepare`, `/loans/submit` (poll, read back, disburse) and `/vaults/*/submit`. `Accepts` and `Lands` are the contracts, as
far as the backend relies on them: one open loan for a pair, collateral that is free, an LTV by the score
*published*. Which LTV that is, the ledger alone decides: the backend reads it (`required_ltv_bps`), so `LedgerLtv` is a
constant, any function of the score. A draft is priced by the history (`computeAdjustedLtv`), the ledger by what was published, and what is published is
the score kept with the beneficiary, which reconciling a loan does not refresh: the model keeps the three apart.
`Reputation` has the arithmetic with its rounding; the remittance score is an input of it. None of the loans
is repaid or liquidated in the minutes this module is about, and amounts are one principal and one stake.

`payout[h]` is what the partner made of the last request to disburse loan `h`, and `paid[h]` how often it paid for it. `PartnerDecides` may come
at any time after `Recorded` has asked, also after the timer has fired or the process has died. `Disbursed` is the end of the
await: `PartnerFailures` says whether a disbursement the partner refuses rejects (`rejects`) or resolves with `success: false` (`resolves`, which the code
records as completed), and whether a connection may drop, which rejects whatever the partner does (`drops`); `"late"` in `CallFaults` is the timer.

### How `BackendProcess` corresponds to the code

It takes `DurableCopy` as it is, by EXTENDS, and puts the process around it. A row is a session, whose value is when it
expires, or a loan, whose value counts its changes. `Load` is `initPersistence`, `listen` and the boot sweep; `Signal` is
`shutdown`, which takes the tick's promise as it is at that moment (`awaited`); `ShutsDown` and
`ShutdownTimesOut` are the two ends of `gracefulShutdown`'s race; `Stopped` and `FlushTimesOut` those of `atMost`. `currentTick` is the variable
of that name: which promise it holds matters, since a skipped tick's settles at once. A flush that is under way when the
process exits may be committed all the same. While the process is down, `memory` is what it held when it
ended, so that `CompleteMeansStored` can compare. A response and the change it reports are one step, because
`server.close` waits for the response.

## 3. The runs

| Run | Asks | Instance |
|---|---|---|
| `LoanBookShipped` | do the two accounts and the loans agree at every quiet moment, is nothing closed early, reopened, paid twice or released twice, and is it the lifecycle `LoanLifecycle` promises, whatever interleaves at the one await that yields | 1 guarantor, 2 beneficiaries, 2 loans, 2 requests at once and the job; three installments a day apart and one installment due at once; collateral for less than two large loans |
| `LoanBookFaults` | does the gateway hold enough for every loan when it may refuse any call, and does a default stay within the debt when the partner's failures come either way | 2 guarantors, 5 cents in two installments with a 90 % buffer, so that one installment releases nothing |
| `LoanBookRemote` | does nothing default early and no possible payment get forgotten when the gateway and the partner answer late or their answers are lost | 2 loans of one guarantor, 1 request and the job, whose sweep goes stale between the two loans |
| `LoanBookProgress` | is every open loan closed in the end | 1 loan of three installments, fair scheduling |
| `InstallmentPlan` | do the releases keep the buffer and not accumulate error, in any order of payment | all principals to 100 cents, 1 to 8 installments where the principal has cents for them (`FewInstallments`), four LTVs |
| `DurableCopy` | is each transaction one moment's stores, is nothing missed, is everything written in the end | 2 ordinary rows and 1 append-only row, 2 values |
| `DurableBook` | do loans and vaults agree after a crash at any point, and does a closed loan stay closed | 1 guarantor, 2 loans, 1 request and the job, 1 crash, transactions that may be rolled back |
| `ChainLoansFaults` | does the copy never show more than the ledger has done, and is each payment settled and recorded once, whatever is lost, late or cut off | 1 loan of 2 installments, 1 request and the job, every fault, 1 crash |
| `ChainLoansProgress` | does the copy of a loan the ledger has closed say so in the end, for good, also after a restart from older stores | the same, 1 crash, under the fairness below; reads fail and transactions are dropped, but none is given up on |
| `ChainOrigination` | is what landed acted on once, recoverable and as quoted but for rounding, and is no payment written off that was or may yet be made | 1 guarantor with collateral for one loan, 2 transactions, 2 requests at once, 2 histories, every fault but a dropped connection to the partner, 1 crash; a ledger that does not round its ratio |
| `BackendProcess` | is everything stored after a complete shutdown, is a challenge good for one session, does the process stop | 2 wallets, 2 challenges, 2 sessions, 1 loan, 2 starts; caps of one challenge and one wallet |
| `ChainLoansRetried` | violated: does the ledger count no more than was paid, if the partner retries while the first attestation is under way | 2 requests, an impatient partner |

*Bounds.* `LoanIds`, `Handlers`, `Amounts`, `MaxBalance`, `MaxTime`, `MaxQueue` and `MaxCrashes` are the bounds.
Two loans are what it takes for one to draw on another's collateral, two requests and the job for an interleaving
of three; a loan is begun only while there is time left to see it end (`Originate`), so that with `MaxTime` between
3 and 7 days every loan that TLC sees goes through its whole life. `LoanBookShipped` has two days of grace and seven in all, so that
while one missed installment runs out its grace another falls due: with one day the deadline kept when the first is made good
(below) is never earlier than the one the second would have set. Balances leave room for one loan more or less
than the collateral covers. Amounts are chosen so that rounding bites: thirds of ten dollars, halves of five
cents. `CHECK_DEADLOCK FALSE` is there because the bounded clock stops the loan book, and a plan ends when it is
paid; `DurableCopy` has no bound of that kind and is checked for deadlock.
Permutations of the loan ids, beneficiaries, handlers and hashes are symmetries: nothing orders them.

In `ChainLoans` one loan and one request are enough beside the theorems, which are for any number: the loans do
not share state, and a second attestation of the same loan is what the impatient partner adds. Two installments are what it
takes for a repayment to count against the wrong one; three days take a loan through grace and default.
`ChainOrigination` has two hashes and two requests, so that one transaction may be submitted twice or two may compete for the
collateral of one; its window is a step of the clock, so that it may run out at any point. The principal is 100 dollars in cents, so that a
basis point of it is a cent and no difference of ratios is rounded away, and the stake covers one loan at any ratio. The ledger's ratio is
that of the repository's own stand-in for it (`chain-mode.test.ts:29`, 150 % less 0.4 % for a point of score, in basis points), which does not round
to whole percent. The two histories score 0, where it and the backend agree, and 92, where they do not: 113.2 % against 113 %. `ChainLoansProgress` leaves out
transactions that time out: with them and a crash it takes longer than five minutes. They are in `ChainLoansFaults`, and after the
crash an attestation that was on its way may still land unawaited. In `BackendProcess` the caps are one, so that each
is met; `MaxStarts` is two, so that a process starts from what another one left. `MaxAdrift`, `MaxMoves` and `MaxChanges` bound what would
otherwise grow.

*Fairness.* `OpenLoansClose` assumes strong fairness of each task's next step (pending calls settle, a disbursement at
the latest by its timer, and the event loop serves callbacks in order, so requests that keep coming do not starve
it), of the job's sweep (an interval timer) and of the clock; with `SweepsDaily`. The gateway does not refuse for
ever in that run: one that did would never let the loan close, and nothing in the code claims it would.
`ChangesAreStored` assumes weak fairness of the five-second timer and of a queued flush's turn, and strong fairness of `Commit`:
neither does the database fail every transaction nor the process die in every one.
`CopyCatchesUp` relies on the job alone: its timer fires, it goes on when its calls return, a transaction is answered or
given up on, and among a loan's reads, which come again with every sweep, some succeeds. It says nothing about requests, which need never be answered.
`ExitsWhenTold` relies on nothing but the two timers that bound the waits, and the exit after the last flush.

### Where the code does not do what it says

`ChainLoansRetried` is a run of its own and a finding of `PROJECT.json`, which quotes the lines it contradicts. The
others are reproduced by changing one constant of a run and checking the property named:

* `AvailableIsWithdrawable` in `LoanBookShipped`: after a default the excess over the debt is released in the vault only; nobody tells the
  gateway, which keeps it locked and refuses to withdraw it or to lock it again (`liquidation.service.ts:302`; its comment at 265 and
  `README.md:440` say that it is unlocked and returned).
* `ForfeitedMeansPaid` in `LoanBookShipped`: a loan whose disbursement is unknown is swept on like any other and forfeits
  collateral for money the partner never paid (`liquidation.service.ts:105`; `loan.service.ts:186` says it is left exactly as it is).
* `LockedIsSum` in `LoanBookShipped` with `Operator = "listed"`: reconciling a flagged loan that has defaulted meanwhile releases all of its
  collateral a second time, out of the guarantor's other loans (`loan.service.ts:797`).
* `DefaultedMeansUnpaid` in `LoanBookShipped` with `GatewayFaults = {"refused"}`: the last installment's attestation is recorded before the gateway
  refuses its release, the retry is answered as a replay, and the fully repaid loan defaults (`loan.service.ts:486`).
* `NothingLeftMeansStored` in `DurableCopy` with `CommitFailures = {"unacknowledged"}`: when the acknowledgement of a COMMIT is lost and a row then goes
  back to what it was, or is deleted, no later flush finds a difference, and the database keeps what was committed
  (`snapshot.ts:216`; line 270 and `README.md:79` say that the next flush retries all of it).
* `CompleteMeansStored` in `BackendProcess` with `Overruns = TRUE`: a tick that is skipped because a sweep still runs replaces `currentTick` with its
  own promise, which is settled, so that a shutdown does not wait for the sweep (`lifecycle.job.ts:65`; line 86 says it resolves once
  any tick in progress finishes). And a last flush that fails is reported as a complete shutdown too: `flushNow` resolves either
  way (`snapshot.ts:285` says "once it is stored"), which is why the property asks for `flushed = "ok"`.
* `ActedOnOnce` in `ChainOrigination` with `Patient = FALSE`: one signed transaction submitted twice at once passes the look-up twice before either
  forgets it, is sent once and confirmed twice; the loan is recorded, and disbursed, twice (`loan.routes.ts:150`).
* `QuoteHonoured` with `RoundedOff == 0`: the backend rounds its ratio to whole percent (`reputation.service.ts:94`) and the ledger need not. Against that
  of the test, a score of 92 is quoted 11300 basis points and locks 11320, published or not, and is published anew with every loan that is
  prepared, because the two never compare equal (`loan.routes.ts:109`). Lines 79-81 say that "the collateral the chain locks is then the
  collateral this backend quoted", and `chain-mode.test.ts:221` that the chain "now sets the same LTV the backend computed", at a
  score where it does. The property allows for half a percent.
* `QuoteHonoured` without its condition on `moves`: the score published is the one kept with the beneficiary, which may be older than the one the draft was
  priced by; published, it does not bring the ledger to the quote (`loan.routes.ts:110`; line 79 again).
* `OutcomeKnown` with `"drops"` in `PartnerFailures`: a connection dropped after the payment, or before it, rejects, and any rejection but the timer's is
  recorded as failed (`loan.service.ts:358`; the comment at 360 calls it a clean rejection). And a disbursement that resolves with `success: false`
  is recorded as completed (342-353: the result is not looked at), so that `OutcomeKnown` says nothing of completed ones.
* `MIN_LTV_RATIO` is not validated (`config/index.ts:72`), and the rounding comes after the floor: at 1.104 a good score asks for 110 %, below a floor
  that "no reputation score goes below" (`README.md:179`). `LtvInBounds` says by how much.
* `LandedIsRecoverable` without its conditions: after a crash, or once the window is over, a loan that has landed is known to nobody but the
  ledger; so is one the guarantor was told could not be read back (`loan.routes.ts:157`: it is forgotten before it is read).
* The copy of a closed loan may be open again for a while, when the answer of an older read is applied after that of a newer one
  (`loan-chain.service.ts:49`); and a loan found defaulted by a read, or whose read after the liquidation failed, keeps
  `collateralForfeitedUsd` at 0 (`liquidation.service.ts:213`). Neither is promised anywhere; the properties claim neither.
* An installment a reconciliation has marked repaid never gets the record of its attestation: the retry is answered as done
  before it is recorded (`loan.service.ts:413`).
* `LoanBookShipped` with the deadline of `DefaultsAfterGrace` asked of every overdue installment: a loan in grace for one missed installment keeps
  its deadline when that one is repaid while another is overdue, and defaults before the other has been missed for a grace period
  (`liquidation.service.ts:105` keeps a deadline it finds, and `loan.service.ts` clears it only once nothing is overdue; `README.md:182` says
  "Days after a missed installment before default"). The property asks it of some installment that was missed.
* `CompletedMeansPaid` with `PartnerFailures = {"resolves"}`: a disbursement that resolves with `success: false` is
  recorded as completed (`loan.service.ts:176`; the result is not looked at).
* `UnwoundMeansUnpaid` with `{"drops"}`: a connection dropped after the payment is taken for a rejection (`:204`).
* `GatewayHoldsEnough` with `GatewayFaults = {"threw"}`: an unwinding whose second gateway call throws leaves the
  gateway without the collateral and the loan in the book (`:210`).
* `ForfeitWithinDebt` with `RemoteWiring`: an installment attested while a liquidation is pending is forfeited as well
  (`liquidation.service.ts:275`).
* `OneOpenLoan` with two handlers and `YieldsAt = {"quote", "disburse"}`: two requests for one beneficiary both pass the check for an
  existing loan before either stores its own (`loan.service.ts:82`).
* `InstallmentsPositive` and `BufferRetained` with `FewInstallments = FALSE`: with more installments than the principal
  has cents to split, rounded installments repay it before the last one (`loan.service.ts:653`; `routes/loan.routes.ts:24` bounds the
  count only from below).
* `DisbursedOrFlagged` in `DurableBook`: after a crash while `disburse` is pending, the stored loan has no outcome, no
  handler, and is not in the operator's listing. `GatewayHoldsEnough` too: what the gateway did after the last flush
  is not known to the process that starts again.

## 4. What is proved

Every theorem is for arbitrary sets of parties, loans, handlers and terms, from the named assumptions on the constants
(`LoanBookAssumption`, `LoanIdsAssumption`: finitely many loans, `SafetyBufferAssumption`, `CopyAssumption`, `ProcessAssumption`,
`ChainAssumption`, `ReputationAssumption`, `OriginationAssumption`, `PlanAssumption`). Some hold under a condition on how the system is wired or
on what fails. It is then the hypothesis of the theorem, and section 3 shows for most of them
what goes wrong without it. In the proof modules each
inductive invariant has one lemma for the initial states and one, or one for each action, for the steps.

### The loan book, however it is wired (`LoanBook_proofs`)

| Theorem | Property | Condition | Inductive invariant, and why it is needed |
|---|---|---|---|
| `TypesKept` | `TypeOK` | none | `TypeInv`: a suspended task that resumes writes to `loan[task[t].loan]`, so its loan must have been begun, with terms and a guarantor |
| `PayoutsNotForgotten` | `PendingIsFlagged` | none | `PayoutInv`: a request owns its loan until it has asked the partner, and a task undoes a loan only when the partner has decided |
| `NoEarlyDefault` | `DefaultsNotEarly` | none | `TimelyInv`: the deadline kept with a loan, and the day a liquidation is under way, are later than a grace period after the first due date; what a sweep took for today is not later than now |
| `UnwoundUnpaid` | `UnwoundMeansUnpaid` | the partner drops no payment | `UnwoundInv`: the partner has refused any loan that is being undone, and will not pay it later |
| `VaultsStaySolvent` | `VaultsSolvent` | `"withdraw"` does not yield | `SolventInv`: what a withdrawal found available is still available when its gateway call returns |
| `NoSecondAttestation` | `AttestedOnce` | `"verify"` does not yield | `AttestInv`: the installment whose signature is being verified can still be attested |

### As the backend is shipped (`LoanBookShipped_proofs`)

The mocks are wired so that only the disbursement takes time. `OneAtATime` says so (`YieldsAt` is at most `{"disburse"}`), and
`TurnInv` is what follows: a turn of the event loop belongs to one task (`BusyOnce`), what it has in hand is as the store
has it (`InHand`), and a task that waits for the partner is alone with its loan (`DisbursedAlone`). `FromTheListing` excludes an operator who
reconciles loans that are not flagged. `AsShipped` is `OneAtATime` with an operator who reconciles before the loan closes, a grace period, and a
partner that drops no payment; `Faultless`, that no gateway call fails. The constants of the run `LoanBookShipped` are both.

| Theorem | Property | Condition | Inductive invariant beside `TurnInv` |
|---|---|---|---|
| `ClosedStaysClosed` | `ClosedIsFinal` | `OneAtATime`, `FromTheListing` | `ShippedInv`: `TurnInv` with `PayoutInv`, `TimelyInv` and `AttestInv` |
| `OneLoanOpen` | `OneOpenLoan` | the same | `OneOpenInv`: the property itself; that the pair in hand has no open loan is in `InHand` |
| `ForfeitsWithinDebt` | `ForfeitWithinDebt` | the same | `DebtInv`: only a defaulted loan has forfeited anything; a loan not begun has released nothing |
| `UnwindingGivesAllBack` | `UnwoundWhole` | `AsShipped` | `PaidInv`: a loan that has released collateral, or has closed without it, was paid or defaulted, and a loan being undone is open |
| `StatusFollowsSchedule` | `StatusMatchesSchedule` | `OneAtATime`, `FromTheListing`, `Faultless` | `ScheduleInv`: a stored loan is on schedule, or has just been repaid and its task is about to settle it |
| `DefaultsOutOfGrace` | `DefaultsAfterGrace` | the same | `MissedInv`: the deadline was set a grace period after some installment fell due that is overdue, or has been repaid since |

### The accounts (`LoanBookAccounts_proofs`)

Three more conditions appear here. `FullyBacked`: the ratio of every loan is at least 100 %. `RoomForCents`: the installments are few enough for the
principal that rounding does not use it up, as in `InstallmentPlan`. `Refusing`: a gateway call that fails has done nothing and says so.
The instances of `LoanBookShipped` and `LoanBookFaults` satisfy the first two.

* `CollateralCovers` (`CollateralCoversDebt`; `OneAtATime`, `FromTheListing`, `RoomForCents`, `FullyBacked`): `AmountsInv` says that what was released and
  forfeited of a loan fits in what it locked (`Split`), and that an open one has released no more than the rounded share of what is repaid.
* `VaultsLockTheirLoans` (`LockedIsSum`; `AsShipped`, `RoomForCents`): `SumInv` says it of every state, what a loan holds being
  all of its collateral until it is stored. A step changes the share of one loan and its vault by as much (`HeldMoves`). The sums are over sets of loans of any size.
* `GatewayHoldsCollateral` (`GatewayHoldsEnough`; `AsShipped`, `RoomForCents`, `Refusing`) and `GatewayTellsTheSame` (`GatewayAgrees`; the same, `Faultless`): `PositionInv` says
  for each loan and vault how far the gateway is from the book while a task is between its call and what it books of it (`Accord`).
* `PromiseIsKept` (`KeepsThePromise`; `AsShipped`, `RoomForCents`, `FullyBacked`, `Faultless`): the book implements `LoanLifecycle`. The initial state maps to the initial
  state; a step changes one loan at most (`OneLoanTouched`), and by the stage that loan was in (`Stage`) it is a step of the lifecycle for it, or
  changes nothing the mapping shows. `LockingInv` adds that nobody has looked at a loan
  before the gateway has locked its collateral. The hardest case is the installment before the last: what it leaves
  locked is more than nothing, because it covers a debt that is more than nothing (`OwesSomething`, `SplitCovers`).

### The arithmetic (`Arithmetic_proofs`, `InstallmentPlan_proofs`)

`Arithmetic_proofs` has what the others cite: rounding half up is within half a cent and monotone; the installments of a principal add up to it; a
share of a sum, and sums over finite sets when an element is added, removed or changed. What the fold of a finite set
computes is proved by a least counterexample (`LeastOf`), since the library's induction takes an operator.

With `FewInstallments`, for every principal, ratio and count, in any order of payment: `PlanTyped` (`PlanTypeOK`), `NoInstallmentIsZero`
(`InstallmentsPositive`), `RoundingDoesNotAccumulate` (`ReleaseTracksRepayment`) and `BufferStaysLocked` (`BufferRetained`). `PlanInv` says that what is
repaid is the sum of what was paid, and what is released the rounded share of it; the rest is that a proper
subset of the installments is worth less than the principal.

### The copy and the process (`BackendProcess_proofs`)

* `CopyTypesKept` (`CopyTypeOK`), of `DurableCopy`, needs no condition. `NothingLeft` (`NothingLeftMeansStored`) and `Snapshots` (`DatabaseIsSnapshot`) ask that no
  acknowledgement is lost: `CopyInv` says that `written` is the database, that append-only rows in flight or written are those in memory,
  and that what the transaction under way does not change is as it was when it began.
* `CompleteIsStored` (`CompleteMeansStored`), of `BackendProcess`, asks that no sweep overruns its interval, too. `StopInv` is `CopyInv` while the
  process is up, together with: the tick a shutdown waits for is the sweep under way (`SweepIsAwaited`), and once
  everything has settled the last flush takes all there is (`LastFlushTakesAll`).
* `ChallengeBuysOne` (`ChallengeUsedOnce`) needs no condition: a challenge that is outstanding is one wallet's and was not redeemed
  (`ChallengesOK`), and there are at most as many sessions as challenges redeemed (`SessionsOK`), through any number of expiries, restarts and sweeps of a
  full table. What `Filter` keeps of a sequence is proved by a least counterexample, as above.

### On chain (`ChainLoans_proofs`, `ChainOrigination_proofs`)

* `ChainTypesKept` (`ChainTypeOK`) and `CopyStaysBehind` (`CopyNotAhead`), for any faults and any partner: the ledger only moves forward (`Follows`), what a task
  has seen is a past of it, and a copy brought into line with a past of the ledger is behind the ledger. `ChainInv` says so of
  every place a past is kept: the tasks, the copies and the stored copies.
* `PaymentsOnce` (`PaymentsCountOnce`) and `AttestationsOnce` (`RecordedOnce`), for a patient partner and any number of loans, handlers, restarts and lost answers.
  `PayInv`: at most one attestation of a loan is under way, in a handler or adrift (`AloneOK`, `AdriftOK`), it is for the installment
  whose turn it is (`TurnsOK`), and the ledger has counted exactly those before it (`CountsOK`).
* `OriginationTypesKept` (`OriginationTypeOK`), `PresentScoreLocks` and `QuotesHonoured` (`QuoteHonoured`). `QuotesOK` says that while no history moves, a request about
  to build its transaction, and a transaction not landed yet, was quoted by the history, and the ledger asks for what was quoted or
  goes by the score of that history (`Settled`): another request may publish for the beneficiary in between, but
  what it publishes is that score. So a loan locks what was quoted or what the ledger asks for the present score, whatever function `LedgerLtv` is (`PresentScoreLocks`).
  `QuotesHonoured` has the hypothesis `LedgerAgrees`: for each score the ledger's ratio is within 50 basis points of the backend's. The
  collateral is then within that share of the principal, and a cent, of the quote (`CollateralNear`).
* `LtvInBounds`, for any weights and any ratios that are not negative (`ReputationAssumption`): a better score never asks for more collateral; the ratio is
  within rounding of the range from the floor to the newcomer's ratio, whichever is larger; and it is not below the floor if that is in whole percent.
* `ActedOnce` (`ActedOnOnce`), `OutcomesKnown` (`OutcomeKnown`; also if the partner's connection does not drop) and `Recoverable` (`LandedIsRecoverable`), for a patient wallet. `SubmissionsOK` is inductive: one submission of a
  transaction is under way at a time (`AloneOK`), a pending transaction has not been acted on (`TransactionSound`), a request that knows
  its transaction landed finds it no longer pending (`RequestSound`), and the contract keeps one loan for a pair (`PairsOK`). The partner is asked once, before which nothing is on record of it
  (`Unasked`), and what is or was stored as failed it has refused (`OutcomeSound`). `AwaitedOK` adds that a disbursement asked for or paid, and not on record as
  made or unknown, is being awaited; `KeptOK`, where a loan that landed and is not recorded can be found.

### Only model-checked

Liveness under fairness, which is out of the prover's reach: `OpenLoansClose`, `ChangesAreStored`, `CopyCatchesUp`, `ExitsWhenTold`. `StoredCloseIsFinal`, and what
the other properties become after a crash: `DurableBook` composes the two specifications, and its run checks `LockedIsSum` across a crash. Every other property of the passing runs is stated by a theorem.

The instance of every passing run but `DurableBook`'s satisfies the hypotheses of the theorems about its properties, so none of them is
vacuous.

## 5. Not modelled, and what is left

* *Remittances, registration, beneficiaries and links*: one synchronous step each on a look-up table. The one hazard met there is
  that a remittance the partner reports twice is logged twice (`routes/remittance.routes.ts:170`), which only moves a score.
* *The off-ramp partner and the contracts*: outside this repository; modelled by what they may answer.
* *Audit log, notifications, metrics, HTTP, validation, rate limits, configuration, OpenAPI*: output and formatting; no handler's next step
  depends on them.
* *The remittance score*: a square root of a variance of intervals, in doubles. *IEEE noise* below a cent.
* `currentVault`, which shows the vault as read from chain and stores nothing.

What is left to prove, in order: `StoredCloseIsFinal`, and with it that a book restored from one moment's stores satisfies the invariants of
section 4 but for what the gateway did since; the theorems of `LoanBookShipped_proofs` and
`LoanBookAccounts_proofs` that hold where more calls than the disbursement yield, as far as TLC finds that they do.

## 6. Running

    tlc -config LoanBookShipped.cfg MCLoanBook.tla
    tlc -config DurableBook.cfg MCDurableBook.tla
    tlc -config ChainLoansFaults.cfg MCChainLoans.tla
    tlc -config BackendProcess.cfg BackendProcess.tla
    tlapm LoanBook_proofs.tla

`PROJECT.json` lists every run with its module, the source lines each definition stands for, a mutation of the code's
behaviour that each property detects, the hazards of the code with the properties aimed at them, and the theorems.
