----------------------------- MODULE ChainLoans -----------------------------
(***************************************************************************)
(* Loans held with the contracts connected.  The ledger has the loan; the  *)
(* backend keeps a copy that follows it: a repayment attested by the       *)
(* partner is settled on the ledger first and recorded afterwards, the     *)
(* sweep turns the ledger's cranks, and every look at a loan brings the    *)
(* copy into line.  Each of these is several calls over a network, and the *)
(* copy, the ledger and the clock move on between any two of them.         *)
(*                                                                         *)
(* A task is one run of an asynchronous handler; task[t].at is the call it *)
(* is suspended at and task[t].reply what came back of it.  What a read    *)
(* brings back is the ledger as it was when it was asked.  An attestation  *)
(* whose answer nobody waits for any more is adrift: it may land yet.  A   *)
(* crank may be turned by anybody, which is also what becomes of the       *)
(* backend's own cranks when nobody waits for them any more.               *)
(*                                                                         *)
(* Sums are counted in installments: a repayment is one installment, the   *)
(* collateral one more than there are of them, for the buffer.             *)
(***************************************************************************)
EXTENDS Integers, FiniteSets

CONSTANTS
    LoanIds, Count,     \* loans, and the installments of each
    Interval,           \* days between installments
    GracePeriod,        \* the ledger's, in days
    MaxTime,            \* bound on the clock
    Handlers, Job,      \* slots for requests, and the lifecycle job's own
    None,               \* no loan, no answer
    ReadFaults,         \* whether a read may fail
    TxFaults,           \* how the answer to a transaction may fail to come
    MaxAdrift,          \* bound on the attestations of a loan that are adrift
    Patient,            \* whether the partner retries only what is settled
    MaxCrashes          \* bound on restarts

Tasks == Handlers \cup {Job}

Cranks == {"flag", "liquidate"}

\* The awaits on a transaction, named for the call to the contract.
Transactions == {"attest"} \cup Cranks

\* The awaits on chain.loan, named for what the answer is for.
Reads == {"read", "reread", "view", "sweep", "flagged", "liquidated"}

ASSUME ChainAssumption ==
    /\ Count \in Nat \ {0} /\ Interval \in Nat /\ GracePeriod \in Nat
    /\ MaxTime \in Nat /\ MaxAdrift \in Nat /\ MaxCrashes \in Nat
    /\ IsFiniteSet(Handlers) /\ Job \notin Handlers
    /\ None \notin LoanIds
    /\ ReadFaults \subseteq {"failed"}
    /\ TxFaults \subseteq {"dropped", "timeout"}
    /\ Patient \in BOOLEAN

VARIABLES
    ledger,     \* loan -> the contract's loan (external)
    copy,       \* loan -> the backend's loan
    attested,   \* loan -> installment -> attestations recorded for it
    task,       \* task -> the handler it runs and where it is suspended
    adrift,     \* loan -> attestations that may land with nobody waiting
    stored,     \* what the last flush wrote
    asked,      \* loan -> installments the partner was paid and attested
    now, crashes

vars == <<ledger, copy, attested, task, adrift, stored, asked, now, crashes>>

Installments == 1 .. Count

NoDeadline == -1

IsOpen(ln) == ln.status \in {"active", "grace"}

-----------------------------------------------------------------------------
(* The ledger: what the contracts do, as far as the backend relies on it   *)

Locked == Count + 1

NewOnLedger == [status |-> "active", paid |-> 0, released |-> 0, graceEnds |-> NoDeadline]

NextDue(ln) == Interval * (ln.paid + 1)

\* A call the contract refuses fails without effect.
Allowed(kind, ln) ==
    CASE kind = "attest"    -> IsOpen(ln)
      [] kind = "flag"      -> ln.status = "active" /\ now > NextDue(ln)
      [] kind = "liquidate" -> ln.status = "grace" /\ now > ln.graceEnds

\* The loan after one more installment.  Whether a repayment within grace ends
\* the grace period is the contract's business: cured.
Repaid(ln, cured) ==
    LET p == ln.paid + 1 IN
    [ln EXCEPT !.paid = p,
               !.released = IF p = Count THEN Locked ELSE p,
               !.status = IF p = Count THEN "repaid"
                          ELSE IF cured THEN "active" ELSE @,
               !.graceEnds = IF cured THEN NoDeadline ELSE @]

After(kind, ln, cured) ==
    CASE kind = "attest"    -> Repaid(ln, cured)
      [] kind = "flag"      -> [ln EXCEPT !.status = "grace", !.graceEnds = now + GracePeriod]
      [] kind = "liquidate" -> [ln EXCEPT !.status = "defaulted", !.released = Locked]

Lands(kind, l) ==
    IF Allowed(kind, ledger[l])
    THEN \E cured \in BOOLEAN :
            ledger' = [ledger EXCEPT ![l] = After(kind, ledger[l], cured)]
    ELSE UNCHANGED ledger

\* What liquidating takes: the principal still owed.
ForfeitOf(ln) == Count - ln.paid

-----------------------------------------------------------------------------
(* The copy                                                                *)

NewCopy == [status |-> "active", released |-> 0, graceEnds |-> NoDeadline,
            item |-> [i \in Installments |-> "pending"], forfeited |-> 0]

\* The parts of a loan the chain is the authority on, on either side.
ChainView(ln) ==
    [status |-> ln.status, released |-> ln.released,
     graceEnds |-> IF ln.status = "grace" THEN ln.graceEnds ELSE NoDeadline,
     repaid |-> IF ln.status = "repaid" THEN Count ELSE ln.paid]

LocalView(cp) ==
    [status |-> cp.status, released |-> cp.released, graceEnds |-> cp.graceEnds,
     repaid |-> Cardinality({i \in Installments : cp.item[i] = "repaid"})]

\* Mutant: only the installments are brought up to date.
ApplyItems(cp, ln) ==
    [cp EXCEPT !.item = [i \in Installments |->
                           IF i <= ChainView(ln).repaid THEN "repaid" ELSE cp.item[i]]]

\* Mutant: the installment after those paid is taken for repaid too.
ApplyOneMore(cp, ln) ==
    [cp EXCEPT !.status = ln.status, !.released = ln.released,
               !.graceEnds = ChainView(ln).graceEnds,
               !.item = [i \in Installments |->
                           IF i <= ChainView(ln).repaid + 1 THEN "repaid" ELSE cp.item[i]]]

ApplyChainState(cp, ln) ==
    LET view == ChainView(ln) IN
    IF LocalView(cp) = view THEN cp
    ELSE [cp EXCEPT !.status = view.status, !.released = view.released,
                    !.graceEnds = view.graceEnds,
                    !.item = [i \in Installments |->
                                IF i <= view.repaid THEN "repaid" ELSE cp.item[i]]]

\* The given installments become overdue where they were pending.
MarkOverdue(cp, S) ==
    [cp EXCEPT !.item = [i \in Installments |->
                           IF i \in S /\ cp.item[i] = "pending" THEN "overdue" ELSE cp.item[i]]]

DueBefore == {i \in Installments : Interval * i < now}

-----------------------------------------------------------------------------
(* Tasks                                                                   *)

Idle == [at |-> "idle", reply |-> "none", loan |-> None, n |-> 0,
         seen |-> NewOnLedger, forfeit |-> 0, todo |-> {}]

Init ==
    /\ ledger = [l \in LoanIds |-> NewOnLedger]
    /\ copy = [l \in LoanIds |-> NewCopy]
    /\ attested = [l \in LoanIds |-> [i \in Installments |-> 0]]
    /\ task = [t \in Tasks |-> Idle]
    /\ adrift = [l \in LoanIds |-> 0]
    /\ stored = [copy |-> copy, attested |-> attested]
    /\ asked = [l \in LoanIds |-> {}]
    /\ now = 0
    /\ crashes = 0

Becomes(t, new) == task' = [task EXCEPT ![t] = new]

\* The handler goes on to await another call about the same loan.
Awaits(t, call) ==
    Becomes(t, [task[t] EXCEPT !.at = call, !.reply = "none", !.seen = NewOnLedger])

Finish(t) == Becomes(t, Idle)

Pending(t, calls) == task[t].at \in calls /\ task[t].reply = "none"

Resumes(t, call) == task[t].at = call /\ task[t].reply # "none"

Succeeded(t) == task[t].reply = "ok"

Sets(l, cp) == copy' = [copy EXCEPT ![l] = cp]

-----------------------------------------------------------------------------
(* The network                                                             *)

ReadAnswered(t) ==
    /\ Pending(t, Reads)
    /\ \E r \in {"ok"} \cup ReadFaults :
          Becomes(t, [task[t] EXCEPT !.reply = r,
                                     !.seen = IF r = "ok" THEN ledger[task[t].loan] ELSE @])
    /\ UNCHANGED <<ledger, copy, attested, adrift, stored, asked, now, crashes>>

TxAnswered(t) ==
    LET l == task[t].loan  kind == task[t].at  ln == ledger[l] IN
    /\ Pending(t, Transactions)
    /\ Lands(kind, l)
    /\ Becomes(t, [task[t] EXCEPT !.reply = IF Allowed(kind, ln) THEN "ok" ELSE "failed",
                                  !.forfeit = IF kind = "liquidate" THEN ForfeitOf(ln) ELSE @])
    /\ UNCHANGED <<copy, attested, adrift, stored, asked, now, crashes>>

\* The call fails: the transaction is lost, or only its confirmation is late.
TxUnanswered(t) ==
    /\ Pending(t, Transactions)
    /\ Becomes(t, [task[t] EXCEPT !.reply = "failed"])
    /\ \E f \in TxFaults :
         IF f = "timeout" /\ task[t].at = "attest"
         THEN /\ adrift[task[t].loan] < MaxAdrift
              /\ adrift' = [adrift EXCEPT ![task[t].loan] = @ + 1]
         ELSE UNCHANGED adrift
    /\ UNCHANGED <<ledger, copy, attested, stored, asked, now, crashes>>

\* An attestation nobody waits for lands, or its time bounds run out.
AdriftEnds(l) ==
    /\ adrift[l] > 0
    /\ adrift' = [adrift EXCEPT ![l] = @ - 1]
    /\ \/ Lands("attest", l)
       \/ UNCHANGED ledger
    /\ UNCHANGED <<copy, attested, task, stored, asked, now, crashes>>

\* Somebody turns a crank that is due.
OutsideCrank(l) ==
    /\ \E kind \in Cranks : Allowed(kind, ledger[l]) /\ Lands(kind, l)
    /\ UNCHANGED <<copy, attested, task, adrift, stored, asked, now, crashes>>

-----------------------------------------------------------------------------
(* Attesting a repayment                                                   *)

\* A patient partner has no other attestation of this loan under way.
MayAttest(l) ==
    Patient => /\ adrift[l] = 0
               /\ \A t \in Handlers :
                    task[t].loan = l => task[t].at \notin {"read", "attest", "reread"}

\* Mutant: an attestation that was recorded is not recognised.
TakesAgain(l, i) == IsOpen(copy[l]) /\ copy[l].item[i] # "repaid"

\* Anything else is a replay or a refusal, and changes nothing.
Takes(l, i) ==
    /\ attested[l][i] = 0
    /\ IsOpen(copy[l])
    /\ copy[l].item[i] # "repaid"

Attest(t, l, i) ==
    /\ task[t] = Idle
    /\ MayAttest(l)
    /\ asked' = [asked EXCEPT ![l] = @ \cup {i}]
    /\ Takes(l, i)
    /\ Becomes(t, [Idle EXCEPT !.at = "read", !.loan = l, !.n = i])
    /\ UNCHANGED <<ledger, copy, attested, adrift, stored, now, crashes>>

Record(t) ==
    attested' = [attested EXCEPT ![task[t].loan][task[t].n] = @ + 1]

\* The ledger counts this installment as paid.
Counted(t) == task[t].seen.paid >= task[t].n

InTurn(t) == task[t].n = task[t].seen.paid + 1

\* Mutant: the repayment is sent whatever the ledger has applied already.
SendsAtOnce(t) ==
    /\ Resumes(t, "read")
    /\ IF Succeeded(t) /\ IsOpen(task[t].seen) THEN Awaits(t, "attest") ELSE Finish(t)
    /\ UNCHANGED <<ledger, copy, attested, adrift, stored, asked, now, crashes>>

AttestRead(t) ==
    /\ Resumes(t, "read")
    /\ IF ~Succeeded(t) \/ ~IsOpen(task[t].seen) THEN Finish(t) /\ UNCHANGED attested
       ELSE IF Counted(t) THEN Record(t) /\ Awaits(t, "reread")
       ELSE /\ UNCHANGED attested
            /\ IF InTurn(t) THEN Awaits(t, "attest") ELSE Finish(t)
    /\ UNCHANGED <<ledger, copy, adrift, stored, asked, now, crashes>>

AttestSettled(t) ==
    /\ Resumes(t, "attest")
    /\ IF Succeeded(t) THEN Record(t) /\ Awaits(t, "reread")
                       ELSE Finish(t) /\ UNCHANGED attested
    /\ UNCHANGED <<ledger, copy, adrift, stored, asked, now, crashes>>

\* The answer of a read made for its own sake: a reread, or reconcileLoan's.
Adopted(t) ==
    /\ \E call \in {"reread", "view"} : Resumes(t, call)
    /\ IF Succeeded(t)
       THEN Sets(task[t].loan, ApplyChainState(copy[task[t].loan], task[t].seen))
       ELSE UNCHANGED copy
    /\ Finish(t)
    /\ UNCHANGED <<ledger, attested, adrift, stored, asked, now, crashes>>

\* A guarantor looks at a loan, which reconciles it first.
View(t, l) ==
    /\ task[t] = Idle
    /\ Becomes(t, [Idle EXCEPT !.at = "view", !.loan = l])
    /\ UNCHANGED <<ledger, copy, attested, adrift, stored, asked, now, crashes>>

-----------------------------------------------------------------------------
(* The lifecycle sweep                                                     *)

OpenLoans == {l \in LoanIds : IsOpen(copy[l])}

\* The sweep goes on to the next loan of its list that is still open.
NextLoan(t, todo) ==
    LET open == {l \in todo : IsOpen(copy[l])} IN
    IF open = {} THEN Finish(t)
    ELSE \E l \in open :
           Becomes(t, [Idle EXCEPT !.at = "sweep", !.loan = l, !.todo = todo \ {l}])

Continues(t) == NextLoan(t, task[t].todo)

Sweep(t) ==
    /\ task[t] = Idle
    /\ OpenLoans # {}
    /\ NextLoan(t, OpenLoans)
    /\ UNCHANGED <<ledger, copy, attested, adrift, stored, asked, now, crashes>>

\* The loan read: which crank it needs, by the ledger's dates.
Evaluated(t) ==
    LET l == task[t].loan  seen == task[t].seen IN
    /\ Resumes(t, "sweep")
    /\ IF ~Succeeded(t) THEN Continues(t) /\ UNCHANGED copy
       ELSE /\ Sets(l, MarkOverdue(ApplyChainState(copy[l], seen), DueBefore))
            /\ IF seen.status = "active" /\ now > NextDue(seen) THEN Awaits(t, "flag")
               ELSE IF seen.status = "grace" /\ now > seen.graceEnds THEN Awaits(t, "liquidate")
               ELSE Continues(t)
    /\ UNCHANGED <<ledger, attested, adrift, stored, asked, now, crashes>>

\* A crank was turned: the loan is read again.  A liquidation marks what is
\* left unpaid at once.
Cranked(t) ==
    /\ \/ /\ Resumes(t, "flag")
          /\ IF Succeeded(t) THEN Awaits(t, "flagged") ELSE Continues(t)
          /\ UNCHANGED copy
       \/ /\ Resumes(t, "liquidate")
          /\ IF Succeeded(t)
             THEN /\ Sets(task[t].loan, MarkOverdue(copy[task[t].loan], Installments))
                  /\ Awaits(t, "liquidated")
             ELSE Continues(t) /\ UNCHANGED copy
    /\ UNCHANGED <<ledger, attested, adrift, stored, asked, now, crashes>>

GraceRecorded(t) ==
    LET l == task[t].loan  seen == task[t].seen IN
    /\ Resumes(t, "flagged")
    /\ IF Succeeded(t)
       THEN Sets(l, MarkOverdue(ApplyChainState(copy[l], seen), {seen.paid + 1}))
       ELSE UNCHANGED copy
    /\ Continues(t)
    /\ UNCHANGED <<ledger, attested, adrift, stored, asked, now, crashes>>

\* Mutant: all that was locked is taken for forfeited.
ForfeitsLocked(t) ==
    LET l == task[t].loan IN
    /\ Resumes(t, "liquidated")
    /\ IF Succeeded(t)
       THEN Sets(l, [ApplyChainState(copy[l], task[t].seen) EXCEPT
                       !.status = "defaulted", !.forfeited = Locked,
                       !.graceEnds = NoDeadline])
       ELSE UNCHANGED copy
    /\ Continues(t)
    /\ UNCHANGED <<ledger, attested, adrift, stored, asked, now, crashes>>

DefaultRecorded(t) ==
    LET l == task[t].loan IN
    /\ Resumes(t, "liquidated")
    /\ IF Succeeded(t)
       THEN Sets(l, [ApplyChainState(copy[l], task[t].seen) EXCEPT
                       !.status = "defaulted", !.forfeited = task[t].forfeit,
                       !.graceEnds = NoDeadline])
       ELSE UNCHANGED copy
    /\ Continues(t)
    /\ UNCHANGED <<ledger, attested, adrift, stored, asked, now, crashes>>

-----------------------------------------------------------------------------
(* The clock, the flush and the process                                    *)

\* A sweep, which goes by the date it began on, and the time bounds of a
\* transaction are minutes.
DayPasses ==
    /\ now < MaxTime
    /\ task[Job] = Idle
    /\ \A l \in LoanIds : adrift[l] = 0
    /\ now' = now + 1
    /\ UNCHANGED <<ledger, copy, attested, task, adrift, stored, asked, crashes>>

\* What is stored matters while a crash is to come.
Flush ==
    /\ crashes < MaxCrashes
    /\ stored # [copy |-> copy, attested |-> attested]
    /\ stored' = [copy |-> copy, attested |-> attested]
    /\ UNCHANGED <<ledger, copy, attested, task, adrift, asked, now, crashes>>

\* The process dies and starts again from what was stored; the transactions
\* it was waiting for are on their way all the same.
Crash ==
    /\ crashes < MaxCrashes
    /\ crashes' = crashes + 1
    /\ copy' = stored.copy
    /\ attested' = stored.attested
    /\ adrift' = [l \in LoanIds |->
                    adrift[l] + Cardinality({t \in Tasks : Pending(t, {"attest"}) /\ task[t].loan = l})]
    /\ task' = [t \in Tasks |-> Idle]
    /\ UNCHANGED <<ledger, stored, asked, now>>

Request(t) ==
    \E l \in LoanIds : View(t, l) \/ \E i \in Installments : Attest(t, l, i)

Network(t) == ReadAnswered(t) \/ TxAnswered(t) \/ TxUnanswered(t)

Continue(t) ==
    \/ AttestRead(t) \/ AttestSettled(t) \/ Adopted(t)
    \/ Evaluated(t) \/ Cranked(t) \/ GraceRecorded(t) \/ DefaultRecorded(t)

Next ==
    \/ \E t \in Handlers : Request(t)
    \/ Sweep(Job)
    \/ \E t \in Tasks : Network(t) \/ Continue(t)
    \/ \E l \in LoanIds : OutsideCrank(l) \/ AdriftEnds(l)
    \/ DayPasses \/ Flush \/ Crash

Spec == Init /\ [][Next]_vars
=============================================================================
