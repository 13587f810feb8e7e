------------------------ MODULE ChainLoansProperties ------------------------
(***************************************************************************)
(* What the backend's copy of a loan on chain must get right: it may lag   *)
(* behind the ledger and never run ahead of it, it has the ledger count a  *)
(* payment once, and it ends up where the ledger is.                       *)
(***************************************************************************)
EXTENDS ChainLoans

LedgerLoan == [status : {"active", "grace", "repaid", "defaulted"}, paid : 0 .. Count,
               released : 0 .. Locked, graceEnds : Nat \cup {NoDeadline}]

CopyLoan == [status : {"active", "grace", "repaid", "defaulted"}, released : 0 .. Locked,
             graceEnds : Nat \cup {NoDeadline},
             item : [Installments -> {"pending", "overdue", "repaid"}],
             forfeited : 0 .. Count]

AttestationCount == [LoanIds -> [Installments -> Nat]]

TaskRecord == [at : {"idle"} \cup Reads \cup Transactions,
               reply : {"none", "ok", "failed"}, loan : LoanIds \cup {None},
               n : 0 .. Count, seen : LedgerLoan, forfeit : 0 .. Count,
               todo : SUBSET LoanIds]

\* Every variable keeps its type; what a crash brings back is of it too.
ChainTypeOK ==
    /\ ledger \in [LoanIds -> LedgerLoan]
    /\ copy \in [LoanIds -> CopyLoan]
    /\ attested \in AttestationCount
    /\ task \in [Tasks -> TaskRecord]
    /\ adrift \in [LoanIds -> Nat]
    /\ stored \in [copy : [LoanIds -> CopyLoan], attested : AttestationCount]
    /\ asked \in [LoanIds -> SUBSET Installments]
    /\ now \in Nat /\ crashes \in Nat

-----------------------------------------------------------------------------
(* The copy and the ledger                                                 *)

Behind(cp, ln) ==
    /\ \A i \in Installments : cp.item[i] = "repaid" => i <= ln.paid
    /\ cp.released <= ln.released
    /\ ~IsOpen(cp) => cp.status = ln.status

\* The copy never runs ahead of the ledger: an installment it shows as repaid is
\* paid there, it has released no more, and it closes no loan the ledger has
\* open; however late an answer is, and after a restart too.
CopyNotAhead ==
    \A l \in LoanIds : Behind(copy[l], ledger[l]) /\ Behind(stored.copy[l], ledger[l])

\* An attestation is recorded only for an installment the ledger counts as
\* paid: what the chain refused, or never saw, leaves no record.
RecordedIsCounted ==
    \A l \in LoanIds, i \in Installments : attested[l][i] > 0 => i <= ledger[l].paid

\* The ledger counts no more installments than were paid: an attestation that is
\* retried, after a crash or an answer that never came, is not settled twice.
PaymentsCountOnce ==
    \A l \in LoanIds : ledger[l].paid <= Cardinality(asked[l])

\* However often it is retried, an attestation is recorded once, and none is but
\* of an installment the ledger counts.
RecordedOnce ==
    /\ RecordedIsCounted
    /\ \A l \in LoanIds, i \in Installments : attested[l][i] <= 1

-----------------------------------------------------------------------------
(* Catching up                                                             *)

ReadSucceeds(t) == ReadAnswered(t) /\ task'[t].reply = "ok"

\* The job alone is relied on: its timer keeps firing, it goes on when its calls
\* return, a transaction is answered or given up, and of the loans it reads again
\* and again some read succeeds.  No request need ever be answered.
Fairness ==
    /\ WF_vars(Sweep(Job)) /\ WF_vars(Continue(Job)) /\ WF_vars(TxAnswered(Job))
    /\ SF_vars(ReadSucceeds(Job))

FairSpec == Spec /\ Fairness

\* Once the ledger has closed a loan, by whoever's doing, the copy comes to say
\* so and stays that way, whatever stale answers and restarts come in between.
CopyCatchesUp ==
    \A l \in LoanIds :
        ~IsOpen(ledger[l]) ~> [](LocalView(copy[l]) = ChainView(ledger[l]))
=============================================================================
