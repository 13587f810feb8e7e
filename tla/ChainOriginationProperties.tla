--------------------- MODULE ChainOriginationProperties ---------------------
(***************************************************************************)
(* What must be right about the transactions a guarantor signs: what has   *)
(* landed is neither lost nor acted on twice, the collateral locked is     *)
(* near what was quoted, and no payment is written off that may be made.   *)
(***************************************************************************)
EXTENDS ChainOrigination

Transaction == [kind : {"none", "deposit", "withdraw", "originate"},
                owner : Guarantors \cup {None}, beneficiary : Beneficiaries \cup {None},
                quoted : Nat, until : Nat,
                state : {"unbuilt", "open", "landed", "refused"}, locked : Nat]

\* What is built is somebody's, and a loan is for somebody.
Transactions ==
    {x \in Transaction :
        /\ x.state # "unbuilt" => x.owner \in Guarantors
        /\ x.kind = "originate" => x.beneficiary \in Beneficiaries}

Preparing == {"quote", "required", "publish", "build"}

Submitting == {"send", "readback", "disburse"}

RequestRecord == [at : {"idle"} \cup Preparing \cup Submitting,
                  hash : Hashes \cup {None}, kind : {"none", "deposit", "withdraw", "originate"},
                  owner : Guarantors \cup {None}, beneficiary : Beneficiaries \cup {None}, quoted : Nat]

\* No request resumes without the transaction it is about, or goes on to price
\* a loan without a beneficiary.
Requests ==
    {r \in RequestRecord :
        /\ r.at \in Submitting <=> r.hash # None
        /\ r.at \in Preparing => r.owner \in Guarantors
        /\ r.at \in Preparing /\ r.kind = "originate" => r.beneficiary \in Beneficiaries
        /\ r.at \in Preparing \ {"build"} => r.kind = "originate"}

Outcomes == {"none", "completed", "failed", "unknown"}

Counts == [Hashes -> Nat]

\* Every variable keeps its type, and every request what it needs to resume.
OriginationTypeOK ==
    /\ balance \in [Guarantors -> Int]
    /\ published \in [Beneficiaries -> 0 .. 100]
    /\ tx \in [Hashes -> Transactions]
    /\ pending \in Counts
    /\ history \in [Beneficiaries -> Histories]
    /\ reputation \in [Beneficiaries -> 0 .. 100]
    /\ records \in Counts /\ paid \in Counts /\ logged \in Counts
    /\ payout \in [Hashes -> {"none", "asked", "paid", "refused"}]
    /\ disbursement \in [Hashes -> Outcomes]
    /\ task \in [Handlers -> Requests]
    /\ told \in [Hashes -> {"nothing", "failed", "unconfirmed", "unreadable", "done"}]
    /\ stored \in [records : Counts, disbursement : [Hashes -> Outcomes], logged : Counts]
    /\ now \in Nat /\ moves \in Nat /\ crashes \in Nat

\* However often a transaction is submitted, and across restarts, it is acted on
\* once, and only when it has landed: one record of a loan the ledger has, one
\* payment to the beneficiary, and one open loan for the pair.
ActedOnOnce ==
    /\ \A h \in Hashes :
         /\ records[h] <= 1 /\ paid[h] <= 1 /\ logged[h] <= 1
         /\ records[h] + paid[h] + logged[h] > 0 => h \in Landed
    /\ \A h, k \in Hashes :
         /\ records[h] + paid[h] > 0 /\ records[k] + paid[k] > 0
         /\ tx[h].owner = tx[k].owner /\ tx[h].beneficiary = tx[k].beneficiary
         => h = k

\* While the process lives and the window lasts, a loan that has landed is on
\* record, being recorded, or there for the wallet to submit again; all but one
\* whose guarantor was told that it could not be read back.
LandedIsRecoverable ==
    \A h \in Landed :
        /\ crashes = 0 /\ now < tx[h].until
        /\ tx[h].kind = "originate" /\ records[h] = 0
        => \/ PendingFor(h, tx[h].owner, "originate")
           \/ \E t \in Handlers : task[t].hash = h
           \/ told[h] = "unreadable"

\* The ledger goes by the backend's ratio, but for how that one is rounded.  The
\* backend relies on it and never checks it.
LedgerAgrees == \A score \in 0 .. 100 : LedgerLtv[score] - AdjustedLtv(score) \in -50 .. 50

\* Half a percent of the principal, and what Collateral rounds off.
RoundedOff == Collateral(50) + 1

\* As long as no history has moved, the collateral the ledger locks differs from
\* what the guarantor was quoted by rounding alone, whatever was published before
\* and whoever publishes in between.
QuoteHonoured ==
    moves = 0 =>
        \A h \in Landed :
            tx[h].kind = "originate" =>
                tx[h].locked - Collateral(tx[h].quoted) \in -RoundedOff .. RoundedOff

\* A disbursement on record as failed was not paid and never will be, however late
\* the partner makes up its mind and wherever the process dies; and while it lives,
\* one that was or may yet be paid is being awaited, or on record as made or as
\* unknown.  A partner whose connection drops is taken for one that refused, so none
\* does here.
OutcomeKnown ==
    \A h \in Hashes :
        /\ disbursement[h] = "failed" => paid[h] = 0
        /\ crashes = 0 /\ payout[h] \in {"asked", "paid"} =>
              \/ disbursement[h] \in {"completed", "unknown"}
              \/ \E t \in Handlers : task[t].hash = h /\ At(t, "disburse")
=============================================================================
