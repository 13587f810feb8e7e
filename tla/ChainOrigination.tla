-------------------------- MODULE ChainOrigination --------------------------
(***************************************************************************)
(* Transactions a guarantor's wallet signs.  The backend prepares one,     *)
(* remembers it for a few minutes, and takes the signed envelope to the    *)
(* network.  When an origination has landed, the backend reads the loan    *)
(* back, records it and has the partner pay it out: three steps after the  *)
(* money is locked, any of which may fail or never happen, while the       *)
(* wallet sees no answer and submits again.                                *)
(*                                                                         *)
(* A hash names a transaction for good; tx[h] is the transaction and what  *)
(* became of it on the network.  A loan on the ledger goes by the hash     *)
(* that originated it, and none is repaid or liquidated within the minutes *)
(* this is about.  What collateral ratio the ledger asks for a score is    *)
(* its own business: the backend only reads it.                            *)
(***************************************************************************)
EXTENDS Reputation, FiniteSetsExt

CONSTANTS
    Guarantors, Beneficiaries, Hashes, Handlers,
    None,               \* no hash, no guarantor, no beneficiary
    Kinds,              \* the kinds of transaction prepared
    Principal, Stake,   \* a loan's principal, and what a deposit moves
    LedgerLtv,          \* score -> the ratio the ledger asks for it, basis points
    Histories,          \* the records a beneficiary's score is made of
    Window,             \* how long a transaction may be signed and sent
    MaxTime,            \* bound on the clock
    MaxMoves,           \* bound on the changes of a history
    CallFaults,         \* how a call to the chain or the partner may fail
    PartnerFailures,    \* how the partner reports a failed disbursement
    Patient,            \* whether the wallet awaits an answer before it retries
    MaxCrashes          \* bound on restarts

ASSUME OriginationAssumption ==
    /\ Kinds \subseteq {"deposit", "withdraw", "originate"}
    /\ None \notin Guarantors \cup Beneficiaries \cup Hashes
    /\ Principal \in Nat /\ Stake \in Nat
    /\ LedgerLtv \in [0 .. 100 -> Nat]
    /\ Histories # {}
    /\ Histories \subseteq [remittance : 0 .. 100, onTime : Nat, counted : Nat]
    /\ Window \in Nat /\ MaxTime \in Nat /\ MaxMoves \in Nat /\ MaxCrashes \in Nat
    /\ CallFaults \subseteq {"failed", "late"}
    /\ PartnerFailures \subseteq {"rejects", "resolves", "drops"}
    /\ Patient \in BOOLEAN

VARIABLES
    balance,        \* guarantor -> collateral in the vault contract (external)
    published,      \* beneficiary -> the score the ledger goes by (external)
    tx,             \* hash -> the transaction (external but for its quote)
    pending,        \* hash -> until when it waits for its signature, 0: it does not
    history,        \* beneficiary -> its remittances and repayments
    reputation,     \* beneficiary -> reputationScore, as last refreshed
    records,        \* hash -> loans recorded against the loan on the ledger
    disbursement,   \* hash -> disbursementStatus of its record
    payout,         \* hash -> what the partner made of the last request to
                    \* disburse it: none, asked, paid or refused (external)
    paid,           \* hash -> payments the partner made for it (external)
    logged,         \* hash -> audit records of a deposit or withdrawal
    task,           \* handler -> the request it serves and where it is suspended
    told,           \* hash -> the last answer to a submission of it
    stored,         \* what the last flush wrote
    now, moves, crashes

network == <<balance, published, tx, payout, paid>>
book == <<pending, history, reputation, records, disbursement, logged>>
rest == <<now, moves, crashes>>
vars == <<network, book, task, told, stored, rest>>

-----------------------------------------------------------------------------
(* The contracts, as far as the backend relies on them                     *)

Unbuilt == [kind |-> "none", owner |-> None, beneficiary |-> None,
            quoted |-> 0, until |-> 0, state |-> "unbuilt", locked |-> 0]

Landed == {h \in Hashes : tx[h].state = "landed"}

LoansOf(g) == {h \in Landed : tx[h].kind = "originate" /\ tx[h].owner = g}

Free(g) == balance[g] - MapThenSumSet(LAMBDA h : tx[h].locked, LoansOf(g))

\* required_ltv_bps: by the score published, whatever the backend thinks.
RequiredLtv(b) == LedgerLtv[published[b]]

Collateral(ltv) == (Principal * ltv) \div 10000

\* Whether the contracts accept a call now: one open loan for a pair, and
\* collateral that is free.
Accepts(kind, g, b) ==
    CASE kind = "deposit"   -> TRUE
      [] kind = "withdraw"  -> Free(g) >= Stake
      [] kind = "originate" -> /\ \A h \in LoansOf(g) : tx[h].beneficiary # b
                               /\ Free(g) >= Collateral(RequiredLtv(b))

-----------------------------------------------------------------------------
(* Requests                                                                *)

Score(hist) == CompositeScore(hist.remittance, RepaymentScore(hist.onTime, hist.counted))

Idle == [at |-> "idle", hash |-> None, kind |-> "none", owner |-> None,
         beneficiary |-> None, quoted |-> 0]

Init ==
    /\ balance = [g \in Guarantors |-> Stake]
    /\ history \in [Beneficiaries -> Histories]
    /\ reputation = [b \in Beneficiaries |-> Score(history[b])]
    /\ published \in [Beneficiaries -> {0} \cup {Score(hist) : hist \in Histories}]
    /\ tx = [h \in Hashes |-> Unbuilt]
    /\ pending = [h \in Hashes |-> 0]
    /\ records = [h \in Hashes |-> 0]
    /\ disbursement = [h \in Hashes |-> "none"]
    /\ payout = [h \in Hashes |-> "none"]
    /\ paid = [h \in Hashes |-> 0]
    /\ logged = [h \in Hashes |-> 0]
    /\ task = [t \in Handlers |-> Idle]
    /\ told = [h \in Hashes |-> "nothing"]
    /\ stored = [records |-> records, disbursement |-> disbursement, logged |-> logged]
    /\ now = 0 /\ moves = 0 /\ crashes = 0

At(t, call) == task[t].at = call

Awaits(t, call) == task' = [task EXCEPT ![t].at = call]

Finish(t) == task' = [task EXCEPT ![t] = Idle]

Answers(t, answer) ==
    /\ Finish(t)
    /\ told' = [told EXCEPT ![task[t].hash] = answer]

-----------------------------------------------------------------------------
(* Preparing                                                               *)

\* The pair has no loan the backend knows of.
NoLoanKnown(g, b) ==
    \A h \in Hashes : records[h] > 0 => tx[h].owner # g \/ tx[h].beneficiary # b

PrepareLoan(t, g, b) ==
    /\ task[t] = Idle
    /\ "originate" \in Kinds
    /\ NoLoanKnown(g, b)
    /\ task' = [task EXCEPT ![t] = [Idle EXCEPT !.at = "quote", !.kind = "originate",
                                                !.owner = g, !.beneficiary = b]]
    /\ UNCHANGED <<network, book, told, stored, rest>>

PrepareVault(t, g, kind) ==
    /\ task[t] = Idle
    /\ task' = [task EXCEPT ![t] = [Idle EXCEPT !.at = "build", !.kind = kind, !.owner = g]]
    /\ UNCHANGED <<network, book, told, stored, rest>>

\* The exchange rate is known: the draft is priced by the history as it is now.
Quoted(t) ==
    /\ At(t, "quote")
    /\ task' = [task EXCEPT ![t].at = "required",
                            ![t].quoted = AdjustedLtv(Score(history[task[t].beneficiary]))]
    /\ UNCHANGED <<network, book, told, stored, rest>>

\* Mutant: a score is published only when it asks for more collateral.
PublishesToRaise(t) == RequiredLtv(task[t].beneficiary) < task[t].quoted

MustPublish(t) == RequiredLtv(task[t].beneficiary) # task[t].quoted

Required(t) ==
    /\ At(t, "required")
    /\ Awaits(t, IF MustPublish(t) THEN "publish" ELSE "build")
    /\ UNCHANGED <<network, book, told, stored, rest>>

\* What is published is the score kept with the beneficiary.
Published(t) ==
    LET b == task[t].beneficiary IN
    /\ At(t, "publish")
    /\ published' = [published EXCEPT ![b] = reputation[b]]
    /\ Awaits(t, "build")
    /\ UNCHANGED <<balance, tx, payout, paid, book, told, stored, rest>>

\* Entries past their window are swept as the new one is remembered.
Remember(h, until) ==
    pending' = [k \in Hashes |-> IF k = h THEN until
                                 ELSE IF pending[k] <= now THEN 0 ELSE pending[k]]

\* The call is simulated: what the contract would refuse fails here.
Built(t) ==
    LET g == task[t].owner  b == task[t].beneficiary  kind == task[t].kind IN
    /\ At(t, "build")
    /\ Finish(t)
    /\ IF Accepts(kind, g, b)
       THEN \E h \in Hashes :
              /\ tx[h] = Unbuilt
              /\ tx' = [tx EXCEPT ![h] = [Unbuilt EXCEPT !.kind = kind, !.owner = g,
                                            !.beneficiary = b, !.quoted = task[t].quoted,
                                            !.until = now + Window, !.state = "open"]]
              /\ Remember(h, now + Window)
       ELSE UNCHANGED <<tx, pending>>
    /\ UNCHANGED <<balance, published, payout, paid, history, reputation, records,
                   disbursement, logged, told, stored, rest>>

\* A call made while preparing fails: the wallet is told, and nothing is left.
PrepareFails(t) ==
    /\ "failed" \in CallFaults
    /\ task[t].at \in {"quote", "required", "publish", "build"}
    /\ Finish(t)
    /\ UNCHANGED <<network, book, told, stored, rest>>

-----------------------------------------------------------------------------
(* The network                                                             *)

\* A signed transaction lands once, within its time bounds, whoever sent it:
\* the wallet has the envelope and may send it itself.
Lands(h) ==
    LET g == tx[h].owner  b == tx[h].beneficiary  kind == tx[h].kind IN
    /\ tx[h].state = "open" /\ now < tx[h].until
    /\ IF Accepts(kind, g, b)
       THEN /\ tx' = [tx EXCEPT ![h].state = "landed",
                                ![h].locked = IF kind = "originate"
                                              THEN Collateral(RequiredLtv(b)) ELSE 0]
            /\ balance' = [balance EXCEPT ![g] = CASE kind = "deposit"  -> @ + Stake
                                                   [] kind = "withdraw" -> @ - Stake
                                                   [] OTHER             -> @]
       ELSE /\ tx' = [tx EXCEPT ![h].state = "refused"]
            /\ UNCHANGED balance
    /\ UNCHANGED <<published, payout, paid, book, task, told, stored, rest>>

-----------------------------------------------------------------------------
(* Submitting                                                              *)

\* A patient wallet has no other submission of this transaction under way.
MaySubmit(h) == Patient => \A t \in Handlers : task[t].hash # h

\* Anything else is answered as not found.
PendingFor(h, g, kind) ==
    /\ pending[h] > now
    /\ tx[h].owner = g /\ tx[h].kind = kind

Submit(t, h, g, kind) ==
    /\ task[t] = Idle
    /\ MaySubmit(h)
    /\ PendingFor(h, g, kind)
    /\ task' = [task EXCEPT ![t] = [Idle EXCEPT !.at = "send", !.hash = h, !.kind = kind,
                                                !.owner = g]]
    /\ UNCHANGED <<network, book, told, stored, rest>>

Forget(h) == pending' = [pending EXCEPT ![h] = 0]

\* Mutant: the transaction is forgotten before it is known to have landed.
ForgetsAnyway(t) ==
    LET h == task[t].hash IN
    /\ At(t, "send")
    /\ tx[h].state # "landed"
    /\ Forget(h)
    /\ \E answer \in {"failed", "unconfirmed"} :
          (answer = "failed" <=> tx[h].state = "refused") /\ Answers(t, answer)
    /\ UNCHANGED <<network, history, reputation, records, disbursement, logged, stored, rest>>

\* The poll ends without success: the transaction failed, or is not confirmed
\* yet.  It still waits for its signature.
NotConfirmed(t) ==
    LET h == task[t].hash IN
    /\ At(t, "send")
    /\ \/ tx[h].state = "refused" /\ Answers(t, "failed")
       \/ /\ tx[h].state = "open" \/ "late" \in CallFaults
          /\ tx[h].state # "refused"
          /\ Answers(t, "unconfirmed")
    /\ UNCHANGED <<network, book, stored, rest>>

\* Mutant: a confirmed transaction can be submitted again.
ConfirmedAgain(t) ==
    LET h == task[t].hash IN
    /\ At(t, "send")
    /\ tx[h].state = "landed"
    /\ IF task[t].kind = "originate"
       THEN Awaits(t, "readback") /\ UNCHANGED <<logged, told>>
       ELSE /\ logged' = [logged EXCEPT ![h] = @ + 1]
            /\ Answers(t, "done")
    /\ UNCHANGED <<network, pending, history, reputation, records, disbursement, stored, rest>>

\* It landed.  Deposits and withdrawals are logged; a loan is read back.
Confirmed(t) ==
    LET h == task[t].hash IN
    /\ At(t, "send")
    /\ tx[h].state = "landed"
    /\ Forget(h)
    /\ IF task[t].kind = "originate"
       THEN Awaits(t, "readback") /\ UNCHANGED <<logged, told>>
       ELSE /\ logged' = [logged EXCEPT ![h] = @ + 1]
            /\ Answers(t, "done")
    /\ UNCHANGED <<network, history, reputation, records, disbursement, stored, rest>>

\* recordChainLoan, as far as the partner's answer.
Recorded(t) ==
    LET h == task[t].hash IN
    /\ At(t, "readback")
    /\ records' = [records EXCEPT ![h] = @ + 1]
    /\ payout' = [payout EXCEPT ![h] = "asked"]
    /\ Awaits(t, "disburse")
    /\ UNCHANGED <<balance, published, tx, paid, pending, history, reputation, disbursement,
                   logged, told, stored, rest>>

Unreadable(t) ==
    /\ At(t, "readback")
    /\ "failed" \in CallFaults
    /\ Answers(t, "unreadable")
    /\ UNCHANGED <<network, book, stored, rest>>

Outcome(h, outcome) == disbursement' = [disbursement EXCEPT ![h] = outcome]

\* The partner makes up its mind, whether or not anyone still waits.
PartnerDecides(h) ==
    /\ payout[h] = "asked"
    /\ \/ /\ payout' = [payout EXCEPT ![h] = "paid"]
          /\ paid' = [paid EXCEPT ![h] = @ + 1]
       \/ /\ PartnerFailures \ {"drops"} # {}
          /\ payout' = [payout EXCEPT ![h] = "refused"]
          /\ UNCHANGED paid
    /\ UNCHANGED <<balance, published, tx, book, task, told, stored, rest>>

\* Mutant: a partner that does not answer in time is taken to have refused.
TimeoutRefuses(t) ==
    LET h == task[t].hash IN
    /\ At(t, "disburse")
    /\ \/ /\ \/ payout[h] = "paid"
             \/ payout[h] = "refused" /\ "resolves" \in PartnerFailures
          /\ Outcome(h, "completed")
       \/ /\ \/ payout[h] = "refused" /\ "rejects" \in PartnerFailures
             \/ "drops" \in PartnerFailures
             \/ "late" \in CallFaults
          /\ Outcome(h, "failed")
    /\ Answers(t, "done")
    /\ UNCHANGED <<network, pending, history, reputation, records, logged, stored, rest>>

\* The promise resolves, and whether with success is not looked at; or it rejects,
\* as it does when the connection drops, whatever the partner makes of the request;
\* or the timer fires first.
Disbursed(t) ==
    LET h == task[t].hash IN
    /\ At(t, "disburse")
    /\ \/ /\ \/ payout[h] = "paid"
             \/ payout[h] = "refused" /\ "resolves" \in PartnerFailures
          /\ Outcome(h, "completed")
       \/ /\ \/ payout[h] = "refused" /\ "rejects" \in PartnerFailures
             \/ "drops" \in PartnerFailures
          /\ Outcome(h, "failed")
       \/ "late" \in CallFaults /\ Outcome(h, "unknown")
    /\ Answers(t, "done")
    /\ UNCHANGED <<network, pending, history, reputation, records, logged, stored, rest>>

-----------------------------------------------------------------------------
(* The history, the clock, the flush and the process                       *)

\* A beneficiary's history changes; most paths refresh the score, and bringing
\* a loan into line with the ledger does not.
HistoryMoves(b) ==
    /\ moves < MaxMoves
    /\ moves' = moves + 1
    /\ \E s \in Histories \ {history[b]} :
         /\ history' = [history EXCEPT ![b] = s]
         /\ reputation' \in {reputation, [reputation EXCEPT ![b] = Score(s)]}
    /\ UNCHANGED <<network, pending, records, disbursement, logged, task, told, stored, now, crashes>>

TimePasses ==
    /\ now < MaxTime
    /\ now' = now + 1
    /\ UNCHANGED <<network, book, task, told, stored, moves, crashes>>

Durable == [records |-> records, disbursement |-> disbursement, logged |-> logged]

Flush ==
    /\ crashes < MaxCrashes
    /\ stored # Durable
    /\ stored' = Durable
    /\ UNCHANGED <<network, book, task, told, rest>>

\* What waits for a signature is in memory only; the requests that were under way
\* are with the partner all the same.
Crash ==
    /\ crashes < MaxCrashes
    /\ crashes' = crashes + 1
    /\ records' = stored.records
    /\ disbursement' = stored.disbursement
    /\ logged' = stored.logged
    /\ pending' = [h \in Hashes |-> 0]
    /\ task' = [t \in Handlers |-> Idle]
    /\ UNCHANGED <<network, history, reputation, told, stored, now, moves>>

Request(t) ==
    \/ \E g \in Guarantors, b \in Beneficiaries : PrepareLoan(t, g, b)
    \/ \E g \in Guarantors, kind \in Kinds \ {"originate"} : PrepareVault(t, g, kind)
    \/ \E h \in Hashes, g \in Guarantors, kind \in Kinds : Submit(t, h, g, kind)

Continue(t) ==
    \/ Quoted(t) \/ Required(t) \/ Published(t) \/ Built(t) \/ PrepareFails(t)
    \/ NotConfirmed(t) \/ Confirmed(t) \/ Recorded(t) \/ Unreadable(t) \/ Disbursed(t)

Next ==
    \/ \E t \in Handlers : Request(t) \/ Continue(t)
    \/ \E h \in Hashes : Lands(h) \/ PartnerDecides(h)
    \/ \E b \in Beneficiaries : HistoryMoves(b)
    \/ TimePasses \/ Flush \/ Crash

Spec == Init /\ [][Next]_vars
=============================================================================
