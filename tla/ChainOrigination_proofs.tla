----------------------- MODULE ChainOrigination_proofs -----------------------
(***************************************************************************)
(* The types of ChainOrigination, and what a loan is priced by.            *)
(*                                                                         *)
(* The argument for the price: while no history moves, every score kept is *)
(* the history's; a request that may build its transaction was quoted by   *)
(* the history, and the ledger asks for just that, or goes by the score of *)
(* the history itself, because that is all that is ever published          *)
(* (QuotesOK).  The ledger's ratio may be any function of the score.       *)
(***************************************************************************)
EXTENDS ChainOriginationProperties, TLAPS

-----------------------------------------------------------------------------
(* Scores and ratios                                                       *)

\* Rounding to hundredths gives a whole number, and is monotone.
LEMMA HundredthsInt == \A n \in Int : Hundredths(n) \in Int
  BY DEF Hundredths

\* A score is between 0 and 100, whatever the weights.
LEMMA ScoreInRange == \A hist \in Histories : Score(hist) \in 0 .. 100
<1> TAKE hist \in Histories
<1>1. hist.remittance \in Int /\ hist.onTime \in Int /\ hist.counted \in Nat
  BY OriginationAssumption
<1> DEFINE rep == RepaymentScore(hist.onTime, hist.counted)
<1>2. rep \in Int
  <2>1. CASE hist.counted = 0
    BY <2>1 DEF RepaymentScore
  <2>2. CASE hist.counted # 0
    <3>1. 2 * hist.counted \in Nat \ {0} /\ 200 * hist.onTime + hist.counted \in Int
      BY <1>1, <2>2
    <3>2. \A x \in Int, y \in Nat \ {0} : x \div y \in Int
      OBVIOUS
    <3> QED
      BY <2>2, <3>1, <3>2 DEF RepaymentScore
  <2> QED
    BY <2>1, <2>2
<1> DEFINE sum == hist.remittance * RemittanceWeight + rep * RepaymentWeight
<1>3. sum \in Int
  <2>1. \A x, y \in Int : x * y \in Int /\ x + y \in Int
    OBVIOUS
  <2>2. RemittanceWeight \in Int /\ RepaymentWeight \in Int
    BY ReputationAssumption
  <2> HIDE DEF rep
  <2> QED
    BY <1>1, <1>2, <2>1, <2>2
<1>4. Hundredths(sum) \in Int
  BY <1>3, HundredthsInt
<1>5. Score(hist) = Clamped(0, 100, Hundredths(sum))
  BY DEF Score, CompositeScore
<1> QED
  BY <1>4, <1>5 DEF Clamped

\* Whatever the configured ratios, a better score never asks for more collateral;
\* and what any score asks for is within the rounding of the floor and of the larger
\* of the two ratios, the floor itself only being kept when it is in whole percent.
THEOREM LtvInBounds ==
    \A score \in 0 .. 100 :
        /\ AdjustedLtv(score) \in Nat
        /\ MinLtv - 49 <= AdjustedLtv(score)
        /\ MinLtv % 100 = 0 => MinLtv <= AdjustedLtv(score)
        /\ AdjustedLtv(score) <= MinLtv + 50 \/ AdjustedLtv(score) <= DefaultLtv + 50
        /\ \A better \in score .. 100 : AdjustedLtv(better) <= AdjustedLtv(score)
<1> DEFINE ltv(score) == DefaultLtv - LtvReduction * score
           kept(score) == IF ltv(score) < MinLtv THEN MinLtv ELSE ltv(score)
<1> SUFFICES ASSUME NEW score \in 0 .. 100
             PROVE  /\ AdjustedLtv(score) \in Nat
                    /\ MinLtv - 49 <= AdjustedLtv(score)
                    /\ MinLtv % 100 = 0 => MinLtv <= AdjustedLtv(score)
                    /\ AdjustedLtv(score) <= MinLtv + 50 \/ AdjustedLtv(score) <= DefaultLtv + 50
                    /\ \A better \in score .. 100 : AdjustedLtv(better) <= AdjustedLtv(score)
  OBVIOUS
<1>1. \A x \in 0 .. 100 : LtvReduction * x \in Nat
  BY ReputationAssumption
<1>2. \A x \in 0 .. 100 : AdjustedLtv(x) = 100 * Hundredths(kept(x))
  BY DEF AdjustedLtv
<1>3. kept(score) \in Nat /\ MinLtv <= kept(score)
      /\ (kept(score) = MinLtv \/ kept(score) <= DefaultLtv)
  BY <1>1, ReputationAssumption
<1>4. ASSUME NEW better \in score .. 100
      PROVE  kept(better) \in Nat /\ kept(better) <= kept(score)
  <2>1. LtvReduction * better - LtvReduction * score = LtvReduction * (better - score)
    BY ReputationAssumption
  <2>2. better \in 0 .. 100 /\ better - score \in Nat
    OBVIOUS
  <2>3. LtvReduction * (better - score) \in Nat
    BY <2>2, ReputationAssumption
  <2>4. LtvReduction * score <= LtvReduction * better
    BY <1>1, <2>1, <2>2, <2>3
  <2> QED
    BY <1>1, <2>2, <2>4, ReputationAssumption
<1> HIDE DEF kept
<1>5. AdjustedLtv(score) = 100 * Hundredths(kept(score))
  BY <1>2
<1>6. /\ AdjustedLtv(score) \in Nat
      /\ kept(score) - 49 <= AdjustedLtv(score) /\ AdjustedLtv(score) <= kept(score) + 50
  BY <1>3, <1>5 DEF Hundredths
<1>7. MinLtv % 100 = 0 => MinLtv <= AdjustedLtv(score)
  <2>1. MinLtv % 100 = 0 => 100 * (MinLtv \div 100) = MinLtv /\ MinLtv \div 100 \in Int
    BY ReputationAssumption
  <2>2. MinLtv % 100 = 0 => MinLtv \div 100 <= Hundredths(kept(score))
    BY <1>3, <2>1, ReputationAssumption DEF Hundredths
  <2>3. Hundredths(kept(score)) \in Int
    BY <1>3, HundredthsInt
  <2> QED
    BY <1>5, <2>1, <2>2, <2>3, ReputationAssumption
<1>8. ASSUME NEW better \in score .. 100
      PROVE  AdjustedLtv(better) <= AdjustedLtv(score)
  <2>1. Hundredths(kept(better)) <= Hundredths(kept(score))
    BY <1>3, <1>4 DEF Hundredths
  <2>2. Hundredths(kept(better)) \in Int /\ Hundredths(kept(score)) \in Int
    BY <1>3, <1>4, HundredthsInt
  <2>3. AdjustedLtv(better) = 100 * Hundredths(kept(better))
    BY <1>2
  <2> QED
    BY <1>5, <2>1, <2>2, <2>3
<1> QED
  BY <1>3, <1>6, <1>7, <1>8, ReputationAssumption

LEMMA CollateralNat == \A ltv \in Nat : Collateral(ltv) \in Nat
<1>1. \A ltv \in Nat : Principal * ltv \in Nat
  BY OriginationAssumption
<1>2. \A n \in Nat : n \div 10000 \in Nat
  OBVIOUS
<1> QED
  BY <1>1, <1>2 DEF Collateral

-----------------------------------------------------------------------------
(* Types                                                                   *)

\* A score that is published, and the ratio asked for, have their types.
LEMMA RequiredLtvNat ==
    ASSUME published \in [Beneficiaries -> 0 .. 100], NEW b \in Beneficiaries
    PROVE  RequiredLtv(b) \in Nat
  BY OriginationAssumption DEF RequiredLtv

LEMMA IdleIsRequest == Idle \in Requests
  BY OriginationAssumption DEF Idle, Requests, RequestRecord, Preparing, Submitting

\* A request that moves on to another step of the same stage is a request.
LEMMA PreparesNext ==
    ASSUME NEW r \in Requests, r.at \in Preparing, NEW call \in Preparing,
           call = "build" \/ r.kind = "originate"
    PROVE  [r EXCEPT !.at = call] \in Requests
<1> DEFINE n == [r EXCEPT !.at = call]
<1>1. r \in RequestRecord
  BY DEF Requests
<1>2. /\ n \in RequestRecord
      /\ n.at = call /\ n.hash = r.hash /\ n.kind = r.kind
      /\ n.owner = r.owner /\ n.beneficiary = r.beneficiary
  BY <1>1 DEF RequestRecord
<1>3. call \notin Submitting /\ r.at \notin Submitting
  BY DEF Preparing, Submitting
<1>4. n \in Requests
  <2> HIDE DEF n
  <2> QED
    BY <1>2, <1>3 DEF Requests
<1> QED
  BY <1>4

LEMMA SubmitsNext ==
    ASSUME NEW r \in Requests, r.at \in Submitting, NEW call \in Submitting
    PROVE  [r EXCEPT !.at = call] \in Requests
<1> DEFINE n == [r EXCEPT !.at = call]
<1>1. r \in RequestRecord
  BY DEF Requests
<1>2. /\ n \in RequestRecord
      /\ n.at = call /\ n.hash = r.hash /\ n.kind = r.kind
      /\ n.owner = r.owner /\ n.beneficiary = r.beneficiary
  BY <1>1 DEF RequestRecord
<1>3. call \notin Preparing /\ r.at \notin Preparing
  BY DEF Preparing, Submitting
<1>4. n \in Requests
  <2> HIDE DEF n
  <2> QED
    BY <1>2, <1>3 DEF Requests
<1> QED
  BY <1>4

LEMMA TaskTyped ==
    ASSUME task \in [Handlers -> Requests], NEW t \in Handlers, NEW r \in Requests,
           task' = [task EXCEPT ![t] = r]
    PROVE  task' \in [Handlers -> Requests] /\ task'[t] = r
  OBVIOUS

\* The steps that prepare a transaction change only the request, and its score.
LEMMA PreparesTyped ==
    ASSUME OriginationTypeOK, NEW t \in Handlers,
           \/ \E g \in Guarantors, b \in Beneficiaries : PrepareLoan(t, g, b)
           \/ \E g \in Guarantors, kind \in Kinds \ {"originate"} : PrepareVault(t, g, kind)
           \/ Quoted(t) \/ Required(t) \/ Published(t) \/ PrepareFails(t)
    PROVE  OriginationTypeOK'
<1>1. task \in [Handlers -> Requests] /\ task[t] \in Requests /\ task[t] \in RequestRecord
  BY DEF OriginationTypeOK, Requests
<1>2. CASE \E g \in Guarantors, b \in Beneficiaries : PrepareLoan(t, g, b)
  <2>1. PICK g \in Guarantors, b \in Beneficiaries : PrepareLoan(t, g, b)
    BY <1>2
  <2> DEFINE r == [Idle EXCEPT !.at = "quote", !.kind = "originate",
                               !.owner = g, !.beneficiary = b]
  <2>2. r \in Requests
    BY OriginationAssumption DEF Idle, Requests, RequestRecord, Preparing, Submitting
  <2>3. task' \in [Handlers -> Requests]
    BY <1>1, <2>1, <2>2 DEF PrepareLoan
  <2> QED
    BY <2>1, <2>3 DEF OriginationTypeOK, PrepareLoan, network, book, rest
<1>3. CASE \E g \in Guarantors, kind \in Kinds \ {"originate"} : PrepareVault(t, g, kind)
  <2>1. PICK g \in Guarantors, kind \in Kinds \ {"originate"} : PrepareVault(t, g, kind)
    BY <1>3
  <2> DEFINE r == [Idle EXCEPT !.at = "build", !.kind = kind, !.owner = g]
  <2>2. r \in Requests
    BY OriginationAssumption DEF Idle, Requests, RequestRecord, Preparing, Submitting
  <2>3. task' \in [Handlers -> Requests]
    BY <1>1, <2>1, <2>2 DEF PrepareVault
  <2> QED
    BY <2>1, <2>3 DEF OriginationTypeOK, PrepareVault, network, book, rest
<1>4. CASE Quoted(t)
  <2> DEFINE b == task[t].beneficiary
             ltv == AdjustedLtv(Score(history[b]))
             r == [task[t] EXCEPT !.at = "required"]
             n == [r EXCEPT !.quoted = ltv]
  <2>1. task[t].at = "quote" /\ task[t].kind = "originate" /\ b \in Beneficiaries
    BY <1>1, <1>4 DEF Quoted, At, Requests, Preparing
  <2>2. ltv \in Nat
    BY <2>1, ScoreInRange, LtvInBounds DEF OriginationTypeOK
  <2>3. r \in Requests
    <3>1. "required" \in Preparing /\ task[t].at \in Preparing
      BY <2>1 DEF Preparing
    <3> QED
      BY <1>1, <2>1, <3>1, PreparesNext
  <2>4. n \in Requests
    <3> HIDE DEF r
    <3>0. r \in RequestRecord
      BY <2>3 DEF Requests
    <3>1. n \in RequestRecord
      BY <3>0, <2>2 DEF RequestRecord
    <3>2. /\ n.at = r.at /\ n.hash = r.hash /\ n.kind = r.kind
          /\ n.owner = r.owner /\ n.beneficiary = r.beneficiary
      BY <3>0 DEF RequestRecord
    <3> HIDE DEF n
    <3> QED
      BY <2>3, <3>1, <3>2 DEF Requests
  <2>5. task' = [task EXCEPT ![t] = n]
    BY <1>1, <1>4 DEF Quoted
  <2> HIDE DEF n
  <2>6. task' \in [Handlers -> Requests]
    BY <1>1, <2>4, <2>5
  <2> QED
    BY <1>4, <2>6 DEF OriginationTypeOK, Quoted, network, book, rest
<1>5. CASE Required(t)
  <2>1. task[t].at = "required" /\ task[t].kind = "originate"
    BY <1>1, <1>5 DEF Required, At, Requests, Preparing
  <2>2. PICK call \in {"publish", "build"} : task' = [task EXCEPT ![t].at = call]
    BY <1>5 DEF Required, Awaits
  <2>3. [task[t] EXCEPT !.at = call] \in Requests
    BY <1>1, <2>1, PreparesNext DEF Preparing
  <2>4. task' \in [Handlers -> Requests]
    BY <1>1, <2>2, <2>3
  <2> QED
    BY <1>5, <2>4 DEF OriginationTypeOK, Required, network, book, rest
<1>6. CASE Published(t)
  <2>1. /\ task[t].at = "publish" /\ task[t].kind = "originate"
        /\ task[t].beneficiary \in Beneficiaries
    BY <1>1, <1>6 DEF Published, At, Requests, Preparing
  <2>2. [task[t] EXCEPT !.at = "build"] \in Requests
    BY <1>1, <2>1, PreparesNext DEF Preparing
  <2>3. task' \in [Handlers -> Requests]
    BY <1>1, <1>6, <2>2 DEF Published, Awaits
  <2>4. published' \in [Beneficiaries -> 0 .. 100]
    BY <1>6, <2>1 DEF Published, OriginationTypeOK
  <2> QED
    BY <1>6, <2>3, <2>4 DEF OriginationTypeOK, Published, book, rest
<1>7. CASE PrepareFails(t)
  <2>1. task' \in [Handlers -> Requests]
    BY <1>1, <1>7, IdleIsRequest DEF PrepareFails, Finish
  <2> QED
    BY <1>7, <2>1 DEF OriginationTypeOK, PrepareFails, network, book, rest
<1> QED
  BY <1>2, <1>3, <1>4, <1>5, <1>6, <1>7

\* A transaction is built open, and the request that had it built is over.
LEMMA BuiltTyped ==
    ASSUME OriginationTypeOK, NEW t \in Handlers, Built(t)
    PROVE  OriginationTypeOK'
<1> DEFINE g == task[t].owner
           b == task[t].beneficiary
           kind == task[t].kind
           q == task[t].quoted
<1>1. task \in [Handlers -> Requests] /\ task[t] \in Requests /\ task[t] \in RequestRecord
  BY DEF OriginationTypeOK, Requests
<1>2. task' \in [Handlers -> Requests]
  BY <1>1, IdleIsRequest DEF Built, Finish
<1>3. now + Window \in Nat
  BY OriginationAssumption DEF OriginationTypeOK
<1>4. tx' \in [Hashes -> Transactions] /\ pending' \in Counts
  <2>1. CASE UNCHANGED <<tx, pending>>
    BY <2>1 DEF OriginationTypeOK
  <2>2. CASE \E h \in Hashes :
               /\ tx' = [tx EXCEPT ![h] = [Unbuilt EXCEPT !.kind = kind, !.owner = g,
                                             !.beneficiary = b, !.quoted = q,
                                             !.until = now + Window, !.state = "open"]]
               /\ Remember(h, now + Window)
    <3>1. PICK h \in Hashes :
             /\ tx' = [tx EXCEPT ![h] = [Unbuilt EXCEPT !.kind = kind, !.owner = g,
                                           !.beneficiary = b, !.quoted = q,
                                           !.until = now + Window, !.state = "open"]]
             /\ Remember(h, now + Window)
      BY <2>2
    <3> DEFINE n == [Unbuilt EXCEPT !.kind = kind, !.owner = g, !.beneficiary = b,
                                    !.quoted = q, !.until = now + Window, !.state = "open"]
    <3>2. n \in Transactions
      <4>1. /\ n \in Transaction /\ n.owner = g
            /\ n.beneficiary = b /\ n.kind = kind
        BY <1>1, <1>3 DEF Unbuilt, Transaction, RequestRecord
      <4>2. g \in Guarantors /\ (kind = "originate" => b \in Beneficiaries)
        BY <1>1 DEF Built, At, Requests, Preparing
      <4> HIDE DEF n
      <4> QED
        BY <4>1, <4>2 DEF Transactions
    <3>3. tx' = [tx EXCEPT ![h] = n]
      BY <3>1
    <3> HIDE DEF n
    <3>4. tx' \in [Hashes -> Transactions]
      BY <3>2, <3>3 DEF OriginationTypeOK
    <3>5. pending' \in Counts
      BY <1>3, <3>1 DEF Remember, OriginationTypeOK, Counts
    <3> QED
      BY <3>4, <3>5
  <2> QED
    BY <2>1, <2>2 DEF Built
<1> QED
  BY <1>2, <1>4 DEF OriginationTypeOK, Built, rest

LEMMA LandsTyped ==
    ASSUME OriginationTypeOK, NEW h \in Hashes, Lands(h)
    PROVE  OriginationTypeOK'
<1> DEFINE g == tx[h].owner
           b == tx[h].beneficiary
           locks == IF tx[h].kind = "originate" THEN Collateral(RequiredLtv(b)) ELSE 0
<1>1. tx[h] \in Transactions /\ tx[h] \in Transaction
  BY DEF OriginationTypeOK, Transactions
<1>2. balance' \in [Guarantors -> Int]
  <2>1. balance \in [Guarantors -> Int] /\ Stake \in Int
    BY OriginationAssumption DEF OriginationTypeOK
  <2>2. PICK x : \/ UNCHANGED balance
                 \/ /\ balance' = [balance EXCEPT ![g] = x]
                    /\ x \in {balance[g] + Stake, balance[g] - Stake, balance[g]}
    BY DEF Lands
  <2>3. g \in Guarantors => x \in Int \/ UNCHANGED balance
    BY <2>1, <2>2
  <2> QED
    BY <2>1, <2>2, <2>3
<1>3. tx' \in [Hashes -> Transactions]
  <2>1. CASE tx' = [tx EXCEPT ![h].state = "refused"]
    <3> DEFINE n == [tx[h] EXCEPT !.state = "refused"]
    <3>1. n \in Transactions
      <4>1. /\ n \in Transaction /\ n.owner = g
            /\ n.beneficiary = b /\ n.kind = tx[h].kind
        BY <1>1 DEF Transaction
      <4>2. g \in Guarantors
        BY <1>1 DEF Lands, Transactions
      <4> HIDE DEF n
      <4> QED
        BY <1>1, <4>1, <4>2 DEF Transactions
    <3> QED
      BY <2>1, <3>1 DEF OriginationTypeOK
  <2>2. CASE tx' = [tx EXCEPT ![h].state = "landed", ![h].locked = locks] /\ Accepts(tx[h].kind, g, b)
    <3>1. locks \in Nat
      <4>1. published \in [Beneficiaries -> 0 .. 100]
        BY DEF OriginationTypeOK
      <4>2. tx[h].kind = "originate" => b \in Beneficiaries
        BY <1>1 DEF Transactions
      <4>3. tx[h].kind = "originate" => RequiredLtv(b) \in Nat
        BY <4>1, <4>2, RequiredLtvNat
      <4>4. tx[h].kind = "originate" => Collateral(RequiredLtv(b)) \in Nat
        BY <4>3, CollateralNat
      <4> QED
        BY <4>4
    <3> DEFINE n == [[tx[h] EXCEPT !.state = "landed"] EXCEPT !.locked = locks]
    <3> HIDE DEF locks
    <3>2. n \in Transactions
      <4>1. /\ n \in Transaction /\ n.owner = g
            /\ n.beneficiary = b /\ n.kind = tx[h].kind
        BY <1>1, <3>1 DEF Transaction
      <4>2. g \in Guarantors
        BY <1>1 DEF Lands, Transactions
      <4> HIDE DEF n
      <4> QED
        BY <1>1, <4>1, <4>2 DEF Transactions
    <3>3. tx' = [tx EXCEPT ![h] = n]
      BY <2>2 DEF OriginationTypeOK
    <3> HIDE DEF n
    <3> QED
      BY <3>2, <3>3 DEF OriginationTypeOK
  <2> QED
    BY <2>1, <2>2 DEF Lands
<1> QED
  BY <1>2, <1>3 DEF OriginationTypeOK, Lands, book, rest

\* A request that submits, from the lookup to the partner's answer.
LEMMA SubmitsTyped ==
    ASSUME OriginationTypeOK, NEW t \in Handlers,
           \/ \E h \in Hashes, g \in Guarantors, kind \in Kinds : Submit(t, h, g, kind)
           \/ NotConfirmed(t) \/ Confirmed(t) \/ Recorded(t) \/ Unreadable(t) \/ Disbursed(t)
    PROVE  OriginationTypeOK'
<1> DEFINE h == task[t].hash
<1>1. task \in [Handlers -> Requests] /\ task[t] \in Requests /\ task[t] \in RequestRecord
  BY DEF OriginationTypeOK, Requests
<1>2. task[t].at \in Submitting => h \in Hashes
  BY <1>1 DEF Requests, RequestRecord
<1>3. ASSUME NEW answer \in {"failed", "unconfirmed", "unreadable", "done"}, Answers(t, answer)
      PROVE  task' \in [Handlers -> Requests]
             /\ told' \in [Hashes -> {"nothing", "failed", "unconfirmed", "unreadable", "done"}]
  <2>1. task' \in [Handlers -> Requests]
    BY <1>1, <1>3, IdleIsRequest DEF Answers, Finish
  <2>2. told' \in [Hashes -> {"nothing", "failed", "unconfirmed", "unreadable", "done"}]
    BY <1>3 DEF Answers, OriginationTypeOK
  <2> QED
    BY <2>1, <2>2
<1>4. ASSUME NEW call \in Submitting, Awaits(t, call), task[t].at \in Submitting
      PROVE  task' \in [Handlers -> Requests]
  <2>1. [task[t] EXCEPT !.at = call] \in Requests
    BY <1>1, <1>4, SubmitsNext
  <2> QED
    BY <1>1, <1>4, <2>1 DEF Awaits
<1>5. CASE \E x \in Hashes, g \in Guarantors, kind \in Kinds : Submit(t, x, g, kind)
  <2>1. PICK x \in Hashes, g \in Guarantors, kind \in Kinds : Submit(t, x, g, kind)
    BY <1>5
  <2> DEFINE r == [Idle EXCEPT !.at = "send", !.hash = x, !.kind = kind, !.owner = g]
  <2>2. r \in Requests
    BY OriginationAssumption DEF Idle, Requests, RequestRecord, Preparing, Submitting
  <2>3. task' \in [Handlers -> Requests]
    BY <1>1, <2>1, <2>2 DEF Submit
  <2> QED
    BY <2>1, <2>3 DEF OriginationTypeOK, Submit, network, book, rest
<1>6. CASE NotConfirmed(t)
  <2>1. PICK answer \in {"failed", "unconfirmed"} : Answers(t, answer)
    BY <1>6 DEF NotConfirmed
  <2> QED
    BY <1>3, <1>6, <2>1 DEF OriginationTypeOK, NotConfirmed, network, book, rest
<1>7. CASE Confirmed(t)
  <2>1. task[t].at \in Submitting /\ h \in Hashes
    BY <1>2, <1>7 DEF Confirmed, At, Submitting
  <2>2. pending' \in Counts
    BY <1>7 DEF Confirmed, Forget, OriginationTypeOK, Counts
  <2>3. CASE Awaits(t, "readback") /\ UNCHANGED <<logged, told>>
    <3>1. "readback" \in Submitting
      BY DEF Submitting
    <3> QED
      BY <1>4, <1>7, <2>1, <2>2, <2>3, <3>1 DEF OriginationTypeOK, Confirmed, network, rest
  <2>4. CASE logged' = [logged EXCEPT ![h] = @ + 1] /\ Answers(t, "done")
    <3>1. logged' \in Counts
      BY <2>1, <2>4 DEF OriginationTypeOK, Counts
    <3> QED
      BY <1>3, <1>7, <2>2, <2>4, <3>1 DEF OriginationTypeOK, Confirmed, network, rest
  <2> QED
    BY <1>7, <2>3, <2>4 DEF Confirmed
<1>8. CASE Recorded(t)
  <2>1. task[t].at \in Submitting /\ h \in Hashes /\ "disburse" \in Submitting
    BY <1>2, <1>8 DEF Recorded, At, Submitting
  <2>2. records' \in Counts
    BY <1>8, <2>1 DEF Recorded, OriginationTypeOK, Counts
  <2>3. payout' \in [Hashes -> {"none", "asked", "paid", "refused"}]
    BY <1>8 DEF Recorded, OriginationTypeOK
  <2> QED
    BY <1>4, <1>8, <2>1, <2>2, <2>3 DEF OriginationTypeOK, Recorded, rest
<1>9. CASE Unreadable(t)
  BY <1>3, <1>9 DEF OriginationTypeOK, Unreadable, network, book, rest
<1>10. CASE Disbursed(t)
  <2>1. task[t].at \in Submitting /\ h \in Hashes
    BY <1>2, <1>10 DEF Disbursed, At, Submitting
  <2>2. disbursement' \in [Hashes -> Outcomes]
    <3>1. PICK o \in Outcomes : Outcome(h, o)
      BY <1>10 DEF Disbursed, Outcomes
    <3> QED
      BY <3>1 DEF Outcome, OriginationTypeOK
  <2> QED
    BY <1>3, <1>10, <2>2 DEF OriginationTypeOK, Disbursed, network, rest
<1> QED
  BY <1>5, <1>6, <1>7, <1>8, <1>9, <1>10

\* What is left: the partner, the history, the clock, the flush and a restart.
LEMMA RestTyped ==
    ASSUME OriginationTypeOK,
           \/ \E h \in Hashes : PartnerDecides(h)
           \/ (\E b \in Beneficiaries : HistoryMoves(b)) \/ TimePasses \/ Flush \/ Crash
    PROVE  OriginationTypeOK'
<1>1. CASE \E b \in Beneficiaries : HistoryMoves(b)
  <2>1. PICK b \in Beneficiaries : HistoryMoves(b)
    BY <1>1
  <2>2. PICK s \in Histories :
           /\ history' = [history EXCEPT ![b] = s]
           /\ reputation' \in {reputation, [reputation EXCEPT ![b] = Score(s)]}
    BY <2>1 DEF HistoryMoves
  <2>3. history' \in [Beneficiaries -> Histories]
    BY <2>2 DEF OriginationTypeOK
  <2>4. reputation' \in [Beneficiaries -> 0 .. 100]
    <3>1. Score(s) \in 0 .. 100
      BY ScoreInRange
    <3> QED
      BY <2>2, <3>1 DEF OriginationTypeOK
  <2>5. moves' \in Nat
    BY <2>1 DEF HistoryMoves, OriginationTypeOK
  <2> QED
    BY <2>1, <2>3, <2>4, <2>5 DEF OriginationTypeOK, HistoryMoves, network
<1>2. CASE TimePasses
  BY <1>2 DEF OriginationTypeOK, TimePasses, network, book
<1>3. CASE Flush
  BY <1>3 DEF OriginationTypeOK, Flush, Durable, network, book, rest
<1>4. CASE Crash
  <2>1. task' \in [Handlers -> Requests]
    BY <1>4, IdleIsRequest DEF Crash
  <2>2. pending' \in Counts /\ crashes' \in Nat
    BY <1>4 DEF Crash, OriginationTypeOK, Counts
  <2>3. records' \in Counts /\ disbursement' \in [Hashes -> Outcomes] /\ logged' \in Counts
    BY <1>4 DEF Crash, OriginationTypeOK
  <2> QED
    BY <1>4, <2>1, <2>2, <2>3 DEF OriginationTypeOK, Crash, network
<1>5. CASE \E h \in Hashes : PartnerDecides(h)
  <2>1. PICK h \in Hashes : PartnerDecides(h)
    BY <1>5
  <2>2. paid' \in Counts /\ payout' \in [Hashes -> {"none", "asked", "paid", "refused"}]
    BY <2>1 DEF PartnerDecides, OriginationTypeOK, Counts
  <2> QED
    BY <2>1, <2>2 DEF OriginationTypeOK, PartnerDecides, book, rest
<1> QED
  BY <1>1, <1>2, <1>3, <1>4, <1>5

LEMMA OriginationTypesStart == Init => OriginationTypeOK
<1> SUFFICES ASSUME Init PROVE OriginationTypeOK
  OBVIOUS
<1>1. balance \in [Guarantors -> Int]
  BY OriginationAssumption DEF Init
<1>2. published \in [Beneficiaries -> 0 .. 100]
  <2>1. {0} \cup {Score(hist) : hist \in Histories} \subseteq 0 .. 100
    BY ScoreInRange
  <2> QED
    BY <2>1 DEF Init
<1>3. tx \in [Hashes -> Transactions]
  <2>1. Unbuilt \in Transactions
    BY DEF Unbuilt, Transactions, Transaction
  <2> QED
    BY <2>1 DEF Init
<1>4. history \in [Beneficiaries -> Histories] /\ reputation \in [Beneficiaries -> 0 .. 100]
  BY ScoreInRange DEF Init
<1>5. /\ pending \in Counts /\ records \in Counts /\ paid \in Counts /\ logged \in Counts
      /\ disbursement \in [Hashes -> Outcomes]
      /\ payout \in [Hashes -> {"none", "asked", "paid", "refused"}]
  BY DEF Init, Counts, Outcomes
<1>6. task \in [Handlers -> Requests]
  BY IdleIsRequest DEF Init
<1>7. stored \in [records : Counts, disbursement : [Hashes -> Outcomes], logged : Counts]
  BY <1>5 DEF Init
<1>8. /\ told \in [Hashes -> {"nothing", "failed", "unconfirmed", "unreadable", "done"}]
      /\ now \in Nat /\ moves \in Nat /\ crashes \in Nat
  BY DEF Init
<1> QED
  BY <1>1, <1>2, <1>3, <1>4, <1>5, <1>6, <1>7, <1>8 DEF OriginationTypeOK

LEMMA OriginationTypesStep == OriginationTypeOK /\ [Next]_vars => OriginationTypeOK'
<1> SUFFICES ASSUME OriginationTypeOK, [Next]_vars
             PROVE  OriginationTypeOK'
  OBVIOUS
<1>1. CASE \E t \in Handlers : Request(t) \/ Continue(t)
  BY <1>1, PreparesTyped, BuiltTyped, SubmitsTyped DEF Request, Continue
<1>2. CASE \E h \in Hashes : Lands(h)
  BY <1>2, LandsTyped
<1>3. CASE \/ \E h \in Hashes : PartnerDecides(h)
           \/ (\E b \in Beneficiaries : HistoryMoves(b)) \/ TimePasses \/ Flush \/ Crash
  BY <1>3, RestTyped
<1>4. CASE UNCHANGED vars
  BY <1>4 DEF OriginationTypeOK, vars, network, book, rest
<1> QED
  BY <1>1, <1>2, <1>3, <1>4 DEF Next

\* Every variable keeps its type, whatever fails, restarts or is submitted when.
THEOREM OriginationTypesKept == Spec => []OriginationTypeOK
  BY OriginationTypesStart, OriginationTypesStep, PTL DEF Spec

-----------------------------------------------------------------------------
(* Quotes                                                                  *)

\* What the backend quotes, and what the ledger asks, by the history as it is.
FairLtv(b) == AdjustedLtv(Score(history[b]))

ScoredLtv(b) == LedgerLtv[Score(history[b])]

Settled(b) == RequiredLtv(b) = FairLtv(b) \/ published[b] = Score(history[b])

\* A request is quoted by the history; once it may build its transaction, the
\* ledger asks for the same, or goes by the history too.
PricedRequest(r) ==
    /\ r.at \in {"required", "publish"} => r.quoted = FairLtv(r.beneficiary)
    /\ r.at = "build" /\ r.kind = "originate" =>
         /\ r.quoted = FairLtv(r.beneficiary)
         /\ Settled(r.beneficiary)

\* So does the transaction it builds, until it lands.
PricedTransaction(x) ==
    x.state # "unbuilt" /\ x.kind = "originate" =>
        /\ x.quoted = FairLtv(x.beneficiary)
        /\ Settled(x.beneficiary)
        /\ x.state = "landed" =>
             x.locked \in {Collateral(x.quoted), Collateral(ScoredLtv(x.beneficiary))}

QuotesOK ==
    moves = 0 =>
        /\ \A b \in Beneficiaries : reputation[b] = Score(history[b])
        /\ \A t \in Handlers : PricedRequest(task[t])
        /\ \A h \in Hashes : PricedTransaction(tx[h])

\* Where no history moves, nothing that was priced fairly stops being so.
LEMMA PricesHold ==
    ASSUME OriginationTypeOK, UNCHANGED history,
           \/ UNCHANGED published
           \/ \E b \in Beneficiaries : /\ published' = [published EXCEPT ![b] = reputation[b]]
                                       /\ reputation[b] = Score(history[b])
    PROVE  /\ \A b : FairLtv(b)' = FairLtv(b) /\ ScoredLtv(b)' = ScoredLtv(b)
           /\ \A b \in Beneficiaries : Settled(b) => Settled(b)'
<1>1. \A b : FairLtv(b)' = FairLtv(b) /\ ScoredLtv(b)' = ScoredLtv(b)
  BY DEF FairLtv, ScoredLtv
<1>2. \A b \in Beneficiaries : Settled(b) => Settled(b)'
  <2> TAKE b \in Beneficiaries
  <2> HAVE Settled(b)
  <2>1. published'[b] = published[b] \/ published'[b] = Score(history[b])
    BY DEF OriginationTypeOK
  <2> QED
    BY <2>1 DEF Settled, RequiredLtv, FairLtv
<1> QED
  BY <1>1, <1>2

LEMMA RequestStaysPriced ==
    ASSUME OriginationTypeOK, NEW r \in Requests, PricedRequest(r),
           \A b : FairLtv(b)' = FairLtv(b) /\ ScoredLtv(b)' = ScoredLtv(b),
           \A b \in Beneficiaries : Settled(b) => Settled(b)'
    PROVE  PricedRequest(r)'
<1>1. r.at = "build" /\ r.kind = "originate" => r.beneficiary \in Beneficiaries
  BY DEF Requests, Preparing
<1> QED
  BY <1>1 DEF PricedRequest

LEMMA TransactionStaysPriced ==
    ASSUME OriginationTypeOK, NEW x \in Transactions, PricedTransaction(x),
           \A b : FairLtv(b)' = FairLtv(b) /\ ScoredLtv(b)' = ScoredLtv(b),
           \A b \in Beneficiaries : Settled(b) => Settled(b)'
    PROVE  PricedTransaction(x)'
<1>1. x.kind = "originate" => x.beneficiary \in Beneficiaries
  BY DEF Transactions
<1> QED
  BY <1>1 DEF PricedTransaction

\* A step keeps the quotes when what it prices, it prices by the new state.
LEMMA QuotesCarry ==
    ASSUME OriginationTypeOK, OriginationTypeOK', QuotesOK,
           moves' = moves, UNCHANGED <<history, reputation>>,
           \/ UNCHANGED published
           \/ \E b \in Beneficiaries : published' = [published EXCEPT ![b] = reputation[b]],
           \A t \in Handlers : task'[t] = task[t] \/ (moves = 0 => PricedRequest(task[t])'),
           \A h \in Hashes : tx'[h] = tx[h] \/ (moves = 0 => PricedTransaction(tx[h])')
    PROVE  QuotesOK'
<1> SUFFICES ASSUME moves = 0
             PROVE  /\ \A b \in Beneficiaries : reputation'[b] = Score(history'[b])
                    /\ \A t \in Handlers : PricedRequest(task[t])'
                    /\ \A h \in Hashes : PricedTransaction(tx[h])'
  BY DEF QuotesOK
<1>1. \A b \in Beneficiaries : reputation'[b] = Score(history'[b])
  BY DEF QuotesOK
<1>2. /\ \A b : FairLtv(b)' = FairLtv(b) /\ ScoredLtv(b)' = ScoredLtv(b)
      /\ \A b \in Beneficiaries : Settled(b) => Settled(b)'
  BY PricesHold DEF QuotesOK
<1>3. ASSUME NEW t \in Handlers PROVE PricedRequest(task[t])'
  <2>1. CASE task'[t] = task[t]
    <3>1. PICK r \in Requests : r = task[t] /\ r = task'[t] /\ PricedRequest(r)
      BY <2>1 DEF OriginationTypeOK, QuotesOK
    <3>2. PricedRequest(r)'
      BY <1>2, <3>1, RequestStaysPriced
    <3> QED
      BY <3>1, <3>2
  <2> QED
    BY <2>1
<1>4. ASSUME NEW h \in Hashes PROVE PricedTransaction(tx[h])'
  <2>1. CASE tx'[h] = tx[h]
    <3>1. PICK x \in Transactions : x = tx[h] /\ x = tx'[h] /\ PricedTransaction(x)
      BY <2>1 DEF OriginationTypeOK, QuotesOK
    <3>2. PricedTransaction(x)'
      BY <1>2, <3>1, TransactionStaysPriced
    <3> QED
      BY <3>1, <3>2
  <2> QED
    BY <2>1
<1> QED
  BY <1>1, <1>3, <1>4

\* A step that leaves the network alone and its request not about to build.
LEMMA QuotesCarryRequest ==
    ASSUME OriginationTypeOK, OriginationTypeOK', QuotesOK,
           UNCHANGED <<moves, history, reputation, published, tx>>,
           NEW t \in Handlers,
           \A u \in Handlers : u # t => task'[u] = task[u],
           moves = 0 => PricedRequest(task[t])'
    PROVE  QuotesOK'
  BY QuotesCarry

LEMMA QuotesPreparing ==
    ASSUME OriginationTypeOK, OriginationTypeOK', QuotesOK, NEW t \in Handlers,
           \/ \E g \in Guarantors, b \in Beneficiaries : PrepareLoan(t, g, b)
           \/ \E g \in Guarantors, kind \in Kinds \ {"originate"} : PrepareVault(t, g, kind)
           \/ Quoted(t) \/ Required(t) \/ Published(t) \/ PrepareFails(t)
    PROVE  QuotesOK'
<1>1. task[t] \in Requests /\ task[t] \in RequestRecord
  BY DEF OriginationTypeOK, Requests
<1>2. CASE \E g \in Guarantors, b \in Beneficiaries : PrepareLoan(t, g, b)
  <2>1. PICK g \in Guarantors, b \in Beneficiaries : PrepareLoan(t, g, b)
    BY <1>2
  <2>2. task'[t].at = "quote"
    BY <2>1 DEF PrepareLoan, OriginationTypeOK, Idle
  <2>3. PricedRequest(task[t])'
    BY <2>2 DEF PricedRequest
  <2> QED
    BY <2>1, <2>3, QuotesCarryRequest DEF PrepareLoan, OriginationTypeOK, network, book, rest
<1>3. CASE \E g \in Guarantors, kind \in Kinds \ {"originate"} : PrepareVault(t, g, kind)
  <2>1. PICK g \in Guarantors, kind \in Kinds \ {"originate"} : PrepareVault(t, g, kind)
    BY <1>3
  <2>2. task'[t].at = "build" /\ task'[t].kind # "originate"
    BY <2>1 DEF PrepareVault, OriginationTypeOK, Idle
  <2>3. PricedRequest(task[t])'
    BY <2>2 DEF PricedRequest
  <2> QED
    BY <2>1, <2>3, QuotesCarryRequest DEF PrepareVault, OriginationTypeOK, network, book, rest
<1>4. CASE Quoted(t)
  <2>1. PICK b : b = task[t].beneficiary
    OBVIOUS
  <2>2. /\ task'[t].at = "required" /\ task'[t].beneficiary = b
        /\ task'[t].quoted = FairLtv(b)
    BY <1>1, <1>4, <2>1 DEF Quoted, OriginationTypeOK, RequestRecord, FairLtv
  <2>3. FairLtv(b)' = FairLtv(b)
    BY <1>4 DEF FairLtv, Quoted, book
  <2>4. PricedRequest(task[t])'
    BY <2>2, <2>3 DEF PricedRequest, FairLtv
  <2> QED
    BY <1>4, <2>4, QuotesCarryRequest DEF Quoted, OriginationTypeOK, network, book, rest
<1>5. CASE Required(t)
  <2>1. PICK b : b = task[t].beneficiary
    OBVIOUS
  <2>2. /\ task'[t].at = IF RequiredLtv(b) # task[t].quoted THEN "publish" ELSE "build"
        /\ task'[t].beneficiary = b /\ task'[t].quoted = task[t].quoted
        /\ task[t].at = "required"
    BY <1>1, <1>5, <2>1 DEF Required, Awaits, At, MustPublish, OriginationTypeOK, RequestRecord
  <2>3. FairLtv(b)' = FairLtv(b) /\ (Settled(b) => Settled(b)')
    BY <1>5 DEF FairLtv, Settled, RequiredLtv, Required, book, network
  <2>4. moves = 0 => PricedRequest(task[t])'
    <3>1. moves = 0 => task[t].quoted = FairLtv(b)
      BY <2>1, <2>2 DEF QuotesOK, PricedRequest
    <3>2. moves = 0 /\ task'[t].at = "build" => Settled(b)
      BY <2>2, <3>1 DEF Settled
    <3> QED
      BY <2>2, <2>3, <3>1, <3>2 DEF PricedRequest
  <2> QED
    BY <1>5, <2>4, QuotesCarryRequest DEF Required, Awaits, OriginationTypeOK, network, book, rest
<1>6. CASE Published(t)
  <2>1. PICK b : b = task[t].beneficiary
    OBVIOUS
  <2>2. /\ task'[t].at = "build" /\ task[t].at = "publish"
        /\ task'[t].beneficiary = b /\ task'[t].quoted = task[t].quoted
    BY <1>1, <1>6, <2>1 DEF Published, Awaits, At, OriginationTypeOK, RequestRecord
  <2>3. b \in Beneficiaries
    BY <1>1, <2>1, <2>2 DEF Requests, Preparing
  <2>4. FairLtv(b)' = FairLtv(b)
    BY <1>6 DEF FairLtv, Published, book
  <2>5. moves = 0 => Settled(b)'
    BY <1>6, <2>1, <2>3 DEF Settled, Published, book, OriginationTypeOK, QuotesOK
  <2>6. moves = 0 => PricedRequest(task[t])'
    <3>1. moves = 0 => task[t].quoted = FairLtv(b)
      BY <2>1, <2>2 DEF QuotesOK, PricedRequest
    <3> QED
      BY <2>2, <2>4, <2>5, <3>1 DEF PricedRequest
  <2> QED
    BY <1>6, <2>1, <2>3, <2>6, QuotesCarry DEF Published, Awaits, OriginationTypeOK, book, rest
<1>7. CASE PrepareFails(t)
  <2>1. task'[t].at = "idle"
    BY <1>7 DEF PrepareFails, Finish, OriginationTypeOK, Idle
  <2>2. PricedRequest(task[t])'
    BY <2>1 DEF PricedRequest
  <2> QED
    BY <1>7, <2>2, QuotesCarryRequest DEF PrepareFails, Finish, OriginationTypeOK, network, book, rest
<1> QED
  BY <1>2, <1>3, <1>4, <1>5, <1>6, <1>7

LEMMA QuotesBuilt ==
    ASSUME OriginationTypeOK, OriginationTypeOK', QuotesOK, NEW t \in Handlers, Built(t)
    PROVE  QuotesOK'
<1> DEFINE kind == task[t].kind
           q == task[t].quoted
<1>1. PICK b : b = task[t].beneficiary
  OBVIOUS
<1>2. /\ FairLtv(b)' = FairLtv(b) /\ (Settled(b) => Settled(b)')
      /\ UNCHANGED <<moves, history, reputation, published>>
  BY DEF Built, FairLtv, Settled, RequiredLtv, rest
<1>3. moves = 0 /\ kind = "originate" => q = FairLtv(b) /\ Settled(b)
  BY <1>1 DEF Built, At, QuotesOK, PricedRequest
<1>4. \A u \in Handlers : task'[u] = task[u] \/ (moves = 0 => PricedRequest(task[u])')
  <2>1. \A u \in Handlers : u # t => task'[u] = task[u]
    BY DEF Built, Finish, OriginationTypeOK
  <2>2. task'[t].at = "idle"
    BY DEF Built, Finish, OriginationTypeOK, Idle
  <2>3. PricedRequest(task[t])'
    BY <2>2 DEF PricedRequest
  <2> QED
    BY <2>1, <2>3
<1>5. ASSUME NEW h \in Hashes, tx'[h] # tx[h]
      PROVE  moves = 0 => PricedTransaction(tx[h])'
  <2>1. tx'[h] = [Unbuilt EXCEPT !.kind = kind, !.owner = task[t].owner, !.beneficiary = b,
                                 !.quoted = q, !.until = now + Window, !.state = "open"]
    BY <1>1, <1>5 DEF Built, OriginationTypeOK
  <2>2. /\ tx'[h].kind = kind /\ tx'[h].beneficiary = b
        /\ tx'[h].quoted = q /\ tx'[h].state = "open"
    BY <2>1 DEF Unbuilt
  <2> QED
    BY <1>2, <1>3, <2>2 DEF PricedTransaction
<1> QED
  BY <1>2, <1>4, <1>5, QuotesCarry

LEMMA QuotesLanded ==
    ASSUME OriginationTypeOK, OriginationTypeOK', QuotesOK, NEW h \in Hashes, Lands(h)
    PROVE  QuotesOK'
<1>1. PICK b : b = tx[h].beneficiary
  OBVIOUS
<1>2. /\ FairLtv(b)' = FairLtv(b) /\ ScoredLtv(b)' = ScoredLtv(b)
      /\ Settled(b) => Settled(b)'
      /\ UNCHANGED <<moves, history, reputation, published, task>>
  BY DEF Lands, FairLtv, ScoredLtv, Settled, RequiredLtv, book, rest
<1>3. \A k \in Hashes : k # h => tx'[k] = tx[k]
  BY DEF Lands, OriginationTypeOK
<1>4. /\ tx'[h].kind = tx[h].kind /\ tx'[h].beneficiary = b /\ tx'[h].quoted = tx[h].quoted
      /\ tx'[h].state = "landed" /\ tx[h].kind = "originate" =>
            tx'[h].locked = Collateral(RequiredLtv(b))
      /\ tx[h].state = "open"
  <2>1. tx[h] \in Transaction
    BY DEF OriginationTypeOK, Transactions
  <2>2. CASE tx' = [tx EXCEPT ![h].state = "refused"]
    BY <1>1, <2>1, <2>2 DEF Lands, Transaction, OriginationTypeOK
  <2>3. CASE tx' = [tx EXCEPT ![h].state = "landed",
                              ![h].locked = IF tx[h].kind = "originate"
                                            THEN Collateral(RequiredLtv(b)) ELSE 0]
    BY <1>1, <2>1, <2>3 DEF Lands, Transaction, OriginationTypeOK
  <2> QED
    BY <1>1, <2>2, <2>3 DEF Lands
<1>5. moves = 0 => PricedTransaction(tx[h])'
  <2>1. moves = 0 /\ tx[h].kind = "originate" => tx[h].quoted = FairLtv(b) /\ Settled(b)
    BY <1>1, <1>4 DEF QuotesOK, PricedTransaction
  <2>2. moves = 0 /\ tx[h].kind = "originate" =>
           Collateral(RequiredLtv(b)) \in {Collateral(tx[h].quoted), Collateral(ScoredLtv(b))}
    BY <2>1 DEF Settled, RequiredLtv, ScoredLtv
  <2> QED
    BY <1>2, <1>4, <2>1, <2>2 DEF PricedTransaction
<1> QED
  BY <1>2, <1>3, <1>5, QuotesCarry

LEMMA QuotesSubmitting ==
    ASSUME OriginationTypeOK, OriginationTypeOK', QuotesOK, NEW t \in Handlers,
           \/ \E h \in Hashes, g \in Guarantors, kind \in Kinds : Submit(t, h, g, kind)
           \/ NotConfirmed(t) \/ Confirmed(t) \/ Recorded(t) \/ Unreadable(t) \/ Disbursed(t)
    PROVE  QuotesOK'
<1>1. UNCHANGED <<moves, history, reputation, published, tx>>
  BY DEF Submit, NotConfirmed, Confirmed, Recorded, Unreadable, Disbursed, network, book, rest
<1>2. /\ \A u \in Handlers : u # t => task'[u] = task[u]
      /\ task'[t].at \in {"send", "readback", "disburse", "idle"}
  <2>1. task \in [Handlers -> RequestRecord] /\ task[t] \in RequestRecord
    BY DEF OriginationTypeOK, Requests
  <2>2. CASE \E h \in Hashes, g \in Guarantors, kind \in Kinds : Submit(t, h, g, kind)
    BY <2>1, <2>2 DEF Submit, Idle
  <2>3. CASE Finish(t)
    BY <2>1, <2>3 DEF Finish, Idle
  <2>4. CASE \E call \in {"readback", "disburse"} : Awaits(t, call)
    BY <2>1, <2>4 DEF Awaits, RequestRecord
  <2> QED
    BY <2>2, <2>3, <2>4 DEF NotConfirmed, Confirmed, Recorded, Unreadable, Disbursed, Answers
<1>3. PricedRequest(task[t])'
  BY <1>2 DEF PricedRequest
<1> QED
  BY <1>1, <1>2, <1>3, QuotesCarryRequest

LEMMA QuotesRest ==
    ASSUME OriginationTypeOK, OriginationTypeOK', QuotesOK,
           \/ \E h \in Hashes : PartnerDecides(h)
           \/ (\E b \in Beneficiaries : HistoryMoves(b)) \/ TimePasses \/ Flush \/ Crash
           \/ UNCHANGED vars
    PROVE  QuotesOK'
<1>1. CASE \E b \in Beneficiaries : HistoryMoves(b)
  <2>1. moves' # 0
    BY <1>1 DEF HistoryMoves, OriginationTypeOK
  <2> QED
    BY <2>1 DEF QuotesOK
<1>2. CASE (\E h \in Hashes : PartnerDecides(h)) \/ TimePasses \/ Flush \/ UNCHANGED vars
  BY <1>2, QuotesCarry DEF PartnerDecides, TimePasses, Flush, vars, network, book, rest
<1>3. CASE Crash
  <2>1. UNCHANGED <<moves, history, reputation, published, tx>>
    BY <1>3 DEF Crash, network
  <2>2. \A t \in Handlers : task'[t].at = "idle"
    BY <1>3 DEF Crash, Idle
  <2>3. \A t \in Handlers : PricedRequest(task[t])'
    BY <2>2 DEF PricedRequest
  <2> QED
    BY <2>1, <2>3, QuotesCarry
<1> QED
  BY <1>1, <1>2, <1>3

LEMMA QuotesStart == Init => QuotesOK
<1> SUFFICES ASSUME Init PROVE QuotesOK
  OBVIOUS
<1>1. \A t \in Handlers : task[t].at = "idle"
  BY DEF Init, Idle
<1>2. \A h \in Hashes : tx[h].state = "unbuilt"
  BY DEF Init, Unbuilt
<1>3. \A b \in Beneficiaries : reputation[b] = Score(history[b])
  BY DEF Init
<1> QED
  BY <1>1, <1>2, <1>3 DEF QuotesOK, PricedRequest, PricedTransaction

LEMMA QuotesStep == OriginationTypeOK /\ OriginationTypeOK' /\ QuotesOK /\ [Next]_vars => QuotesOK'
<1> SUFFICES ASSUME OriginationTypeOK, OriginationTypeOK', QuotesOK, [Next]_vars
             PROVE  QuotesOK'
  OBVIOUS
<1>1. CASE \E t \in Handlers : Request(t) \/ Continue(t)
  BY <1>1, QuotesPreparing, QuotesBuilt, QuotesSubmitting DEF Request, Continue
<1>2. CASE \E h \in Hashes : Lands(h)
  BY <1>2, QuotesLanded
<1>3. CASE \/ \E h \in Hashes : PartnerDecides(h)
           \/ (\E b \in Beneficiaries : HistoryMoves(b)) \/ TimePasses \/ Flush \/ Crash
           \/ UNCHANGED vars
  BY <1>3, QuotesRest
<1> QED
  BY <1>1, <1>2, <1>3 DEF Next

\* A score out of date locks no collateral, whatever ratio the ledger asks for which
\* score: while no history moves, a loan locks what was quoted, or what the ledger
\* asks for the score the history has, however many loans are prepared, published
\* for and landed in whatever order.
THEOREM PresentScoreLocks ==
    Spec => [](moves = 0 =>
                 \A h \in Landed :
                    tx[h].kind = "originate" =>
                       tx[h].locked \in {Collateral(tx[h].quoted),
                                         Collateral(LedgerLtv[Score(history[tx[h].beneficiary])])})
<1> DEFINE Scored == moves = 0 =>
                 \A h \in Landed :
                    tx[h].kind = "originate" =>
                       tx[h].locked \in {Collateral(tx[h].quoted),
                                         Collateral(LedgerLtv[Score(history[tx[h].beneficiary])])}
<1>1. QuotesOK => Scored
  BY DEF QuotesOK, PricedTransaction, ScoredLtv, Landed
<1> HIDE DEF Scored
<1>2. Spec => []Scored
  BY <1>1, QuotesStart, QuotesStep, OriginationTypesKept, PTL DEF Spec
<1> QED
  BY <1>2 DEF Scored

LEMMA QuotientOfSum ==
    \A x, y, z \in Nat : x <= y + z => x \div 10000 <= y \div 10000 + z \div 10000 + 1
  OBVIOUS

\* Ratios within half a percent of each other lock nearly the same collateral.
LEMMA CollateralNear ==
    ASSUME NEW a \in Nat, NEW b \in Nat, a <= b + 50
    PROVE  Collateral(a) <= Collateral(b) + RoundedOff
<1>1. Principal * (b + 50 - a) \in Nat
  BY OriginationAssumption
<1>2. Principal * (b + 50 - a) = Principal * b + Principal * 50 - Principal * a
  BY OriginationAssumption
<1>3. /\ Principal * a \in Nat /\ Principal * b \in Nat /\ Principal * 50 \in Nat
  BY OriginationAssumption
<1>4. Principal * a <= Principal * b + Principal * 50
  BY <1>1, <1>2, <1>3
<1>5. (Principal * a) \div 10000 <= (Principal * b) \div 10000 + (Principal * 50) \div 10000 + 1
  BY <1>3, <1>4, QuotientOfSum
<1> QED
  BY <1>3, <1>5 DEF Collateral, RoundedOff

\* Against a ledger that asks for the backend's ratio but for its rounding, a loan
\* locks what was quoted but for rounding, while no history moves.
THEOREM QuotesHonoured ==
    ASSUME LedgerAgrees
    PROVE  Spec => []QuoteHonoured
<1>1. OriginationTypeOK /\ QuotesOK => QuoteHonoured
  <2> SUFFICES ASSUME OriginationTypeOK, QuotesOK, moves = 0,
                      NEW h \in Landed, tx[h].kind = "originate"
               PROVE  tx[h].locked - Collateral(tx[h].quoted) \in -RoundedOff .. RoundedOff
    BY DEF QuoteHonoured
  <2>1. PICK b \in Beneficiaries : b = tx[h].beneficiary
    BY DEF Landed, OriginationTypeOK, Transactions
  <2>2. /\ tx[h].quoted = FairLtv(b)
        /\ tx[h].locked \in {Collateral(tx[h].quoted), Collateral(ScoredLtv(b))}
    BY <2>1 DEF QuotesOK, PricedTransaction, Landed
  <2>3. PICK score \in 0 .. 100 : score = Score(history[b])
    BY ScoreInRange DEF OriginationTypeOK
  <2>4. PICK fair, asked \in Nat :
           /\ fair = AdjustedLtv(score) /\ asked = LedgerLtv[score]
           /\ fair <= asked + 50 /\ asked <= fair + 50
    <3>1. PICK fair \in Nat : fair = AdjustedLtv(score)
      BY LtvInBounds
    <3>2. PICK asked \in Nat : asked = LedgerLtv[score]
      BY OriginationAssumption
    <3>3. asked - fair \in -50 .. 50
      BY <3>1, <3>2 DEF LedgerAgrees
    <3> QED
      BY <3>1, <3>2, <3>3
  <2>5. /\ Collateral(fair) <= Collateral(asked) + RoundedOff
        /\ Collateral(asked) <= Collateral(fair) + RoundedOff
    BY <2>4, CollateralNear
  <2>6. Collateral(fair) \in Nat /\ Collateral(asked) \in Nat /\ RoundedOff \in Nat
    BY CollateralNat DEF RoundedOff
  <2>7. tx[h].quoted = fair /\ tx[h].locked \in {Collateral(fair), Collateral(asked)}
    BY <2>2, <2>3, <2>4 DEF FairLtv, ScoredLtv
  <2> QED
    BY <2>5, <2>6, <2>7
<1> QED
  BY <1>1, QuotesStart, QuotesStep, OriginationTypesKept, PTL DEF Spec

-----------------------------------------------------------------------------
(***************************************************************************)
(* What a wallet signs is acted on once, and no payment is written off     *)
(* that was or may yet be made.                                            *)
(*                                                                         *)
(* The argument: a patient wallet has one submission of a transaction      *)
(* under way (AloneOK).  One that waits for its signature has not been     *)
(* acted on (TransactionSound), and from when it is known to have landed   *)
(* it waits no more (RequestSound): whoever goes on to record it and have  *)
(* it paid is the first and the last to do so, and a restart, which ends   *)
(* the request, leaves nothing to submit.  The partner, asked once, pays   *)
(* or refuses for good; a loan goes on record as failed when it refused.   *)
(* That one pair has one loan is the contract's doing (PairsOK).           *)
(***************************************************************************)

\* The partner has not been asked; nothing was logged.
Unasked(h) ==
    /\ payout[h] = "none" /\ paid[h] = 0 /\ logged[h] = 0
    /\ disbursement[h] = "none" /\ stored.disbursement[h] = "none"

RequestSound(r) ==
    r.hash # None =>
        /\ tx[r.hash].state # "unbuilt" /\ tx[r.hash].kind = r.kind
        /\ r.at # "disburse" => records[r.hash] = 0 /\ Unasked(r.hash)
        /\ r.at # "send" => /\ tx[r.hash].state = "landed" /\ r.kind = "originate"
                            /\ pending[r.hash] = 0

\* A disbursement has an outcome once its loan has landed; one that failed is one
\* that the partner has refused, or whose connection dropped.
OutcomeSound(h, outcome) ==
    /\ outcome # "none" => tx[h].state = "landed"
    /\ outcome = "failed" => payout[h] = "refused" \/ "drops" \in PartnerFailures

TransactionSound(h) ==
    /\ pending[h] # 0 => tx[h].state # "unbuilt" /\ records[h] = 0 /\ Unasked(h)
    /\ records[h] <= 1 /\ logged[h] <= 1
    /\ stored.records[h] <= 1 /\ stored.logged[h] <= 1
    /\ paid[h] = IF payout[h] = "paid" THEN 1 ELSE 0
    /\ payout[h] # "none" => tx[h].state = "landed" /\ tx[h].kind = "originate"
    /\ tx[h].state # "landed" =>
         /\ records[h] = 0 /\ logged[h] = 0
         /\ stored.records[h] = 0 /\ stored.logged[h] = 0
    /\ tx[h].kind # "originate" => records[h] = 0 /\ stored.records[h] = 0
    /\ OutcomeSound(h, disbursement[h])
    /\ OutcomeSound(h, stored.disbursement[h])

AloneOK ==
    \A t, u \in Handlers : task[t].hash = task[u].hash /\ task[t].hash # None => t = u

PairsOK ==
    \A h, k \in Hashes :
        /\ tx[h].state = "landed" /\ tx[h].kind = "originate"
        /\ tx[k].state = "landed" /\ tx[k].kind = "originate"
        /\ tx[h].owner = tx[k].owner /\ tx[h].beneficiary = tx[k].beneficiary
        => h = k

SubmissionsOK ==
    /\ \A t \in Handlers : RequestSound(task[t])
    /\ \A h \in Hashes : TransactionSound(h)
    /\ AloneOK
    /\ PairsOK

-----------------------------------------------------------------------------
(* Steps of one request about one transaction                              *)

SameAt(h) ==
    /\ tx'[h] = tx[h] /\ pending'[h] = pending[h]
    /\ records'[h] = records[h] /\ paid'[h] = paid[h] /\ logged'[h] = logged[h]
    /\ payout'[h] = payout[h] /\ disbursement'[h] = disbursement[h]
    /\ stored'.records[h] = stored.records[h] /\ stored'.logged[h] = stored.logged[h]
    /\ stored'.disbursement[h] = stored.disbursement[h]

LEMMA RequestStaysSound ==
    ASSUME NEW r, r.hash # None => SameAt(r.hash), RequestSound(r)
    PROVE  RequestSound(r)'
  BY DEF RequestSound, SameAt, Unasked

LEMMA TransactionStaysSound ==
    ASSUME NEW h \in Hashes, SameAt(h), TransactionSound(h)
    PROVE  TransactionSound(h)'
  BY DEF TransactionSound, OutcomeSound, SameAt, Unasked

\* A step of request t about h disturbs nobody: h is its own.
LEMMA SoundCarry ==
    ASSUME OriginationTypeOK, SubmissionsOK, NEW t \in Handlers, NEW h \in Hashes \cup {None},
           UNCHANGED tx,
           \A u \in Handlers \ {t} : task'[u] = task[u] /\ (task[u].hash = h => h = None),
           \A k \in Hashes \ {h} : SameAt(k),
           task'[t].hash \in {h, None}, RequestSound(task[t])',
           h # None => TransactionSound(h)'
    PROVE  SubmissionsOK'
<1>1. ASSUME NEW u \in Handlers PROVE RequestSound(task[u])'
  <2>1. CASE u # t
    <3>1. PICK r \in RequestRecord : r = task[u] /\ r = task'[u] /\ RequestSound(r)
      BY <2>1 DEF OriginationTypeOK, Requests, SubmissionsOK
    <3>2. r.hash # None => r.hash \in Hashes \ {h}
      BY <2>1, <3>1 DEF RequestRecord
    <3>3. RequestSound(r)'
      BY <3>1, <3>2, RequestStaysSound
    <3> QED
      BY <3>1, <3>3
  <2> QED
    BY <2>1
<1>2. ASSUME NEW k \in Hashes PROVE TransactionSound(k)'
  <2>1. CASE k # h
    BY <2>1, TransactionStaysSound DEF SubmissionsOK
  <2>2. CASE k = h
    BY <2>2, OriginationAssumption
  <2> QED
    BY <2>1, <2>2
<1>3. AloneOK'
  BY DEF AloneOK, SubmissionsOK
<1>4. PairsOK'
  BY DEF PairsOK, SubmissionsOK
<1> QED
  BY <1>1, <1>2, <1>3, <1>4 DEF SubmissionsOK

\* A request that has no transaction yet, or gives its own up, acts on nothing.
LEMMA SoundQuiet ==
    ASSUME OriginationTypeOK, SubmissionsOK, NEW t \in Handlers,
           \A u \in Handlers \ {t} : task'[u] = task[u],
           task'[t].hash = None,
           \A h \in Hashes : SameAt(h), UNCHANGED tx
    PROVE  SubmissionsOK'
<1>1. RequestSound(task[t])'
  BY DEF RequestSound
<1>2. None \notin Hashes
  BY OriginationAssumption
<1> QED
  BY <1>1, <1>2, SoundCarry

LEMMA SoundPreparing ==
    ASSUME OriginationTypeOK, SubmissionsOK, NEW t \in Handlers,
           \/ \E g \in Guarantors, b \in Beneficiaries : PrepareLoan(t, g, b)
           \/ \E g \in Guarantors, kind \in Kinds \ {"originate"} : PrepareVault(t, g, kind)
           \/ Quoted(t) \/ Required(t) \/ Published(t) \/ PrepareFails(t)
           \/ NotConfirmed(t) \/ Unreadable(t)
    PROVE  SubmissionsOK'
<1>1. /\ UNCHANGED <<tx, pending, records, payout, paid, logged, disbursement, stored>>
  BY DEF PrepareLoan, PrepareVault, Quoted, Required, Published, PrepareFails,
         NotConfirmed, Unreadable, network, book
<1>2. \A h \in Hashes : SameAt(h)
  BY <1>1 DEF SameAt
<1>3. task \in [Handlers -> RequestRecord] /\ task[t] \in Requests /\ task[t] \in RequestRecord
  BY DEF OriginationTypeOK, Requests
<1>4. task[t].at \in Preparing => task[t].hash = None
  BY <1>3 DEF Requests, Preparing, Submitting
<1>5. /\ \A u \in Handlers \ {t} : task'[u] = task[u]
      /\ task'[t].hash = None
  <2>1. CASE \E g \in Guarantors, b \in Beneficiaries : PrepareLoan(t, g, b)
    BY <1>3, <2>1 DEF PrepareLoan, Idle
  <2>2. CASE \E g \in Guarantors, kind \in Kinds \ {"originate"} : PrepareVault(t, g, kind)
    BY <1>3, <2>2 DEF PrepareVault, Idle
  <2>3. CASE Quoted(t)
    BY <1>3, <1>4, <2>3 DEF Quoted, At, RequestRecord, Preparing
  <2>4. CASE Required(t) \/ Published(t)
    BY <1>3, <1>4, <2>4 DEF Required, Published, Awaits, At, RequestRecord, Preparing
  <2>5. CASE PrepareFails(t) \/ NotConfirmed(t) \/ Unreadable(t)
    BY <1>3, <2>5 DEF PrepareFails, NotConfirmed, Unreadable, Answers, Finish, Idle
  <2> QED
    BY <2>1, <2>2, <2>3, <2>4, <2>5
<1> QED
  BY <1>1, <1>2, <1>5, SoundQuiet

BuiltFor(r) == [Unbuilt EXCEPT !.kind = r.kind, !.owner = r.owner, !.beneficiary = r.beneficiary,
                               !.quoted = r.quoted, !.until = now + Window, !.state = "open"]

\* The hash of a transaction that is built is new: nothing was done about it.
LEMMA SoundBuilt ==
    ASSUME OriginationTypeOK, SubmissionsOK, NEW t \in Handlers, Built(t)
    PROVE  SubmissionsOK'
<1>1. /\ \A u \in Handlers \ {t} : task'[u] = task[u]
      /\ task'[t].hash = None
  BY DEF Built, Finish, Idle, OriginationTypeOK
<1>2. UNCHANGED <<records, payout, paid, logged, disbursement, stored>>
  BY DEF Built
<1>3. CASE UNCHANGED <<tx, pending>>
  <2>1. \A h \in Hashes : SameAt(h)
    BY <1>2, <1>3 DEF SameAt
  <2> QED
    BY <1>1, <1>3, <2>1, SoundQuiet
<1>4. CASE ~UNCHANGED <<tx, pending>>
  <2>1. PICK h \in Hashes :
           /\ tx[h] = Unbuilt
           /\ tx' = [tx EXCEPT ![h] = BuiltFor(task[t])]
           /\ Remember(h, now + Window)
    BY <1>4 DEF Built, BuiltFor
  <2>2. tx[h].state = "unbuilt" /\ tx'[h].state = "open"
    BY <2>1 DEF Unbuilt, BuiltFor, OriginationTypeOK
  <2>3. \A k \in Hashes \ {h} : tx'[k] = tx[k] /\ pending'[k] \in {0, pending[k]}
    BY <2>1 DEF Remember, OriginationTypeOK
  <2>4. ASSUME NEW u \in Handlers PROVE RequestSound(task[u])'
    <3>1. CASE u # t
      <4>1. PICK r \in RequestRecord : r = task[u] /\ r = task'[u] /\ RequestSound(r)
        BY <1>1, <3>1 DEF OriginationTypeOK, Requests, SubmissionsOK
      <4>2. r.hash # None => r.hash \in Hashes \ {h}
        BY <2>2, <4>1 DEF RequestRecord, RequestSound
      <4>3. RequestSound(r)'
        BY <1>2, <2>3, <4>1, <4>2 DEF RequestSound, Unasked
      <4> QED
        BY <4>1, <4>3
    <3>2. CASE u = t
      BY <1>1, <3>2 DEF RequestSound
    <3> QED
      BY <3>1, <3>2
  <2>5. ASSUME NEW k \in Hashes PROVE TransactionSound(k)'
    <3>1. TransactionSound(k)
      BY DEF SubmissionsOK
    <3>2. CASE k # h
      <4>1. tx'[k] = tx[k] /\ pending'[k] \in {0, pending[k]}
        BY <2>3, <3>2
      <4> QED
        BY <1>2, <3>1, <4>1 DEF TransactionSound, OutcomeSound, Unasked
    <3>3. CASE k = h
      BY <1>2, <2>2, <3>1, <3>3 DEF TransactionSound, OutcomeSound, Unasked
    <3> QED
      BY <3>2, <3>3
  <2>6. AloneOK'
    BY <1>1 DEF AloneOK, SubmissionsOK
  <2>7. PairsOK'
    BY <2>2, <2>3 DEF PairsOK, SubmissionsOK
  <2> QED
    BY <2>4, <2>5, <2>6, <2>7 DEF SubmissionsOK
<1> QED
  BY <1>3, <1>4

\* The network is free to land an open transaction; the contract refuses a second
\* loan for the pair.
LEMMA SoundLanded ==
    ASSUME OriginationTypeOK, SubmissionsOK, NEW h \in Hashes, Lands(h)
    PROVE  SubmissionsOK'
<1>1. UNCHANGED <<pending, records, payout, paid, logged, disbursement, stored, task>>
  BY DEF Lands, book
<1>2. \A k \in Hashes \ {h} : tx'[k] = tx[k]
  BY DEF Lands, OriginationTypeOK
<1>3. /\ tx[h].state = "open" /\ tx'[h].state \in {"landed", "refused"}
      /\ tx'[h].kind = tx[h].kind /\ tx'[h].owner = tx[h].owner
      /\ tx'[h].beneficiary = tx[h].beneficiary
      /\ tx'[h].state = "landed" => Accepts(tx[h].kind, tx[h].owner, tx[h].beneficiary)
  <2>1. tx[h] \in Transaction
    BY DEF OriginationTypeOK, Transactions
  <2>2. CASE tx' = [tx EXCEPT ![h].state = "refused"]
    BY <2>1, <2>2 DEF Lands, Transaction, OriginationTypeOK
  <2>3. CASE \E locks : /\ tx' = [tx EXCEPT ![h].state = "landed", ![h].locked = locks]
                        /\ Accepts(tx[h].kind, tx[h].owner, tx[h].beneficiary)
    BY <2>1, <2>3 DEF Lands, Transaction, OriginationTypeOK
  <2> QED
    BY <2>2, <2>3 DEF Lands
<1>4. ASSUME NEW u \in Handlers PROVE RequestSound(task[u])'
  <2>1. PICK r \in RequestRecord : r = task[u] /\ r = task'[u] /\ RequestSound(r)
    BY <1>1 DEF OriginationTypeOK, Requests, SubmissionsOK
  <2>2. r.hash # None => r.hash \in Hashes
    BY <2>1 DEF RequestRecord
  <2>3. RequestSound(r)'
    BY <1>1, <1>2, <1>3, <2>1, <2>2 DEF RequestSound, Unasked
  <2> QED
    BY <2>1, <2>3
<1>5. ASSUME NEW k \in Hashes PROVE TransactionSound(k)'
  <2>1. TransactionSound(k)
    BY DEF SubmissionsOK
  <2>2. CASE k # h
    <3>1. tx'[k] = tx[k]
      BY <1>2, <2>2
    <3> QED
      BY <1>1, <2>1, <3>1 DEF TransactionSound, OutcomeSound, Unasked
  <2>3. CASE k = h
    BY <1>1, <1>3, <2>1, <2>3 DEF TransactionSound, OutcomeSound, Unasked
  <2> QED
    BY <2>2, <2>3
<1>6. AloneOK'
  BY <1>1 DEF AloneOK, SubmissionsOK
<1>7. PairsOK'
  <2>1. CASE tx'[h].state = "landed" /\ tx[h].kind = "originate"
    <3>1. \A k \in Hashes \ {h} :
             /\ tx[k].state = "landed" /\ tx[k].kind = "originate"
             /\ tx[k].owner = tx[h].owner
             => tx[k].beneficiary # tx[h].beneficiary
      BY <1>3, <2>1 DEF Accepts, LoansOf, Landed
    <3> QED
      BY <1>2, <1>3, <3>1 DEF PairsOK, SubmissionsOK
  <2>2. CASE ~(tx'[h].state = "landed" /\ tx[h].kind = "originate")
    BY <1>2, <1>3, <2>2 DEF PairsOK, SubmissionsOK
  <2> QED
    BY <2>1, <2>2
<1> QED
  BY <1>4, <1>5, <1>6, <1>7 DEF SubmissionsOK

\* What a step of request t about h finds: nobody else is at it.
LEMMA HashIsOwn ==
    ASSUME OriginationTypeOK, SubmissionsOK, NEW t \in Handlers, task[t].at \in Submitting
    PROVE  /\ task[t].hash \in Hashes /\ task[t].hash # None
           /\ RequestSound(task[t]) /\ TransactionSound(task[t].hash)
           /\ \A u \in Handlers \ {t} : task[u].hash # task[t].hash
<1>1. task[t] \in Requests /\ task[t] \in RequestRecord
  BY DEF OriginationTypeOK, Requests
<1>2. task[t].hash \in Hashes /\ task[t].hash # None
  BY <1>1 DEF Requests, RequestRecord
<1> QED
  BY <1>2 DEF SubmissionsOK, AloneOK

\* A patient wallet submits what nobody is submitting, and what is pending has not
\* been acted on.
LEMMA SoundSubmit ==
    ASSUME OriginationTypeOK, SubmissionsOK, Patient, NEW t \in Handlers,
           NEW h \in Hashes, NEW g, NEW kind, Submit(t, h, g, kind)
    PROVE  SubmissionsOK'
<1>1. UNCHANGED <<tx, pending, records, payout, paid, logged, disbursement, stored>>
  BY DEF Submit, network, book
<1>2. \A k \in Hashes : SameAt(k)
  BY <1>1 DEF SameAt
<1>3. /\ \A u \in Handlers \ {t} : task'[u] = task[u]
      /\ task'[t].hash = h /\ task'[t].kind = kind /\ task'[t].at = "send"
  BY DEF Submit, Idle, OriginationTypeOK
<1>4. \A u \in Handlers : task[u].hash # h
  BY DEF Submit, MaySubmit
<1>5. TransactionSound(h) /\ tx[h].kind = kind /\ pending[h] # 0
  BY DEF Submit, PendingFor, SubmissionsOK, OriginationTypeOK, Counts
<1>6. RequestSound(task[t])'
  BY <1>1, <1>3, <1>5 DEF RequestSound, TransactionSound, Unasked
<1>7. TransactionSound(h)'
  BY <1>2, <1>5, TransactionStaysSound
<1> QED
  BY <1>1, <1>2, <1>3, <1>4, <1>6, <1>7, SoundCarry

LEMMA SoundConfirmed ==
    ASSUME OriginationTypeOK, SubmissionsOK, NEW t \in Handlers, Confirmed(t)
    PROVE  SubmissionsOK'
<1>1. PICK h : h = task[t].hash
  OBVIOUS
<1>2. /\ h \in Hashes /\ h # None
      /\ RequestSound(task[t]) /\ TransactionSound(h)
      /\ \A u \in Handlers \ {t} : task[u].hash # h
  BY <1>1, HashIsOwn DEF Confirmed, At, Submitting
<1>3. /\ UNCHANGED <<tx, records, payout, paid, disbursement, stored>>
      /\ pending' = [pending EXCEPT ![h] = 0]
      /\ task[t].at = "send" /\ tx[h].state = "landed"
  BY <1>1 DEF Confirmed, Forget, network, At
<1>4. task[t] \in RequestRecord /\ task \in [Handlers -> RequestRecord]
  BY DEF OriginationTypeOK, Requests
<1>5. pending'[h] = 0 /\ \A k \in Hashes \ {h} : pending'[k] = pending[k]
  BY <1>2, <1>3 DEF OriginationTypeOK, Counts
<1>6. Unasked(h) /\ records[h] = 0 /\ tx[h].kind = task[t].kind
  BY <1>1, <1>2, <1>3 DEF RequestSound
<1>7. CASE task[t].kind = "originate" /\ Awaits(t, "readback") /\ UNCHANGED <<logged, told>>
  <2>1. \A k \in Hashes \ {h} : SameAt(k)
    BY <1>3, <1>5, <1>7 DEF SameAt
  <2>2. /\ \A u \in Handlers \ {t} : task'[u] = task[u]
        /\ task'[t].hash = h /\ task'[t].kind = "originate" /\ task'[t].at = "readback"
    BY <1>1, <1>4, <1>7 DEF Awaits, RequestRecord
  <2>3. RequestSound(task[t])'
    BY <1>3, <1>5, <1>6, <1>7, <2>2 DEF RequestSound, Unasked
  <2>4. TransactionSound(h)'
    BY <1>2, <1>3, <1>5, <1>7 DEF TransactionSound, OutcomeSound, Unasked
  <2> QED
    BY <1>2, <1>3, <2>1, <2>2, <2>3, <2>4, SoundCarry
<1>8. CASE task[t].kind # "originate" /\ logged' = [logged EXCEPT ![h] = @ + 1] /\ Answers(t, "done")
  <2>1. logged'[h] = 1 /\ \A k \in Hashes \ {h} : logged'[k] = logged[k]
    BY <1>2, <1>6, <1>8 DEF OriginationTypeOK, Counts, Unasked
  <2>2. \A k \in Hashes \ {h} : SameAt(k)
    BY <1>3, <1>5, <2>1 DEF SameAt
  <2>3. /\ \A u \in Handlers \ {t} : task'[u] = task[u]
        /\ task'[t].hash = None
    BY <1>4, <1>8 DEF Answers, Finish, Idle
  <2>4. RequestSound(task[t])'
    BY <2>3 DEF RequestSound
  <2>5. TransactionSound(h)'
    BY <1>2, <1>3, <1>5, <2>1 DEF TransactionSound, OutcomeSound, Unasked
  <2> QED
    BY <1>2, <1>3, <2>2, <2>3, <2>4, <2>5, SoundCarry
<1> QED
  BY <1>1, <1>7, <1>8 DEF Confirmed

\* The loan was not recorded before, and waits no more to be.
LEMMA SoundRecorded ==
    ASSUME OriginationTypeOK, SubmissionsOK, NEW t \in Handlers, Recorded(t)
    PROVE  SubmissionsOK'
<1>1. PICK h : h = task[t].hash
  OBVIOUS
<1>2. /\ h \in Hashes /\ h # None
      /\ RequestSound(task[t]) /\ TransactionSound(h)
      /\ \A u \in Handlers \ {t} : task[u].hash # h
  BY <1>1, HashIsOwn DEF Recorded, At, Submitting
<1>3. /\ UNCHANGED <<tx, pending, paid, logged, disbursement, stored>>
      /\ records' = [records EXCEPT ![h] = @ + 1]
      /\ payout' = [payout EXCEPT ![h] = "asked"]
      /\ task[t].at = "readback"
  BY <1>1 DEF Recorded, At
<1>4. /\ Unasked(h) /\ records[h] = 0 /\ pending[h] = 0
      /\ tx[h].state = "landed" /\ tx[h].kind = "originate" /\ task[t].kind = "originate"
  BY <1>1, <1>2, <1>3 DEF RequestSound
<1>5. /\ records'[h] = 1 /\ payout'[h] = "asked"
      /\ \A k \in Hashes \ {h} : records'[k] = records[k] /\ payout'[k] = payout[k]
  BY <1>2, <1>3, <1>4 DEF OriginationTypeOK, Counts
<1>6. \A k \in Hashes \ {h} : SameAt(k)
  BY <1>3, <1>5 DEF SameAt
<1>7. /\ \A u \in Handlers \ {t} : task'[u] = task[u]
      /\ task'[t].hash = h /\ task'[t].kind = "originate" /\ task'[t].at = "disburse"
  BY <1>1, <1>4 DEF Recorded, Awaits, RequestRecord, OriginationTypeOK, Requests
<1>8. RequestSound(task[t])'
  BY <1>3, <1>4, <1>7 DEF RequestSound, Unasked
<1>9. TransactionSound(h)'
  BY <1>2, <1>3, <1>4, <1>5 DEF TransactionSound, OutcomeSound, Unasked
<1> QED
  BY <1>2, <1>3, <1>6, <1>7, <1>8, <1>9, SoundCarry

\* What goes on record of a disbursement is failed when the partner refused it.
LEMMA SoundDisbursed ==
    ASSUME OriginationTypeOK, SubmissionsOK, NEW t \in Handlers, Disbursed(t)
    PROVE  SubmissionsOK'
<1>1. PICK h : h = task[t].hash
  OBVIOUS
<1>2. /\ h \in Hashes /\ h # None
      /\ RequestSound(task[t]) /\ TransactionSound(h)
      /\ \A u \in Handlers \ {t} : task[u].hash # h
  BY <1>1, HashIsOwn DEF Disbursed, At, Submitting
<1>3. /\ UNCHANGED <<tx, pending, records, payout, paid, logged, stored>>
      /\ task[t].at = "disburse"
  BY DEF Disbursed, At, network
<1>4. pending[h] = 0 /\ tx[h].state = "landed"
  BY <1>1, <1>2, <1>3 DEF RequestSound
<1>5. PICK outcome \in {"completed", "failed", "unknown"} :
         Outcome(h, outcome) /\ OutcomeSound(h, outcome)
  BY <1>1, <1>4 DEF Disbursed, OutcomeSound
<1>6. disbursement'[h] = outcome /\ \A k \in Hashes \ {h} : disbursement'[k] = disbursement[k]
  BY <1>2, <1>5 DEF OriginationTypeOK, Outcome
<1>7. \A k \in Hashes \ {h} : SameAt(k)
  BY <1>3, <1>6 DEF SameAt
<1>8. /\ \A u \in Handlers \ {t} : task'[u] = task[u]
      /\ task'[t].hash = None
  BY DEF Disbursed, Answers, Finish, Idle, OriginationTypeOK
<1>9. RequestSound(task[t])'
  BY <1>8 DEF RequestSound
<1>10. TransactionSound(h)'
  BY <1>2, <1>3, <1>4, <1>5, <1>6 DEF TransactionSound, OutcomeSound
<1> QED
  BY <1>2, <1>3, <1>7, <1>8, <1>9, <1>10, SoundCarry

\* The partner makes up its mind once about what it was asked once.
LEMMA SoundDecided ==
    ASSUME OriginationTypeOK, SubmissionsOK, NEW h \in Hashes, PartnerDecides(h)
    PROVE  SubmissionsOK'
<1>1. /\ UNCHANGED <<tx, pending, records, logged, disbursement, stored, task>>
      /\ payout[h] = "asked" /\ payout'[h] \in {"paid", "refused"}
      /\ paid'[h] = IF payout'[h] = "paid" THEN paid[h] + 1 ELSE paid[h]
      /\ \A k \in Hashes \ {h} : payout'[k] = payout[k] /\ paid'[k] = paid[k]
  BY DEF PartnerDecides, book, OriginationTypeOK, Counts
<1>2. ASSUME NEW k \in Hashes PROVE TransactionSound(k)'
  <2>1. TransactionSound(k)
    BY DEF SubmissionsOK
  <2>2. CASE k # h
    BY <1>1, <2>1, <2>2 DEF TransactionSound, OutcomeSound, Unasked
  <2>3. CASE k = h
    BY <1>1, <2>1, <2>3 DEF TransactionSound, OutcomeSound, Unasked
  <2> QED
    BY <2>2, <2>3
<1>3. ASSUME NEW t \in Handlers PROVE RequestSound(task[t])'
  <2>1. PICK r \in RequestRecord : r = task[t] /\ r = task'[t] /\ RequestSound(r)
    BY <1>1 DEF OriginationTypeOK, Requests, SubmissionsOK
  <2>2. r.hash # None => r.hash \in Hashes
    BY <2>1 DEF RequestRecord
  <2>3. RequestSound(r)'
    BY <1>1, <2>1, <2>2 DEF RequestSound, Unasked
  <2> QED
    BY <2>1, <2>3
<1>4. AloneOK' /\ PairsOK'
  BY <1>1 DEF AloneOK, PairsOK, SubmissionsOK
<1> QED
  BY <1>2, <1>3, <1>4 DEF SubmissionsOK

LEMMA SoundFlush ==
    ASSUME OriginationTypeOK, SubmissionsOK, Flush
    PROVE  SubmissionsOK'
<1>1. /\ UNCHANGED <<tx, pending, records, payout, paid, logged, disbursement, task>>
      /\ stored'.records = records /\ stored'.logged = logged
      /\ stored'.disbursement = disbursement
  BY DEF Flush, Durable, network, book
<1>2. ASSUME NEW h \in Hashes PROVE TransactionSound(h)'
  <2>1. TransactionSound(h)
    BY DEF SubmissionsOK
  <2> QED
    BY <1>1, <2>1 DEF TransactionSound, OutcomeSound, Unasked
<1>3. ASSUME NEW t \in Handlers PROVE RequestSound(task[t])'
  <2>1. RequestSound(task[t])
    BY DEF SubmissionsOK
  <2> QED
    BY <1>1, <2>1 DEF RequestSound, Unasked
<1>4. AloneOK' /\ PairsOK'
  BY <1>1 DEF AloneOK, PairsOK, SubmissionsOK
<1> QED
  BY <1>2, <1>3, <1>4 DEF SubmissionsOK

\* A restart ends the requests, leaves nothing to submit, and what was stored is as
\* sound as what it replaces.
LEMMA SoundCrash ==
    ASSUME OriginationTypeOK, SubmissionsOK, Crash
    PROVE  SubmissionsOK'
<1>1. /\ UNCHANGED <<tx, payout, paid, stored>>
      /\ records' = stored.records /\ logged' = stored.logged
      /\ disbursement' = stored.disbursement
      /\ \A h \in Hashes : pending'[h] = 0
      /\ \A t \in Handlers : task'[t].hash = None
  BY DEF Crash, Idle, network
<1>2. ASSUME NEW h \in Hashes PROVE TransactionSound(h)'
  <2>1. TransactionSound(h)
    BY DEF SubmissionsOK
  <2> QED
    BY <1>1, <2>1 DEF TransactionSound, OutcomeSound
<1>3. \A t \in Handlers : RequestSound(task[t])'
  BY <1>1 DEF RequestSound
<1>4. AloneOK' /\ PairsOK'
  BY <1>1 DEF AloneOK, PairsOK, SubmissionsOK
<1> QED
  BY <1>2, <1>3, <1>4 DEF SubmissionsOK

LEMMA SoundElse ==
    ASSUME SubmissionsOK, (\E b \in Beneficiaries : HistoryMoves(b)) \/ TimePasses \/ UNCHANGED vars
    PROVE  SubmissionsOK'
<1>1. UNCHANGED <<tx, pending, records, payout, paid, logged, disbursement, stored, task>>
  BY DEF HistoryMoves, TimePasses, vars, network, book
<1>2. ASSUME NEW h \in Hashes PROVE TransactionSound(h)'
  BY <1>1 DEF SubmissionsOK, TransactionSound, OutcomeSound, Unasked
<1>3. ASSUME NEW t \in Handlers PROVE RequestSound(task[t])'
  BY <1>1 DEF SubmissionsOK, RequestSound, Unasked
<1>4. AloneOK' /\ PairsOK'
  BY <1>1 DEF AloneOK, PairsOK, SubmissionsOK
<1> QED
  BY <1>2, <1>3, <1>4 DEF SubmissionsOK

LEMMA SoundStart == Init => SubmissionsOK
<1> SUFFICES ASSUME Init PROVE SubmissionsOK
  OBVIOUS
<1>1. \A t \in Handlers : task[t].hash = None
  BY DEF Init, Idle
<1>2. \A h \in Hashes : /\ tx[h].state = "unbuilt" /\ pending[h] = 0 /\ records[h] = 0
                        /\ payout[h] = "none" /\ paid[h] = 0 /\ logged[h] = 0
                        /\ disbursement[h] = "none"
  BY DEF Init, Unbuilt
<1>3. /\ stored.records = records /\ stored.logged = logged
      /\ stored.disbursement = disbursement
  BY DEF Init
<1>4. \A h \in Hashes : TransactionSound(h)
  BY <1>2, <1>3 DEF TransactionSound, OutcomeSound
<1> QED
  BY <1>1, <1>2, <1>4 DEF SubmissionsOK, RequestSound, AloneOK, PairsOK

LEMMA SoundStep ==
    ASSUME Patient
    PROVE  OriginationTypeOK /\ SubmissionsOK /\ [Next]_vars => SubmissionsOK'
<1> SUFFICES ASSUME OriginationTypeOK, SubmissionsOK, [Next]_vars
             PROVE  SubmissionsOK'
  OBVIOUS
<1>1. CASE \E t \in Handlers : Request(t) \/ Continue(t)
  <2>1. PICK t \in Handlers : Request(t) \/ Continue(t)
    BY <1>1
  <2>2. CASE Request(t)
    BY <2>2, SoundPreparing, SoundSubmit DEF Request
  <2>3. CASE Continue(t)
    BY <2>3, SoundPreparing, SoundBuilt, SoundConfirmed, SoundRecorded, SoundDisbursed DEF Continue
  <2> QED
    BY <2>1, <2>2, <2>3
<1>2. CASE \E h \in Hashes : Lands(h)
  BY <1>2, SoundLanded
<1>3. CASE \E h \in Hashes : PartnerDecides(h)
  BY <1>3, SoundDecided
<1>4. CASE (\E b \in Beneficiaries : HistoryMoves(b)) \/ TimePasses \/ UNCHANGED vars
  BY <1>4, SoundElse
<1>5. CASE Flush
  BY <1>5, SoundFlush
<1>6. CASE Crash
  BY <1>6, SoundCrash
<1> QED
  BY <1>1, <1>2, <1>3, <1>4, <1>5, <1>6 DEF Next

\* A patient wallet's transactions are acted on once, and only when they landed, and
\* a pair has one loan, however many requests, failures and restarts there are.
THEOREM ActedOnce ==
    ASSUME Patient
    PROVE  Spec => []ActedOnOnce
<1>1. OriginationTypeOK /\ SubmissionsOK => ActedOnOnce
  <2> SUFFICES ASSUME OriginationTypeOK, SubmissionsOK PROVE ActedOnOnce
    OBVIOUS
  <2>1. ASSUME NEW h \in Hashes
        PROVE  /\ records[h] <= 1 /\ paid[h] <= 1 /\ logged[h] <= 1
               /\ records[h] + paid[h] + logged[h] > 0 => tx[h].state = "landed"
               /\ records[h] + paid[h] > 0 => tx[h].kind = "originate"
    <3>1. records[h] \in Nat /\ paid[h] \in Nat /\ logged[h] \in Nat /\ TransactionSound(h)
      BY DEF OriginationTypeOK, Counts, SubmissionsOK
    <3> QED
      BY <3>1 DEF TransactionSound
  <2>2. \A h \in Hashes : records[h] \in Nat /\ paid[h] \in Nat /\ logged[h] \in Nat
    BY DEF OriginationTypeOK, Counts
  <2> QED
    BY <2>1, <2>2 DEF ActedOnOnce, Landed, SubmissionsOK, PairsOK
<1> QED
  BY <1>1, SoundStart, SoundStep, OriginationTypesKept, PTL DEF Spec

\* While the process lives, a disbursement that was or may yet be made is awaited, or
\* on record as made or as unknown.
AwaitedOK ==
    crashes = 0 =>
        \A h \in Hashes :
            payout[h] \in {"asked", "paid"} =>
                \/ disbursement[h] \in {"completed", "unknown"}
                \/ \E t \in Handlers : task[t].hash = h /\ task[t].at = "disburse"

\* A step that asks for no payment, and ends no request that awaits one.
LEMMA AwaitedCarry ==
    ASSUME OriginationTypeOK, AwaitedOK, crashes' = crashes, UNCHANGED disbursement,
           \A h \in Hashes : payout'[h] \in {"asked", "paid"} => payout[h] \in {"asked", "paid"},
           \A t \in Handlers : task[t].at = "disburse" => task'[t] = task[t]
    PROVE  AwaitedOK'
  BY DEF AwaitedOK

LEMMA AwaitedAsked ==
    ASSUME OriginationTypeOK, AwaitedOK, NEW t \in Handlers, Recorded(t)
    PROVE  AwaitedOK'
<1>1. PICK h : h = task[t].hash
  OBVIOUS
<1>2. /\ UNCHANGED <<disbursement, crashes>>
      /\ \A k \in Hashes \ {h} : payout'[k] = payout[k]
  BY <1>1 DEF Recorded, rest, OriginationTypeOK
<1>3. /\ task[t].at = "readback"
      /\ \A u \in Handlers \ {t} : task'[u] = task[u]
      /\ task'[t].hash = h /\ task'[t].at = "disburse"
  BY <1>1 DEF Recorded, At, Awaits, OriginationTypeOK, Requests, RequestRecord
<1>4. \A u \in Handlers : task[u].at = "disburse" => task'[u] = task[u]
  BY <1>3
<1> QED
  BY <1>2, <1>3, <1>4 DEF AwaitedOK

LEMMA AwaitedAnswered ==
    ASSUME OriginationTypeOK, AwaitedOK, "drops" \notin PartnerFailures,
           NEW t \in Handlers, Disbursed(t)
    PROVE  AwaitedOK'
<1>1. PICK h : h = task[t].hash
  OBVIOUS
<1>2. UNCHANGED <<payout, crashes>>
  BY DEF Disbursed, network, rest
<1>3. \A u \in Handlers \ {t} : task'[u] = task[u]
  BY DEF Disbursed, Answers, Finish, OriginationTypeOK
<1>4. PICK outcome : /\ Outcome(h, outcome)
                     /\ outcome \in {"completed", "unknown"} \/ payout[h] = "refused"
  BY <1>1 DEF Disbursed
<1>5. ASSUME NEW k \in Hashes, payout[k] \in {"asked", "paid"}, crashes = 0
      PROVE  \/ disbursement'[k] \in {"completed", "unknown"}
             \/ \E u \in Handlers : task'[u].hash = k /\ task'[u].at = "disburse"
  <2>1. CASE k = h
    BY <1>4, <1>5, <2>1 DEF Outcome, OriginationTypeOK
  <2>2. CASE k # h
    <3>1. disbursement'[k] = disbursement[k]
      BY <1>4, <2>2 DEF Outcome, OriginationTypeOK
    <3>2. \A u \in Handlers : task[u].hash = k => u # t
      BY <1>1, <2>2
    <3> QED
      BY <1>3, <1>5, <3>1, <3>2 DEF AwaitedOK
  <2> QED
    BY <2>1, <2>2
<1> QED
  BY <1>2, <1>5 DEF AwaitedOK

\* No other step of a request has to do with the partner.
LEMMA AwaitedElsewhere ==
    ASSUME OriginationTypeOK, AwaitedOK, NEW t \in Handlers,
           \/ Request(t) \/ Quoted(t) \/ Required(t) \/ Published(t) \/ Built(t)
           \/ PrepareFails(t) \/ NotConfirmed(t) \/ Confirmed(t) \/ Unreadable(t)
    PROVE  AwaitedOK'
<1> SUFFICES /\ UNCHANGED <<disbursement, payout, crashes>>
             /\ task[t].at # "disburse"
             /\ \A u \in Handlers \ {t} : task'[u] = task[u]
  BY AwaitedCarry
<1>1. CASE Request(t)
  <2>1. UNCHANGED <<disbursement, payout, crashes>> /\ task[t] = Idle
    BY <1>1 DEF Request, PrepareLoan, PrepareVault, Submit, network, book, rest
  <2>2. \A u \in Handlers \ {t} : task'[u] = task[u]
    BY <1>1 DEF Request, PrepareLoan, PrepareVault, Submit, OriginationTypeOK
  <2> QED
    BY <2>1, <2>2 DEF Idle
<1>2. CASE Quoted(t) \/ Required(t) \/ Published(t) \/ PrepareFails(t)
  <2>1. UNCHANGED <<disbursement, payout, crashes>> /\ task[t].at # "disburse"
    BY <1>2 DEF Quoted, Required, Published, PrepareFails, At, network, book, rest
  <2>2. \A u \in Handlers \ {t} : task'[u] = task[u]
    BY <1>2 DEF Quoted, Required, Published, PrepareFails, Awaits, Finish, OriginationTypeOK
  <2> QED
    BY <2>1, <2>2
<1>3. CASE Built(t)
  BY <1>3 DEF Built, At, Finish, rest, OriginationTypeOK
<1>4. CASE NotConfirmed(t) \/ Confirmed(t) \/ Unreadable(t)
  <2>1. UNCHANGED <<disbursement, payout, crashes>> /\ task[t].at # "disburse"
    BY <1>4 DEF NotConfirmed, Confirmed, Unreadable, At, network, book, rest
  <2>2. \A u \in Handlers \ {t} : task'[u] = task[u]
    BY <1>4 DEF NotConfirmed, Confirmed, Unreadable, Answers, Awaits, Finish, OriginationTypeOK
  <2> QED
    BY <2>1, <2>2
<1> QED
  BY <1>1, <1>2, <1>3, <1>4

LEMMA AwaitedStep ==
    ASSUME "drops" \notin PartnerFailures
    PROVE  OriginationTypeOK /\ AwaitedOK /\ [Next]_vars => AwaitedOK'
<1> SUFFICES ASSUME OriginationTypeOK, AwaitedOK, [Next]_vars
             PROVE  AwaitedOK'
  OBVIOUS
<1>1. CASE \E t \in Handlers : Request(t) \/ Continue(t)
  <2>1. PICK t \in Handlers : Request(t) \/ Continue(t)
    BY <1>1
  <2>2. CASE Recorded(t)
    BY <2>2, AwaitedAsked
  <2>3. CASE Disbursed(t)
    BY <2>3, AwaitedAnswered
  <2>4. CASE \/ Request(t) \/ Quoted(t) \/ Required(t) \/ Published(t) \/ Built(t)
             \/ PrepareFails(t) \/ NotConfirmed(t) \/ Confirmed(t) \/ Unreadable(t)
    BY <2>4, AwaitedElsewhere
  <2> QED
    BY <2>1, <2>2, <2>3, <2>4 DEF Continue
<1>2. CASE \E h \in Hashes : Lands(h)
  BY <1>2, AwaitedCarry DEF Lands, book, rest
<1>3. CASE \E h \in Hashes : PartnerDecides(h)
  <2>1. PICK h \in Hashes : PartnerDecides(h)
    BY <1>3
  <2>2. /\ UNCHANGED <<disbursement, crashes, task>>
        /\ \A k \in Hashes : payout'[k] \in {"asked", "paid"} => payout[k] \in {"asked", "paid"}
    BY <2>1 DEF PartnerDecides, book, rest, OriginationTypeOK
  <2> QED
    BY <2>2, AwaitedCarry
<1>4. CASE \/ (\E b \in Beneficiaries : HistoryMoves(b)) \/ TimePasses \/ Flush
           \/ UNCHANGED vars
  <2>1. UNCHANGED <<disbursement, payout, crashes, task>>
    BY <1>4 DEF HistoryMoves, TimePasses, Flush, vars, network, book, rest
  <2> QED
    BY <2>1, AwaitedCarry
<1>5. CASE Crash
  BY <1>5 DEF Crash, AwaitedOK, OriginationTypeOK
<1> QED
  BY <1>1, <1>2, <1>3, <1>4, <1>5 DEF Next

\* With a partner whose connection does not drop, a disbursement on record as failed
\* was not paid and never will be, whatever resolves without success or comes late
\* and wherever the process dies; and while it lives, one that was or may yet be
\* paid is awaited or on record as made or unknown.
THEOREM OutcomesKnown ==
    ASSUME Patient, "drops" \notin PartnerFailures
    PROVE  Spec => []OutcomeKnown
<1>1. SubmissionsOK /\ AwaitedOK => OutcomeKnown
  <2> SUFFICES ASSUME SubmissionsOK, AwaitedOK, NEW h \in Hashes
               PROVE  /\ disbursement[h] = "failed" => paid[h] = 0
                      /\ crashes = 0 /\ payout[h] \in {"asked", "paid"} =>
                           \/ disbursement[h] \in {"completed", "unknown"}
                           \/ \E t \in Handlers : task[t].hash = h /\ At(t, "disburse")
    BY DEF OutcomeKnown
  <2>1. TransactionSound(h)
    BY DEF SubmissionsOK
  <2> QED
    BY <2>1 DEF TransactionSound, OutcomeSound, AwaitedOK, At
<1>2. Init => AwaitedOK
  BY DEF Init, AwaitedOK
<1> QED
  BY <1>1, <1>2, AwaitedStep, SoundStart, SoundStep, OriginationTypesKept, PTL DEF Spec

-----------------------------------------------------------------------------
(* What has landed is not lost                                             *)

\* A loan whose guarantor was told it could not be read is not submitted again.
GivenUp(h) ==
    told[h] = "unreadable" =>
        /\ tx[h].state # "unbuilt" /\ pending[h] = 0
        /\ \A t \in Handlers : task[t].hash # h

\* Until it is recorded, a loan waits or is being read back.
Kept(h) ==
    /\ crashes = 0 /\ now < tx[h].until
    /\ tx[h].state # "unbuilt" /\ tx[h].kind = "originate" /\ records[h] = 0
    => \/ pending[h] = tx[h].until
       \/ \E t \in Handlers : task[t].hash = h /\ task[t].at = "readback"
       \/ told[h] = "unreadable"

KeptOK == \A h \in Hashes : GivenUp(h) /\ Kept(h)

\* A step that leaves h alone, but may be some other request's.
LEMMA KeptElsewhere ==
    ASSUME NEW h \in Hashes, GivenUp(h), Kept(h),
           tx'[h].until = tx[h].until, tx'[h].kind = tx[h].kind,
           tx'[h].state = "unbuilt" <=> tx[h].state = "unbuilt",
           pending'[h] = pending[h] \/ (pending[h] <= now /\ pending'[h] = 0),
           records'[h] = records[h], told'[h] = told[h], crashes' = crashes,
           \A t \in Handlers : task'[t] = task[t] \/ (task[t].hash # h /\ task'[t].hash # h),
           now' = now, now \in Nat, tx[h].until \in Nat
    PROVE  GivenUp(h)' /\ Kept(h)'
<1>1. GivenUp(h)'
  <2>1. told'[h] = "unreadable" => pending[h] = 0
    BY DEF GivenUp
  <2> QED
    BY <2>1 DEF GivenUp
<1>2. Kept(h)'
  <2> SUFFICES ASSUME crashes = 0, now < tx[h].until, tx[h].state # "unbuilt",
                      tx[h].kind = "originate", records[h] = 0
               PROVE  \/ pending'[h] = tx[h].until
                      \/ \E t \in Handlers : task'[t].hash = h /\ task'[t].at = "readback"
                      \/ told[h] = "unreadable"
    BY DEF Kept
  <2>1. CASE pending[h] = tx[h].until
    BY <2>1
  <2>2. CASE \E t \in Handlers : task[t].hash = h /\ task[t].at = "readback"
    BY <2>2
  <2> QED
    BY <2>1, <2>2 DEF Kept
<1> QED
  BY <1>1, <1>2

\* The clock moves on, nothing else: what is kept until later is kept until sooner.
LEMMA KeptWaiting ==
    ASSUME OriginationTypeOK, KeptOK, now' \in Nat, now <= now',
           UNCHANGED <<tx, pending, records, told, task, crashes>>
    PROVE  KeptOK'
<1> SUFFICES ASSUME NEW h \in Hashes PROVE GivenUp(h)' /\ Kept(h)'
  BY DEF KeptOK
<1>1. tx[h].until \in Nat /\ now \in Nat /\ GivenUp(h) /\ Kept(h)
  BY DEF OriginationTypeOK, Transactions, Transaction, KeptOK
<1>2. now' < tx[h].until => now < tx[h].until
  BY <1>1
<1>3. GivenUp(h)'
  BY <1>1 DEF GivenUp
<1>4. Kept(h)'
  BY <1>1, <1>2 DEF Kept
<1> QED
  BY <1>3, <1>4

\* Preparing leaves every transaction alone but the one it builds.
LEMMA KeptPreparing ==
    ASSUME OriginationTypeOK, SubmissionsOK, KeptOK, NEW t \in Handlers,
           \/ \E g \in Guarantors, b \in Beneficiaries : PrepareLoan(t, g, b)
           \/ \E g \in Guarantors, kind \in Kinds \ {"originate"} : PrepareVault(t, g, kind)
           \/ Quoted(t) \/ Required(t) \/ Published(t) \/ PrepareFails(t)
    PROVE  KeptOK'
<1>1. UNCHANGED <<tx, pending, records, told, now, crashes>>
  BY DEF PrepareLoan, PrepareVault, Quoted, Required, Published, PrepareFails, network, book, rest
<1>2. task \in [Handlers -> RequestRecord] /\ task[t] \in Requests /\ task[t] \in RequestRecord
  BY DEF OriginationTypeOK, Requests
<1>3. task[t].hash = None
  <2>1. task[t] = Idle \/ task[t].at \in Preparing
    BY DEF PrepareLoan, PrepareVault, Quoted, Required, Published, PrepareFails, At, Preparing
  <2>2. Idle.hash = None
    BY DEF Idle
  <2> QED
    BY <1>2, <2>1, <2>2 DEF Requests, Preparing, Submitting
<1>4. /\ \A u \in Handlers \ {t} : task'[u] = task[u]
      /\ task'[t].hash = None
  <2>1. CASE \E g \in Guarantors, b \in Beneficiaries : PrepareLoan(t, g, b)
    BY <1>2, <2>1 DEF PrepareLoan, Idle
  <2>2. CASE \E g \in Guarantors, kind \in Kinds \ {"originate"} : PrepareVault(t, g, kind)
    BY <1>2, <2>2 DEF PrepareVault, Idle
  <2>3. CASE Quoted(t)
    BY <1>2, <1>3, <2>3 DEF Quoted, At, RequestRecord, Preparing
  <2>4. CASE Required(t) \/ Published(t)
    BY <1>2, <1>3, <2>4 DEF Required, Published, Awaits, At, RequestRecord, Preparing
  <2>5. CASE PrepareFails(t)
    BY <1>2, <1>3, <2>5 DEF PrepareFails, Finish, Idle, Preparing
  <2> QED
    BY <2>1, <2>2, <2>3, <2>4, <2>5
<1>5. ASSUME NEW h \in Hashes PROVE GivenUp(h)' /\ Kept(h)'
  <2>1. GivenUp(h) /\ Kept(h) /\ now \in Nat /\ tx[h].until \in Nat /\ h # None
    BY OriginationAssumption DEF KeptOK, OriginationTypeOK, Transactions, Transaction
  <2>2. \A u \in Handlers : task'[u] = task[u] \/ (task[u].hash # h /\ task'[u].hash # h)
    BY <1>3, <1>4, <2>1
  <2> QED
    BY <1>1, <2>1, <2>2, KeptElsewhere
<1> QED
  BY <1>5 DEF KeptOK

LEMMA KeptBuilt ==
    ASSUME OriginationTypeOK, SubmissionsOK, KeptOK, NEW t \in Handlers, Built(t)
    PROVE  KeptOK'
<1>1. UNCHANGED <<records, told, now, crashes>>
  BY DEF Built, rest
<1>2. /\ \A u \in Handlers \ {t} : task'[u] = task[u]
      /\ task[t].hash = None /\ task'[t].hash = None
  <2>1. task[t] \in Requests /\ task[t].at = "build"
    BY DEF Built, At, OriginationTypeOK
  <2> QED
    BY <2>1 DEF Built, Finish, Idle, OriginationTypeOK, Requests, Submitting
<1>3. ASSUME NEW h \in Hashes PROVE GivenUp(h)' /\ Kept(h)'
  <2>1. GivenUp(h) /\ Kept(h) /\ now \in Nat /\ tx[h].until \in Nat /\ h # None
    BY OriginationAssumption DEF KeptOK, OriginationTypeOK, Transactions, Transaction
  <2>2. \A u \in Handlers : task'[u] = task[u] \/ (task[u].hash # h /\ task'[u].hash # h)
    BY <1>2, <2>1
  <2>3. CASE tx'[h] = tx[h] /\ (pending'[h] = pending[h] \/ (pending[h] <= now /\ pending'[h] = 0))
    BY <1>1, <2>1, <2>2, <2>3, KeptElsewhere
  <2>4. CASE /\ tx[h] = Unbuilt
             /\ pending'[h] = now + Window /\ tx'[h].until = now + Window
    <3>1. told'[h] # "unreadable"
      BY <1>1, <2>1, <2>4 DEF GivenUp, Unbuilt
    <3> QED
      BY <2>4, <3>1 DEF GivenUp, Kept
  <2>5. CASE UNCHANGED <<tx, pending>>
    BY <2>3, <2>5
  <2>6. CASE ~UNCHANGED <<tx, pending>>
    <3>1. PICK k \in Hashes :
             /\ tx[k] = Unbuilt
             /\ tx' = [tx EXCEPT ![k] = BuiltFor(task[t])]
             /\ Remember(k, now + Window)
      BY <2>6 DEF Built, BuiltFor
    <3>2. h # k => tx'[h] = tx[h]
      BY <3>1 DEF OriginationTypeOK
    <3>3. h = k => tx'[h].until = now + Window
      BY <3>1 DEF BuiltFor, Unbuilt, OriginationTypeOK
    <3> QED
      BY <2>3, <2>4, <3>1, <3>2, <3>3 DEF Remember
  <2> QED
    BY <2>5, <2>6
<1> QED
  BY <1>3 DEF KeptOK

LEMMA KeptLanded ==
    ASSUME OriginationTypeOK, KeptOK, NEW k \in Hashes, Lands(k)
    PROVE  KeptOK'
<1>1. UNCHANGED <<pending, records, told, task, now, crashes>>
  BY DEF Lands, book, rest
<1>2. ASSUME NEW h \in Hashes PROVE GivenUp(h)' /\ Kept(h)'
  <2>1. GivenUp(h) /\ Kept(h) /\ now \in Nat /\ tx[h].until \in Nat
    BY DEF KeptOK, OriginationTypeOK, Transactions, Transaction
  <2>2. /\ tx'[h].until = tx[h].until /\ tx'[h].kind = tx[h].kind
        /\ tx'[h].state = "unbuilt" <=> tx[h].state = "unbuilt"
    <3>1. tx[h] \in Transaction /\ tx[k] \in Transaction
      BY DEF OriginationTypeOK, Transactions
    <3>2. CASE tx' = [tx EXCEPT ![k].state = "refused"]
      BY <3>1, <3>2 DEF Lands, Transaction, OriginationTypeOK
    <3>3. CASE \E locks : tx' = [tx EXCEPT ![k].state = "landed", ![k].locked = locks]
      BY <3>1, <3>3 DEF Lands, Transaction, OriginationTypeOK
    <3> QED
      BY <3>2, <3>3 DEF Lands
  <2> QED
    BY <1>1, <2>1, <2>2, KeptElsewhere
<1> QED
  BY <1>2 DEF KeptOK

\* A step of request t about h leaves every other transaction where it was.
LEMMA KeptCarry ==
    ASSUME OriginationTypeOK, KeptOK, NEW t \in Handlers, NEW h \in Hashes,
           UNCHANGED <<tx, now, crashes>>,
           \A k \in Hashes \ {h} : /\ pending'[k] = pending[k] /\ records'[k] = records[k]
                                  /\ told'[k] = told[k],
           \A u \in Handlers \ {t} : task'[u] = task[u],
           task[t].hash \in {h, None}, task'[t].hash \in {h, None},
           GivenUp(h)', Kept(h)'
    PROVE  KeptOK'
<1>1. ASSUME NEW k \in Hashes \ {h} PROVE GivenUp(k)' /\ Kept(k)'
  <2>1. GivenUp(k) /\ Kept(k) /\ now \in Nat /\ tx[k].until \in Nat /\ k # None
    BY OriginationAssumption DEF KeptOK, OriginationTypeOK, Transactions, Transaction
  <2>2. \A u \in Handlers : task'[u] = task[u] \/ (task[u].hash # k /\ task'[u].hash # k)
    BY <2>1
  <2>3. pending'[k] = pending[k] /\ records'[k] = records[k] /\ told'[k] = told[k]
    OBVIOUS
  <2> QED
    BY <2>1, <2>2, <2>3, KeptElsewhere
<1> QED
  BY <1>1 DEF KeptOK

LEMMA KeptSubmit ==
    ASSUME OriginationTypeOK, KeptOK, NEW t \in Handlers,
           NEW h \in Hashes, NEW g, NEW kind, Submit(t, h, g, kind)
    PROVE  KeptOK'
<1>1. /\ UNCHANGED <<tx, pending, records, told, now, crashes>>
      /\ task[t].hash = None /\ task'[t].hash = h
      /\ \A u \in Handlers \ {t} : task'[u] = task[u]
  BY DEF Submit, Idle, network, book, rest, OriginationTypeOK
<1>2. GivenUp(h) /\ Kept(h) /\ pending[h] # 0 /\ h # None
  BY OriginationAssumption DEF KeptOK, Submit, PendingFor, OriginationTypeOK, Counts
<1>3. GivenUp(h)'
  BY <1>1, <1>2 DEF GivenUp
<1>4. Kept(h)'
  BY <1>1, <1>2 DEF Kept
<1> QED
  BY <1>1, <1>3, <1>4, KeptCarry

\* The poll gives no success: the transaction still waits.
LEMMA KeptNotConfirmed ==
    ASSUME OriginationTypeOK, SubmissionsOK, KeptOK, NEW t \in Handlers, NotConfirmed(t)
    PROVE  KeptOK'
<1>1. PICK h : h = task[t].hash
  OBVIOUS
<1>2. h \in Hashes /\ h # None /\ GivenUp(h) /\ Kept(h)
  BY <1>1, HashIsOwn DEF NotConfirmed, At, Submitting, KeptOK
<1>3. /\ UNCHANGED <<tx, pending, records, now, crashes>>
      /\ task[t].at = "send" /\ task'[t].hash = None
      /\ \A u \in Handlers \ {t} : task'[u] = task[u]
      /\ told'[h] # "unreadable" /\ \A k \in Hashes \ {h} : told'[k] = told[k]
  BY <1>1, <1>2 DEF NotConfirmed, At, Answers, Finish, Idle, network, book, rest, OriginationTypeOK
<1>4. GivenUp(h)'
  BY <1>3 DEF GivenUp
<1>5. Kept(h)'
  <2>1. told[h] # "unreadable"
    BY <1>1, <1>2 DEF GivenUp
  <2> QED
    BY <1>2, <1>3, <2>1 DEF Kept
<1> QED
  BY <1>1, <1>2, <1>3, <1>4, <1>5, KeptCarry

\* It landed: it waits no more, and a loan is being read back instead.
LEMMA KeptConfirmed ==
    ASSUME OriginationTypeOK, SubmissionsOK, KeptOK, NEW t \in Handlers, Confirmed(t)
    PROVE  KeptOK'
<1>1. PICK h : h = task[t].hash
  OBVIOUS
<1>2. /\ h \in Hashes /\ h # None /\ GivenUp(h) /\ Kept(h) /\ RequestSound(task[t])
      /\ \A u \in Handlers \ {t} : task[u].hash # h
  BY <1>1, HashIsOwn DEF Confirmed, At, Submitting, KeptOK
<1>3. told[h] # "unreadable"
  BY <1>1, <1>2 DEF GivenUp
<1>4. /\ UNCHANGED <<tx, records, now, crashes>>
      /\ \A k \in Hashes \ {h} : pending'[k] = pending[k]
  BY <1>1, <1>2 DEF Confirmed, Forget, network, rest, OriginationTypeOK, Counts
<1>5. tx[h].kind = task[t].kind
  BY <1>1, <1>2 DEF RequestSound
<1>6. CASE task[t].kind = "originate" /\ Awaits(t, "readback") /\ UNCHANGED told
  <2>1. /\ task'[t].hash = h /\ task'[t].at = "readback"
        /\ \A u \in Handlers \ {t} : task'[u] = task[u]
    BY <1>1, <1>6 DEF Awaits, OriginationTypeOK, Requests, RequestRecord
  <2>2. GivenUp(h)' /\ Kept(h)'
    BY <1>3, <1>6, <2>1 DEF GivenUp, Kept
  <2> QED
    BY <1>1, <1>2, <1>4, <1>6, <2>1, <2>2, KeptCarry
<1>7. CASE task[t].kind # "originate" /\ Answers(t, "done")
  <2>1. /\ task'[t].hash = None /\ \A u \in Handlers \ {t} : task'[u] = task[u]
        /\ told'[h] = "done" /\ \A k \in Hashes \ {h} : told'[k] = told[k]
    BY <1>1, <1>2, <1>7 DEF Answers, Finish, Idle, OriginationTypeOK
  <2>2. GivenUp(h)' /\ Kept(h)'
    BY <1>4, <1>5, <1>7, <2>1 DEF GivenUp, Kept
  <2> QED
    BY <1>1, <1>2, <1>4, <2>1, <2>2, KeptCarry
<1> QED
  BY <1>6, <1>7 DEF Confirmed

\* It is read back and recorded, or its guarantor is told that it could not be.
LEMMA KeptReadback ==
    ASSUME OriginationTypeOK, SubmissionsOK, KeptOK, NEW t \in Handlers,
           Recorded(t) \/ Unreadable(t)
    PROVE  KeptOK'
<1>1. PICK h : h = task[t].hash
  OBVIOUS
<1>2. /\ h \in Hashes /\ h # None /\ GivenUp(h) /\ Kept(h) /\ RequestSound(task[t])
      /\ \A u \in Handlers \ {t} : task[u].hash # h
      /\ task[t].at = "readback"
  BY <1>1, HashIsOwn DEF Recorded, Unreadable, At, Submitting, KeptOK
<1>3. told[h] # "unreadable" /\ pending[h] = 0 /\ tx[h].state = "landed"
  BY <1>1, <1>2 DEF GivenUp, RequestSound
<1>4. UNCHANGED <<tx, pending, now, crashes>>
  BY DEF Recorded, Unreadable, network, book, rest
<1>5. CASE Recorded(t)
  <2>1. /\ records'[h] # 0 /\ \A k \in Hashes \ {h} : records'[k] = records[k]
        /\ UNCHANGED told
    BY <1>1, <1>2, <1>5 DEF Recorded, OriginationTypeOK, Counts
  <2>2. /\ task'[t].hash = h /\ \A u \in Handlers \ {t} : task'[u] = task[u]
    BY <1>1, <1>5 DEF Recorded, Awaits, OriginationTypeOK, Requests, RequestRecord
  <2>3. GivenUp(h)' /\ Kept(h)'
    BY <1>3, <2>1 DEF GivenUp, Kept
  <2> QED
    BY <1>1, <1>2, <1>4, <2>1, <2>2, <2>3, KeptCarry
<1>6. CASE Unreadable(t)
  <2>1. /\ task'[t].hash = None /\ \A u \in Handlers \ {t} : task'[u] = task[u]
        /\ told'[h] = "unreadable" /\ \A k \in Hashes \ {h} : told'[k] = told[k]
        /\ UNCHANGED records
    BY <1>1, <1>2, <1>6 DEF Unreadable, Answers, Finish, Idle, book, OriginationTypeOK
  <2>2. \A u \in Handlers : task'[u].hash # h
    BY <1>2, <2>1
  <2>3. GivenUp(h)' /\ Kept(h)'
    BY <1>3, <1>4, <2>1, <2>2 DEF GivenUp, Kept
  <2> QED
    BY <1>1, <1>2, <1>4, <2>1, <2>3, KeptCarry
<1> QED
  BY <1>5, <1>6

LEMMA KeptDisbursed ==
    ASSUME OriginationTypeOK, SubmissionsOK, KeptOK, NEW t \in Handlers, Disbursed(t)
    PROVE  KeptOK'
<1>1. PICK h : h = task[t].hash
  OBVIOUS
<1>2. /\ h \in Hashes /\ h # None /\ GivenUp(h) /\ Kept(h)
      /\ \A u \in Handlers \ {t} : task[u].hash # h
      /\ task[t].at = "disburse"
  BY <1>1, HashIsOwn DEF Disbursed, At, Submitting, KeptOK
<1>3. told[h] # "unreadable"
  BY <1>1, <1>2 DEF GivenUp
<1>4. /\ UNCHANGED <<tx, pending, records, now, crashes>>
      /\ task'[t].hash = None /\ \A u \in Handlers \ {t} : task'[u] = task[u]
      /\ told'[h] = "done" /\ \A k \in Hashes \ {h} : told'[k] = told[k]
  BY <1>1, <1>2 DEF Disbursed, Answers, Finish, Idle, network, rest, OriginationTypeOK
<1>5. ~ \E u \in Handlers : task[u].hash = h /\ task[u].at = "readback"
  BY <1>1, <1>2
<1>6. GivenUp(h)' /\ Kept(h)'
  BY <1>2, <1>3, <1>4, <1>5 DEF GivenUp, Kept
<1> QED
  BY <1>1, <1>2, <1>4, <1>6, KeptCarry

\* A restart loses what waited and what was being recorded; from then on nothing is
\* claimed of it, but that what was given up stays given up.
LEMMA KeptRest ==
    ASSUME OriginationTypeOK, OriginationTypeOK', KeptOK,
           \/ \E h \in Hashes : PartnerDecides(h)
           \/ (\E b \in Beneficiaries : HistoryMoves(b)) \/ TimePasses \/ Flush \/ Crash
           \/ UNCHANGED vars
    PROVE  KeptOK'
<1>1. CASE \/ \E h \in Hashes : PartnerDecides(h)
           \/ (\E b \in Beneficiaries : HistoryMoves(b)) \/ TimePasses \/ Flush
           \/ UNCHANGED vars
  <2>1. UNCHANGED <<tx, pending, records, told, task, crashes>> /\ (now' = now \/ now' = now + 1)
    BY <1>1 DEF PartnerDecides, HistoryMoves, TimePasses, Flush, vars, network, book, rest
  <2>2. now' \in Nat /\ now <= now'
    BY <2>1 DEF OriginationTypeOK
  <2> QED
    BY <2>1, <2>2, KeptWaiting
<1>2. CASE Crash
  <2>1. crashes' # 0
    BY <1>2 DEF Crash, OriginationTypeOK
  <2>2. /\ UNCHANGED <<tx, told>> /\ \A h \in Hashes : pending'[h] = 0
        /\ \A t \in Handlers : task'[t].hash = None
    BY <1>2 DEF Crash, Idle, network
  <2>3. None \notin Hashes
    BY OriginationAssumption
  <2> QED
    BY <2>1, <2>2, <2>3 DEF KeptOK, GivenUp, Kept
<1> QED
  BY <1>1, <1>2

LEMMA KeptStart == Init => KeptOK
<1> SUFFICES ASSUME Init PROVE KeptOK
  OBVIOUS
<1>1. \A h \in Hashes : told[h] = "nothing" /\ tx[h].state = "unbuilt"
  BY DEF Init, Unbuilt
<1> QED
  BY <1>1 DEF KeptOK, GivenUp, Kept

LEMMA KeptStep ==
    OriginationTypeOK /\ OriginationTypeOK' /\ SubmissionsOK /\ KeptOK /\ [Next]_vars => KeptOK'
<1> SUFFICES ASSUME OriginationTypeOK, OriginationTypeOK', SubmissionsOK, KeptOK, [Next]_vars
             PROVE  KeptOK'
  OBVIOUS
<1>1. CASE \E t \in Handlers : Request(t) \/ Continue(t)
  <2>1. PICK t \in Handlers : Request(t) \/ Continue(t)
    BY <1>1
  <2>2. CASE Request(t)
    BY <2>2, KeptPreparing, KeptSubmit DEF Request
  <2>3. CASE Continue(t)
    BY <2>3, KeptPreparing, KeptBuilt, KeptNotConfirmed, KeptConfirmed, KeptReadback,
       KeptDisbursed DEF Continue
  <2> QED
    BY <2>1, <2>2, <2>3
<1>2. CASE \E h \in Hashes : Lands(h)
  BY <1>2, KeptLanded
<1>3. CASE \/ \E h \in Hashes : PartnerDecides(h)
           \/ (\E b \in Beneficiaries : HistoryMoves(b)) \/ TimePasses \/ Flush \/ Crash
           \/ UNCHANGED vars
  BY <1>3, KeptRest
<1> QED
  BY <1>1, <1>2, <1>3 DEF Next

\* As long as the process lives and the window lasts, a patient wallet can submit a
\* loan that landed again until it is recorded, or was told that it is not to be.
THEOREM Recoverable ==
    ASSUME Patient
    PROVE  Spec => []LandedIsRecoverable
<1>1. OriginationTypeOK /\ KeptOK => LandedIsRecoverable
  <2> SUFFICES ASSUME OriginationTypeOK, KeptOK, NEW h \in Landed,
                      crashes = 0, now < tx[h].until,
                      tx[h].kind = "originate", records[h] = 0
               PROVE  \/ PendingFor(h, tx[h].owner, "originate")
                      \/ \E t \in Handlers : task[t].hash = h
                      \/ told[h] = "unreadable"
    BY DEF LandedIsRecoverable
  <2>1. h \in Hashes /\ tx[h].state = "landed" /\ tx[h].until \in Nat /\ now \in Nat
    BY DEF Landed, OriginationTypeOK, Transactions, Transaction
  <2>2. \/ pending[h] = tx[h].until
        \/ \E t \in Handlers : task[t].hash = h /\ task[t].at = "readback"
        \/ told[h] = "unreadable"
    BY <2>1 DEF KeptOK, Kept
  <2> QED
    BY <2>1, <2>2 DEF PendingFor
<1> QED
  BY <1>1, KeptStart, KeptStep, SoundStart, SoundStep, OriginationTypesKept, PTL DEF Spec
=============================================================================
