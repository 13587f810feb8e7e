------------------------- MODULE ChainLoans_proofs -------------------------
(***************************************************************************)
(* What the backend's copy of a loan on chain never does, for any loans,   *)
(* handlers and number of installments, and however calls fail, cross, or  *)
(* are cut off by a restart.                                               *)
(*                                                                         *)
(* The argument: the ledger only moves forward (Follows), so a read, once  *)
(* answered, is a past of the ledger whenever it is used, and a copy that  *)
(* is behind a past of the ledger is behind the ledger.                    *)
(***************************************************************************)
EXTENDS ChainLoansProperties, FiniteSetTheorems, TLAPS

\* What the contract's loans have in common.
Shape(ln) ==
    /\ IsOpen(ln) => ln.paid < Count /\ ln.released = ln.paid
    /\ ln.status = "repaid" => ln.paid = Count

Follows(old, new) ==
    /\ old.paid <= new.paid
    /\ old.released <= new.released
    /\ ~IsOpen(old) => new.status = old.status

\* What a suspended handler may count on when its call returns, with the ledger
\* at lg by then.
TaskOK(tk, lg) ==
    /\ tk.at # "idle" => tk.loan \in LoanIds
    /\ tk.loan \in LoanIds => Shape(tk.seen) /\ Follows(tk.seen, lg[tk.loan])
    /\ tk.at \in {"read", "attest"} => tk.n \in Installments
    /\ tk.at = "attest" =>
         /\ tk.n <= lg[tk.loan].paid + 1
         /\ tk.reply = "ok" => tk.n <= lg[tk.loan].paid
    /\ tk.at = "liquidate" /\ tk.reply = "ok" => lg[tk.loan].status = "defaulted"
    /\ tk.at = "liquidated" => lg[tk.loan].status = "defaulted"

LedgerOK == ledger \in [LoanIds -> LedgerLoan] /\ \A l \in LoanIds : Shape(ledger[l])

TasksOK == task \in [Tasks -> TaskRecord] /\ \A t \in Tasks : TaskOK(task[t], ledger)

CopiesOK ==
    /\ copy \in [LoanIds -> CopyLoan] /\ attested \in AttestationCount
    /\ \A l \in LoanIds : Behind(copy[l], ledger[l])
    /\ RecordedIsCounted

StoredOK ==
    /\ stored \in [copy : [LoanIds -> CopyLoan], attested : AttestationCount]
    /\ \A l \in LoanIds : Behind(stored.copy[l], ledger[l])
    /\ \A l \in LoanIds, i \in Installments : stored.attested[l][i] > 0 => i <= ledger[l].paid

RestOK ==
    /\ adrift \in [LoanIds -> Nat] /\ asked \in [LoanIds -> SUBSET Installments]
    /\ now \in Nat /\ crashes \in Nat

ChainInv == LedgerOK /\ TasksOK /\ CopiesOK /\ StoredOK /\ RestOK

-----------------------------------------------------------------------------
(* The ledger moves forward                                                *)

\* A call the contract accepts leaves a loan it may have, further on.
LEMMA AfterFollows ==
    ASSUME NEW ln \in LedgerLoan, Shape(ln), NEW kind \in Transactions, NEW cured \in BOOLEAN,
           Allowed(kind, ln), now \in Nat
    PROVE  /\ After(kind, ln, cured) \in LedgerLoan
           /\ Shape(After(kind, ln, cured))
           /\ Follows(ln, After(kind, ln, cured))
           /\ kind = "attest" => After(kind, ln, cured).paid = ln.paid + 1
           /\ kind = "liquidate" => After(kind, ln, cured).status = "defaulted"
<1>0. PICK new : new = After(kind, ln, cured)
  OBVIOUS
<1>1. ASSUME kind = "attest"
      PROVE  new \in LedgerLoan /\ Shape(new) /\ Follows(ln, new) /\ new.paid = ln.paid + 1
  <2>1. new = Repaid(ln, cured) /\ IsOpen(ln)
    BY <1>0, <1>1 DEF After, Allowed
  <2>2. /\ new.paid = ln.paid + 1
        /\ new.released = IF new.paid = Count THEN Locked ELSE new.paid
        /\ new.status = IF new.paid = Count THEN "repaid" ELSE IF cured THEN "active" ELSE ln.status
        /\ new.graceEnds = IF cured THEN NoDeadline ELSE ln.graceEnds
    BY <2>1 DEF Repaid, LedgerLoan
  <2>3. new = [status |-> new.status, paid |-> new.paid, released |-> new.released,
               graceEnds |-> new.graceEnds]
    BY <2>1 DEF Repaid, LedgerLoan
  <2>4. /\ new.paid \in 0 .. Count /\ new.released \in 0 .. Locked
        /\ new.status \in {"active", "grace", "repaid", "defaulted"}
        /\ new.graceEnds \in Nat \cup {NoDeadline}
    BY <2>1, <2>2, ChainAssumption DEF LedgerLoan, IsOpen, Shape, Locked
  <2>5. new \in LedgerLoan
    BY <2>3, <2>4 DEF LedgerLoan
  <2>6. Shape(new) /\ Follows(ln, new)
    BY <2>1, <2>2, ChainAssumption DEF Shape, Follows, IsOpen, LedgerLoan, Locked
  <2> QED
    BY <2>2, <2>5, <2>6
<1>2. ASSUME kind = "flag"
      PROVE  new \in LedgerLoan /\ Shape(new) /\ Follows(ln, new)
  <2>1. new = [ln EXCEPT !.status = "grace", !.graceEnds = now + GracePeriod] /\ ln.status = "active"
    BY <1>0, <1>2 DEF After, Allowed
  <2>0. now + GracePeriod \in Nat
    BY ChainAssumption
  <2>2. new \in LedgerLoan /\ new.paid = ln.paid /\ new.released = ln.released /\ new.status = "grace"
    BY <2>1, <2>0 DEF LedgerLoan
  <2>3. Shape(new) /\ Follows(ln, new)
    BY <2>1, <2>2, ChainAssumption DEF Shape, Follows, IsOpen, LedgerLoan, Locked
  <2> QED
    BY <2>2, <2>3
<1>3. ASSUME kind = "liquidate"
      PROVE  new \in LedgerLoan /\ Shape(new) /\ Follows(ln, new) /\ new.status = "defaulted"
  <2>1. new = [ln EXCEPT !.status = "defaulted", !.released = Locked] /\ ln.status = "grace"
    BY <1>0, <1>3 DEF After, Allowed
  <2>0. Locked \in 0 .. Locked
    BY ChainAssumption DEF Locked
  <2>2. new \in LedgerLoan /\ new.paid = ln.paid /\ new.released = Locked /\ new.status = "defaulted"
    BY <2>1, <2>0 DEF LedgerLoan
  <2>3. Shape(new) /\ Follows(ln, new)
    BY <2>1, <2>2, ChainAssumption DEF Shape, Follows, IsOpen, LedgerLoan, Locked
  <2> QED
    BY <2>2, <2>3
<1>4. kind \in {"attest", "flag", "liquidate"}
  BY DEF Transactions, Cranks
<1>5. "flag" # "attest" /\ "flag" # "liquidate" /\ "attest" # "liquidate"
  OBVIOUS
<1> QED
  BY <1>0, <1>1, <1>2, <1>3, <1>4, <1>5, Zenon

\* A loan follows itself.
LEMMA FollowsSelf ==
    ASSUME NEW ln \in LedgerLoan PROVE Follows(ln, ln)
BY ChainAssumption DEF Follows, LedgerLoan, Locked

\* Of what has happened, what happened after it has happened too.
LEMMA FollowsOn ==
    ASSUME NEW a \in LedgerLoan, NEW b \in LedgerLoan, NEW c \in LedgerLoan,
           Follows(a, b), Follows(b, c)
    PROVE  Follows(a, c)
<1>1. a.paid <= c.paid /\ a.released <= c.released
  BY ChainAssumption DEF Follows, LedgerLoan, Locked
<1>2. ~IsOpen(a) => c.status = a.status
  BY Zenon DEF Follows, IsOpen
<1> QED
  BY <1>1, <1>2 DEF Follows

LedgerForward ==
    /\ LedgerOK'
    /\ \A l \in LoanIds : Follows(ledger[l], ledger'[l])

\* A transaction that lands moves one loan forward.
LEMMA LandsForward ==
    ASSUME LedgerOK, now \in Nat, NEW l \in LoanIds, NEW kind \in Transactions, Lands(kind, l)
    PROVE  /\ LedgerForward
           /\ Allowed(kind, ledger[l]) =>
                /\ kind = "attest" => ledger'[l].paid = ledger[l].paid + 1
                /\ kind = "liquidate" => ledger'[l].status = "defaulted"
<1>1. CASE Allowed(kind, ledger[l])
  <2>1. PICK cured \in BOOLEAN : ledger' = [ledger EXCEPT ![l] = After(kind, ledger[l], cured)]
    BY <1>1 DEF Lands
  <2> DEFINE new == After(kind, ledger[l], cured)
  <2>2. /\ new \in LedgerLoan /\ Shape(new) /\ Follows(ledger[l], new)
        /\ kind = "attest" => new.paid = ledger[l].paid + 1
        /\ kind = "liquidate" => new.status = "defaulted"
    BY <1>1, AfterFollows DEF LedgerOK
  <2> HIDE DEF new
  <2>3. ledger' = [ledger EXCEPT ![l] = new]
    BY <2>1 DEF new
  <2>4. ledger'[l] = new /\ \A m \in LoanIds : m # l => ledger'[m] = ledger[m]
    BY <2>3 DEF LedgerOK
  <2>5. LedgerOK'
    BY <2>2, <2>3, <2>4 DEF LedgerOK
  <2>6. \A m \in LoanIds : Follows(ledger[m], ledger'[m])
    BY <2>2, <2>4, FollowsSelf DEF LedgerOK
  <2> QED
    BY <2>2, <2>4, <2>5, <2>6 DEF LedgerForward
<1>2. CASE ~Allowed(kind, ledger[l])
  <2>1. ledger' = ledger
    BY <1>2 DEF Lands
  <2> QED
    BY <1>2, <2>1, FollowsSelf DEF LedgerForward, LedgerOK
<1> QED
  BY <1>1, <1>2

\* A step that leaves the ledger alone leaves it where it follows itself.
LEMMA StaysForward ==
    ASSUME LedgerOK, ledger' = ledger PROVE LedgerForward
BY FollowsSelf DEF LedgerForward, LedgerOK

-----------------------------------------------------------------------------
(* The copy follows                                                        *)

\* Bringing a copy into line with a past of the ledger keeps it behind.
LEMMA ApplyBehind ==
    ASSUME NEW cp \in CopyLoan, NEW seen \in LedgerLoan, Shape(seen)
    PROVE  /\ ApplyChainState(cp, seen) \in CopyLoan
           /\ \A ln \in LedgerLoan : Behind(cp, ln) /\ Follows(seen, ln)
                                       => Behind(ApplyChainState(cp, seen), ln)
<1> DEFINE view == ChainView(seen)  new == ApplyChainState(cp, seen)
<1>1. /\ view.status = seen.status /\ view.released = seen.released
      /\ view.graceEnds \in Nat \cup {NoDeadline}
      /\ view.repaid = seen.paid
  BY DEF ChainView, LedgerLoan, Shape
<1>2. CASE LocalView(cp) = view
  BY <1>2 DEF ApplyChainState
<1>3. CASE LocalView(cp) # view
  <2>1. new = [cp EXCEPT !.status = view.status, !.released = view.released,
                         !.graceEnds = view.graceEnds,
                         !.item = [i \in Installments |->
                                     IF i <= view.repaid THEN "repaid" ELSE cp.item[i]]]
    BY <1>3 DEF ApplyChainState
  <2> HIDE DEF view, new
  <2>2. new \in CopyLoan
    BY <1>1, <2>1 DEF CopyLoan, LedgerLoan
  <2>3. /\ new.status = seen.status /\ new.released = seen.released
        /\ new.item = [i \in Installments |-> IF i <= seen.paid THEN "repaid" ELSE cp.item[i]]
    BY <1>1, <2>1 DEF CopyLoan
  <2>4. ASSUME NEW ln \in LedgerLoan, Behind(cp, ln), Follows(seen, ln)
        PROVE  Behind(new, ln)
    <3>1. ASSUME NEW i \in Installments, new.item[i] = "repaid"
          PROVE  i <= ln.paid
      <4>1. CASE i <= seen.paid
        BY <2>4, <4>1, ChainAssumption DEF Follows, LedgerLoan, Installments
      <4>2. CASE ~(i <= seen.paid)
        BY <2>3, <2>4, <3>1, <4>2 DEF Behind
      <4> QED
        BY <4>1, <4>2
    <3>2. new.released <= ln.released
      BY <2>3, <2>4 DEF Follows
    <3>3. ~IsOpen(new) => new.status = ln.status
      BY <2>3, <2>4, Zenon DEF Follows, IsOpen
    <3> QED
      BY <3>1, <3>2, <3>3 DEF Behind
  <2> QED
    BY <2>2, <2>4 DEF new
<1> QED
  BY <1>2, <1>3

\* Marking installments overdue neither repays nor closes anything.
LEMMA MarkBehind ==
    ASSUME NEW cp \in CopyLoan, NEW S
    PROVE  /\ MarkOverdue(cp, S) \in CopyLoan
           /\ \A ln \in LedgerLoan : Behind(cp, ln) => Behind(MarkOverdue(cp, S), ln)
<1> DEFINE new == MarkOverdue(cp, S)
<1>1. /\ new \in CopyLoan
      /\ new.status = cp.status /\ new.released = cp.released
      /\ \A i \in Installments : new.item[i] = "repaid" => cp.item[i] = "repaid"
  BY DEF MarkOverdue, CopyLoan
<1> HIDE DEF new
<1>2. \A ln \in LedgerLoan : Behind(cp, ln) => Behind(new, ln)
  BY <1>1, Zenon DEF Behind, IsOpen
<1> QED
  BY <1>1, <1>2 DEF new

\* A copy behind the ledger stays behind as the ledger moves on.
LEMMA BehindOn ==
    ASSUME NEW cp \in CopyLoan, NEW a \in LedgerLoan, NEW b \in LedgerLoan,
           Behind(cp, a), Follows(a, b)
    PROVE  Behind(cp, b)
<1>1. \A i \in Installments : cp.item[i] = "repaid" => i <= b.paid
  BY ChainAssumption DEF Behind, Follows, LedgerLoan, Installments
<1>2. cp.released <= b.released
  BY ChainAssumption DEF Behind, Follows, LedgerLoan, CopyLoan, Locked
<1>3. ~IsOpen(cp) => cp.status = b.status
  BY Zenon DEF Behind, Follows, IsOpen
<1> QED
  BY <1>1, <1>2, <1>3 DEF Behind
-----------------------------------------------------------------------------
(* What the parts of a step keep                                           *)

\* Nothing a handler counts on is undone by the ledger's moving on.
LEMMA TaskOn ==
    ASSUME NEW tk \in TaskRecord, LedgerOK, TaskOK(tk, ledger), LedgerForward
    PROVE  TaskOK(tk, ledger')
<1>1. CASE tk.loan \in LoanIds
  <2> DEFINE l == tk.loan
  <2>1. /\ ledger[l] \in LedgerLoan /\ ledger'[l] \in LedgerLoan
        /\ tk.seen \in LedgerLoan /\ Follows(ledger[l], ledger'[l])
    BY <1>1 DEF LedgerForward, LedgerOK, TaskRecord
  <2>2. Shape(tk.seen) /\ Follows(tk.seen, ledger'[l])
    BY <1>1, <2>1, FollowsOn DEF TaskOK
  <2>3. ledger[l].paid <= ledger'[l].paid
    BY <2>1 DEF Follows
  <2>4. ledger[l].status = "defaulted" => ledger'[l].status = "defaulted"
    BY <2>1, Zenon DEF Follows, IsOpen
  <2>5. tk.n \in Nat /\ ledger[l].paid \in Nat /\ ledger'[l].paid \in Nat
    BY <2>1, ChainAssumption DEF TaskRecord, LedgerLoan
  <2>6. /\ tk.n <= ledger[l].paid + 1 => tk.n <= ledger'[l].paid + 1
        /\ tk.n <= ledger[l].paid => tk.n <= ledger'[l].paid
    BY <2>3, <2>5
  <2> QED
    BY <1>1, <2>2, <2>4, <2>6, Zenon DEF TaskOK
<1>2. CASE tk.loan \notin LoanIds
  BY <1>2, Zenon DEF TaskOK, TaskRecord, Reads, Transactions, Cranks
<1> QED
  BY <1>1, <1>2

\* A step in which one task becomes another that is in order, or none does.
LEMMA TasksKept ==
    ASSUME LedgerOK, TasksOK, LedgerForward, NEW t \in Tasks, NEW new \in TaskRecord,
           TaskOK(new, ledger'), Becomes(t, new)
    PROVE  TasksOK'
<1>1. task' \in [Tasks -> TaskRecord]
  BY DEF TasksOK, Becomes
<1>2. task'[t] = new /\ \A u \in Tasks : u # t => task'[u] = task[u]
  BY DEF TasksOK, Becomes
<1>3. ASSUME NEW u \in Tasks PROVE TaskOK(task'[u], ledger')
  BY <1>2, TaskOn DEF TasksOK
<1> QED
  BY <1>1, <1>3 DEF TasksOK

LEMMA TasksStay ==
    ASSUME LedgerOK, TasksOK, LedgerForward, task' = task
    PROVE  TasksOK'
BY TaskOn DEF TasksOK

\* The copies and the records stay behind a ledger that moves on; so does what
\* is stored.
LEMMA CopiesStay ==
    ASSUME LedgerOK, CopiesOK, LedgerForward, copy' = copy, attested' = attested
    PROVE  CopiesOK'
<1>1. ASSUME NEW l \in LoanIds PROVE Behind(copy[l], ledger'[l])
  BY BehindOn DEF CopiesOK, LedgerForward, LedgerOK
<1>2. ASSUME NEW l \in LoanIds, NEW i \in Installments, attested[l][i] > 0
      PROVE  i <= ledger'[l].paid
  <2>1. i <= ledger[l].paid /\ ledger[l].paid <= ledger'[l].paid
    BY <1>2 DEF CopiesOK, RecordedIsCounted, LedgerForward, Follows
  <2>2. i \in Nat /\ ledger[l].paid \in Nat /\ ledger'[l].paid \in Nat
    BY ChainAssumption DEF LedgerForward, LedgerOK, LedgerLoan, Installments
  <2> QED
    BY <2>1, <2>2
<1> QED
  BY <1>1, <1>2 DEF CopiesOK, RecordedIsCounted

LEMMA StoredStays ==
    ASSUME LedgerOK, StoredOK, LedgerForward, stored' = stored
    PROVE  StoredOK'
<1>1. ASSUME NEW l \in LoanIds PROVE Behind(stored.copy[l], ledger'[l])
  BY BehindOn DEF StoredOK, LedgerForward, LedgerOK
<1>2. ASSUME NEW l \in LoanIds, NEW i \in Installments, stored.attested[l][i] > 0
      PROVE  i <= ledger'[l].paid
  <2>1. i <= ledger[l].paid /\ ledger[l].paid <= ledger'[l].paid
    BY <1>2 DEF StoredOK, LedgerForward, Follows
  <2>2. i \in Nat /\ ledger[l].paid \in Nat /\ ledger'[l].paid \in Nat
    BY ChainAssumption DEF LedgerForward, LedgerOK, LedgerLoan, Installments
  <2> QED
    BY <2>1, <2>2
<1> QED
  BY <1>1, <1>2 DEF StoredOK
-----------------------------------------------------------------------------
(* What a task becomes                                                     *)

LEMMA NewLoanOK ==
    /\ NewOnLedger \in LedgerLoan /\ Shape(NewOnLedger)
    /\ \A ln \in LedgerLoan : Shape(ln) => Follows(NewOnLedger, ln)
<1>1. NewOnLedger \in LedgerLoan /\ Shape(NewOnLedger)
  BY ChainAssumption DEF NewOnLedger, LedgerLoan, Shape, IsOpen, Locked, NoDeadline
<1>2. ASSUME NEW ln \in LedgerLoan, Shape(ln) PROVE Follows(NewOnLedger, ln)
  BY ChainAssumption DEF NewOnLedger, LedgerLoan, IsOpen, Follows, Locked
<1> QED
  BY <1>1, <1>2

\* The fields of an idle task.
LEMMA IdleFields ==
    /\ Idle \in TaskRecord
    /\ Idle.at = "idle" /\ Idle.reply = "none" /\ Idle.loan = None
    /\ Idle.seen = NewOnLedger /\ Idle.n = 0
<1>1. NewOnLedger \in LedgerLoan /\ 0 \in 0 .. Count
  BY NewLoanOK, ChainAssumption
<1> QED
  BY <1>1 DEF Idle, TaskRecord

LEMMA IdleOK ==
    ASSUME NEW lg PROVE TaskOK(Idle, lg)
<1>1. Idle.at = "idle" /\ Idle.loan \notin LoanIds
  BY IdleFields, ChainAssumption
<1> QED
  BY <1>1 DEF TaskOK

\* A handler begins with a read of its loan.
LEMMA StartOK ==
    ASSUME LedgerOK, NEW new \in TaskRecord, new.at \in Reads, new.at # "liquidated",
           new.loan \in LoanIds, new.seen = NewOnLedger,
           new.at = "read" => new.n \in Installments
    PROVE  TaskOK(new, ledger)
<1>1. new.at \notin {"idle", "attest", "liquidate"}
  BY DEF Reads
<1>2. Shape(NewOnLedger) /\ Follows(NewOnLedger, ledger[new.loan])
  BY NewLoanOK DEF LedgerOK
<1> QED
  BY <1>1, <1>2, Zenon DEF TaskOK

\* A handler goes on to another call.
LEMMA AwaitOK ==
    ASSUME NEW tk \in TaskRecord, TaskOK(tk, ledger), LedgerOK, tk.loan \in LoanIds,
           NEW call \in Reads \cup Transactions, call # "read",
           call = "attest" => tk.n \in Installments /\ tk.n <= ledger[tk.loan].paid + 1,
           call = "liquidated" => ledger[tk.loan].status = "defaulted",
           NEW new, new = [tk EXCEPT !.at = call, !.reply = "none", !.seen = NewOnLedger]
    PROVE  new \in TaskRecord /\ TaskOK(new, ledger)
<1>1. new \in TaskRecord
  BY NewLoanOK DEF TaskRecord
<1>2. /\ new.at = call /\ new.loan = tk.loan /\ new.n = tk.n /\ new.seen = NewOnLedger
      /\ new.reply = "none"
  BY DEF TaskRecord
<1>3. Shape(NewOnLedger) /\ Follows(NewOnLedger, ledger[tk.loan])
  BY NewLoanOK DEF LedgerOK
<1>4. "none" # "ok"
  OBVIOUS
<1> QED
  BY <1>1, <1>2, <1>3, <1>4, Zenon DEF TaskOK

\* The sweep goes on to a loan that is left, or ends.
LEMMA NextLoanOK ==
    ASSUME LedgerOK, NEW t, NEW S \in SUBSET LoanIds, NextLoan(t, S)
    PROVE  \E new \in TaskRecord : TaskOK(new, ledger) /\ Becomes(t, new)
<1>1. CASE {l \in S : IsOpen(copy[l])} = {}
  BY <1>1, IdleFields, IdleOK DEF NextLoan, Finish
<1>2. CASE {l \in S : IsOpen(copy[l])} # {}
  <2>1. PICK l \in {l \in S : IsOpen(copy[l])} :
            Becomes(t, [Idle EXCEPT !.at = "sweep", !.loan = l, !.todo = S \ {l}])
    BY <1>2 DEF NextLoan
  <2> DEFINE new == [Idle EXCEPT !.at = "sweep", !.loan = l, !.todo = S \ {l}]
  <2>2. /\ new \in TaskRecord /\ new.at = "sweep" /\ new.loan = l
        /\ new.seen = NewOnLedger
    BY IdleFields DEF TaskRecord, Reads
  <2>3. "sweep" \in Reads /\ "sweep" # "liquidated" /\ "sweep" # "read"
    BY DEF Reads
  <2> HIDE DEF new
  <2>4. TaskOK(new, ledger)
    BY <2>2, <2>3, StartOK
  <2>5. Becomes(t, new)
    BY <2>1 DEF new
  <2> QED
    BY <2>2, <2>4, <2>5
<1> QED
  BY <1>1, <1>2
-----------------------------------------------------------------------------
(* Every action keeps the invariant                                        *)

LEMMA TaskInOrder ==
    ASSUME TasksOK, NEW t \in Tasks
    PROVE  /\ task[t] \in TaskRecord /\ TaskOK(task[t], ledger)
           /\ task[t].at # "idle" => task[t].loan \in LoanIds
BY DEF TasksOK, TaskOK

LEMMA RestStays ==
    ASSUME RestOK, UNCHANGED <<adrift, asked, now, crashes>> PROVE RestOK'
BY DEF RestOK

\* A step of the process in which only a task changes.
LEMMA TaskStep ==
    ASSUME ChainInv, NEW t \in Tasks, NEW new \in TaskRecord, TaskOK(new, ledger),
           Becomes(t, new), UNCHANGED <<ledger, copy, attested, stored>>
    PROVE  LedgerOK' /\ TasksOK' /\ CopiesOK' /\ StoredOK'
<1>1. LedgerForward /\ LedgerOK'
  BY StaysForward DEF ChainInv, LedgerForward
<1>2. TasksOK'
  BY <1>1, TasksKept DEF ChainInv
<1>3. CopiesOK' /\ StoredOK'
  BY <1>1, CopiesStay, StoredStays DEF ChainInv
<1> QED
  BY <1>1, <1>2, <1>3

\* A step in which one copy comes to be another that is behind the ledger.
LEMMA CopyStep ==
    ASSUME CopiesOK, NEW l \in LoanIds, NEW cp \in CopyLoan, Behind(cp, ledger[l]),
           Sets(l, cp), UNCHANGED <<ledger, attested>>
    PROVE  CopiesOK'
<1>1. /\ copy' \in [LoanIds -> CopyLoan]
      /\ copy'[l] = cp /\ \A m \in LoanIds : m # l => copy'[m] = copy[m]
  BY DEF Sets, CopiesOK
<1>2. ASSUME NEW m \in LoanIds PROVE Behind(copy'[m], ledger[m])
  BY <1>1 DEF CopiesOK
<1> QED
  BY <1>1, <1>2 DEF CopiesOK, RecordedIsCounted

\* A step in which an attestation is recorded that the ledger counts.
LEMMA RecordStep ==
    ASSUME CopiesOK, NEW t \in Tasks, task[t].loan \in LoanIds, task[t].n \in Installments,
           task[t].n <= ledger[task[t].loan].paid, Record(t), UNCHANGED <<ledger, copy>>
    PROVE  CopiesOK'
<1> DEFINE k == task[t].loan  n == task[t].n
<1>1. /\ attested' \in AttestationCount
      /\ \A l \in LoanIds, i \in Installments :
           ~(l = k /\ i = n) => attested'[l][i] = attested[l][i]
  BY DEF CopiesOK, AttestationCount, Record
<1>2. ASSUME NEW l \in LoanIds, NEW i \in Installments, attested'[l][i] > 0
      PROVE  i <= ledger[l].paid
  BY <1>1, <1>2 DEF CopiesOK, RecordedIsCounted
<1> QED
  BY <1>1, <1>2 DEF CopiesOK, RecordedIsCounted

LEMMA ReadAnsweredKeeps ==
    ASSUME ChainInv, NEW t \in Tasks, ReadAnswered(t) PROVE ChainInv'
<1>1. PICK r \in {"ok"} \cup ReadFaults :
        Becomes(t, [task[t] EXCEPT !.reply = r,
                                   !.seen = IF r = "ok" THEN ledger[task[t].loan] ELSE @])
  BY DEF ReadAnswered
<1> DEFINE tk == task[t]  l == tk.loan
           new == [tk EXCEPT !.reply = r, !.seen = IF r = "ok" THEN ledger[l] ELSE tk.seen]
<1>2. /\ tk \in TaskRecord /\ TaskOK(tk, ledger) /\ l \in LoanIds
      /\ tk.at \in Reads /\ tk.at \notin {"idle", "attest", "liquidate"}
  BY TaskInOrder DEF ChainInv, ReadAnswered, Pending, Reads
<1>3. ledger[l] \in LedgerLoan /\ Shape(ledger[l]) /\ Follows(ledger[l], ledger[l])
  BY <1>2, FollowsSelf DEF ChainInv, LedgerOK
<1>4. /\ new \in TaskRecord /\ new.at = tk.at /\ new.loan = l /\ new.n = tk.n
      /\ new.seen = ledger[l] \/ new.seen = tk.seen
  BY <1>2, <1>3, ChainAssumption DEF TaskRecord
<1>5. Becomes(t, new)
  BY <1>1
<1> HIDE DEF new
<1>6. TaskOK(new, ledger)
  BY <1>2, <1>3, <1>4, Zenon DEF TaskOK
<1>7. LedgerOK' /\ TasksOK' /\ CopiesOK' /\ StoredOK'
  BY <1>4, <1>5, <1>6, TaskStep DEF ReadAnswered
<1> QED
  BY <1>7, RestStays DEF ChainInv, ReadAnswered

LEMMA TxAnsweredKeeps ==
    ASSUME ChainInv, NEW t \in Tasks, TxAnswered(t) PROVE ChainInv'
<1> DEFINE tk == task[t]  l == tk.loan  kind == tk.at
           answer == IF Allowed(kind, ledger[l]) THEN "ok" ELSE "failed"
           taken == IF kind = "liquidate" THEN ForfeitOf(ledger[l]) ELSE tk.forfeit
           new == [tk EXCEPT !.reply = answer, !.forfeit = taken]
<1>1. /\ tk \in TaskRecord /\ TaskOK(tk, ledger) /\ l \in LoanIds
      /\ kind \in Transactions /\ kind \notin {"idle", "read", "liquidated"}
  BY TaskInOrder DEF ChainInv, TxAnswered, Pending, Transactions, Cranks
<1>2. Becomes(t, new) /\ Lands(kind, l)
  BY DEF TxAnswered
<1>3. LedgerForward /\ LedgerOK'
  BY <1>1, <1>2, LandsForward DEF ChainInv, RestOK, LedgerForward
<1>4. Allowed(kind, ledger[l]) =>
        /\ kind = "attest" => ledger'[l].paid = ledger[l].paid + 1
        /\ kind = "liquidate" => ledger'[l].status = "defaulted"
  BY <1>1, <1>2, LandsForward DEF ChainInv, RestOK
<1>5. ledger[l].paid \in 0 .. Count /\ tk.n \in 0 .. Count /\ Count \in Nat
  BY <1>1, ChainAssumption DEF ChainInv, LedgerOK, LedgerLoan, TaskRecord
<1>6. taken \in 0 .. Count
  BY <1>1, <1>5 DEF ForfeitOf, TaskRecord
<1> HIDE DEF answer, taken
<1>7. /\ new \in TaskRecord /\ new.at = kind /\ new.loan = l /\ new.n = tk.n
      /\ new.seen = tk.seen /\ new.reply = answer
  BY <1>1, <1>6 DEF TaskRecord, answer
<1>8. answer = "ok" => Allowed(kind, ledger[l])
  BY DEF answer
<1> HIDE DEF new
<1>9. TaskOK(new, ledger')
  <2>1. TaskOK(tk, ledger')
    BY <1>1, <1>3, TaskOn DEF ChainInv
  <2>2. kind = "attest" /\ answer = "ok" => tk.n <= ledger'[l].paid
    BY <1>1, <1>4, <1>5, <1>8 DEF TaskOK
  <2>3. kind = "liquidate" /\ answer = "ok" => ledger'[l].status = "defaulted"
    BY <1>4, <1>8
  <2> QED
    BY <1>1, <1>7, <2>1, <2>2, <2>3, Zenon DEF TaskOK
<1>10. TasksOK' /\ CopiesOK' /\ StoredOK'
  BY <1>2, <1>3, <1>7, <1>9, TasksKept, CopiesStay, StoredStays DEF ChainInv, TxAnswered
<1> QED
  BY <1>3, <1>10, RestStays DEF ChainInv, TxAnswered

LEMMA TxUnansweredKeeps ==
    ASSUME ChainInv, NEW t \in Tasks, TxUnanswered(t) PROVE ChainInv'
<1> DEFINE tk == task[t]  new == [tk EXCEPT !.reply = "failed"]
<1>1. /\ tk \in TaskRecord /\ TaskOK(tk, ledger) /\ tk.loan \in LoanIds
      /\ tk.at \in Transactions /\ tk.at \notin {"idle", "read", "liquidated"}
  BY TaskInOrder DEF ChainInv, TxUnanswered, Pending, Transactions, Cranks
<1>2. Becomes(t, new)
  BY DEF TxUnanswered
<1>3. /\ new \in TaskRecord /\ new.at = tk.at /\ new.loan = tk.loan /\ new.n = tk.n
      /\ new.seen = tk.seen /\ new.reply = "failed"
  BY <1>1 DEF TaskRecord
<1> HIDE DEF new
<1>4. TaskOK(new, ledger)
  <2>1. "failed" # "ok"
    OBVIOUS
  <2> QED
    BY <1>1, <1>3, <2>1, Zenon DEF TaskOK
<1>5. LedgerOK' /\ TasksOK' /\ CopiesOK' /\ StoredOK'
  BY <1>2, <1>3, <1>4, TaskStep DEF TxUnanswered
<1>6. RestOK'
  <2>1. adrift' \in [LoanIds -> Nat]
    BY <1>1 DEF ChainInv, RestOK, TxUnanswered
  <2> QED
    BY <2>1 DEF ChainInv, RestOK, TxUnanswered
<1> QED
  BY <1>5, <1>6 DEF ChainInv

\* A step of the ledger that no task sees.
LEMMA OutsideStep ==
    ASSUME ChainInv, LedgerForward, UNCHANGED <<copy, attested, task, stored>>
    PROVE  LedgerOK' /\ TasksOK' /\ CopiesOK' /\ StoredOK'
BY TasksStay, CopiesStay, StoredStays DEF ChainInv, LedgerForward

LEMMA OutsideKeeps ==
    ASSUME ChainInv, NEW l \in LoanIds, OutsideCrank(l) \/ AdriftEnds(l) PROVE ChainInv'
<1>1. LedgerForward
  <2>1. CASE UNCHANGED ledger
    BY <2>1, StaysForward DEF ChainInv
  <2>2. CASE \E kind \in Transactions : Lands(kind, l)
    BY <2>2, LandsForward DEF ChainInv, RestOK
  <2> QED
    BY <2>1, <2>2 DEF OutsideCrank, AdriftEnds, Transactions, Cranks
<1>2. LedgerOK' /\ TasksOK' /\ CopiesOK' /\ StoredOK'
  BY <1>1, OutsideStep DEF OutsideCrank, AdriftEnds
<1>3. RestOK'
  <2>1. CASE OutsideCrank(l)
    BY <2>1, RestStays DEF OutsideCrank, ChainInv
  <2>2. CASE AdriftEnds(l)
    BY <2>2 DEF AdriftEnds, ChainInv, RestOK
  <2> QED
    BY <2>1, <2>2
<1> QED
  BY <1>2, <1>3 DEF ChainInv

LEMMA AttestKeeps ==
    ASSUME ChainInv, NEW t \in Tasks, NEW l \in LoanIds, NEW i \in Installments, Attest(t, l, i)
    PROVE  ChainInv'
<1> DEFINE new == [Idle EXCEPT !.at = "read", !.loan = l, !.n = i]
<1>1. i \in 0 .. Count
  BY DEF Installments
<1>2. /\ new \in TaskRecord /\ new.at = "read" /\ new.loan = l /\ new.n = i
      /\ new.seen = NewOnLedger /\ "read" \in Reads /\ "read" # "liquidated"
  BY <1>1, IdleFields DEF TaskRecord, Reads
<1>3. Becomes(t, new)
  BY DEF Attest
<1> HIDE DEF new
<1>4. TaskOK(new, ledger)
  BY <1>2, StartOK DEF ChainInv
<1>5. LedgerOK' /\ TasksOK' /\ CopiesOK' /\ StoredOK'
  BY <1>2, <1>3, <1>4, TaskStep DEF Attest
<1>6. RestOK'
  BY DEF Attest, ChainInv, RestOK
<1> QED
  BY <1>5, <1>6 DEF ChainInv

LEMMA ViewKeeps ==
    ASSUME ChainInv, NEW t \in Tasks, NEW l \in LoanIds, View(t, l) PROVE ChainInv'
<1> DEFINE new == [Idle EXCEPT !.at = "view", !.loan = l]
<1>1. /\ new \in TaskRecord /\ new.at = "view" /\ new.loan = l
      /\ new.seen = NewOnLedger /\ "view" \in Reads /\ "view" \notin {"liquidated", "read"}
  BY IdleFields DEF TaskRecord, Reads
<1>2. Becomes(t, new)
  BY DEF View
<1> HIDE DEF new
<1>3. TaskOK(new, ledger)
  BY <1>1, StartOK DEF ChainInv
<1>4. LedgerOK' /\ TasksOK' /\ CopiesOK' /\ StoredOK'
  BY <1>1, <1>2, <1>3, TaskStep DEF View
<1> QED
  BY <1>4, RestStays DEF View, ChainInv

LEMMA SweepKeeps ==
    ASSUME ChainInv, NEW t \in Tasks, Sweep(t) PROVE ChainInv'
<1>1. PICK new \in TaskRecord : TaskOK(new, ledger) /\ Becomes(t, new)
  BY NextLoanOK DEF Sweep, OpenLoans, ChainInv
<1>2. LedgerOK' /\ TasksOK' /\ CopiesOK' /\ StoredOK'
  BY <1>1, TaskStep DEF Sweep
<1> QED
  BY <1>2, RestStays DEF Sweep, ChainInv

\* Where a handler goes after its call: it ends, goes on to another call, or, if
\* it is the sweep, to the next loan.
LEMMA EndsOK ==
    ASSUME ChainInv, NEW t \in Tasks, Finish(t) \/ Continues(t), UNCHANGED ledger
    PROVE  TasksOK'
<1>1. \E new \in TaskRecord : TaskOK(new, ledger) /\ Becomes(t, new)
  <2>1. CASE Finish(t)
    BY <2>1, IdleFields, IdleOK DEF Finish
  <2>2. CASE Continues(t)
    <3>1. task[t].todo \in SUBSET LoanIds
      BY TaskInOrder DEF ChainInv, TaskRecord
    <3> QED
      BY <2>2, <3>1, NextLoanOK DEF Continues, ChainInv
  <2> QED
    BY <2>1, <2>2
<1> QED
  BY <1>1, TasksKept, StaysForward DEF ChainInv

LEMMA AwaitsOK ==
    ASSUME ChainInv, NEW t \in Tasks, task[t].loan \in LoanIds,
           NEW call \in Reads \cup Transactions, call # "read", Awaits(t, call), UNCHANGED ledger,
           call = "attest" => /\ task[t].n \in Installments
                              /\ task[t].n <= ledger[task[t].loan].paid + 1,
           call = "liquidated" => ledger[task[t].loan].status = "defaulted"
    PROVE  TasksOK'
<1> DEFINE new == [task[t] EXCEPT !.at = call, !.reply = "none", !.seen = NewOnLedger]
<1>1. new \in TaskRecord /\ TaskOK(new, ledger)
  BY TaskInOrder, AwaitOK DEF ChainInv
<1>2. Becomes(t, new)
  BY DEF Awaits
<1> HIDE DEF new
<1> QED
  BY <1>1, <1>2, TasksKept, StaysForward DEF ChainInv

\* What is left to show of a step that leaves the ledger and what is stored alone.
LEMMA QuietStep ==
    ASSUME ChainInv, TasksOK', CopiesOK', UNCHANGED <<ledger, adrift, stored, asked, now, crashes>>
    PROVE  ChainInv'
<1>1. LedgerForward /\ LedgerOK'
  BY StaysForward DEF ChainInv, LedgerForward
<1>2. StoredOK'
  BY <1>1, StoredStays DEF ChainInv
<1> QED
  BY <1>1, <1>2, RestStays DEF ChainInv

LEMMA CopiesUnchanged ==
    ASSUME ChainInv, UNCHANGED <<ledger, copy, attested>> PROVE CopiesOK'
BY StaysForward, CopiesStay DEF ChainInv

LEMMA AttestReadKeeps ==
    ASSUME ChainInv, NEW t \in Tasks, AttestRead(t) PROVE ChainInv'
<1> DEFINE tk == task[t]  l == tk.loan
<1>1. tk.at = "read" /\ "read" # "idle"
  BY DEF AttestRead, Resumes
<1>2. /\ tk \in TaskRecord /\ l \in LoanIds /\ tk.n \in Installments
      /\ Follows(tk.seen, ledger[l])
  BY <1>1, TaskInOrder DEF ChainInv, TaskOK
<1>3. /\ tk.n \in Nat /\ tk.seen.paid \in Nat /\ ledger[l].paid \in Nat
      /\ tk.seen.paid <= ledger[l].paid
  BY <1>2, ChainAssumption DEF ChainInv, LedgerOK, LedgerLoan, TaskRecord, Follows
<1>4. UNCHANGED <<ledger, copy, adrift, stored, asked, now, crashes>>
  BY DEF AttestRead
<1>5. CASE Finish(t) /\ UNCHANGED attested
  BY <1>4, <1>5, EndsOK, CopiesUnchanged, QuietStep
<1>6. CASE Counted(t) /\ Record(t) /\ Awaits(t, "reread")
  <2>1. tk.n <= ledger[l].paid
    BY <1>3, <1>6 DEF Counted
  <2>2. CopiesOK'
    BY <1>2, <1>4, <1>6, <2>1, RecordStep DEF ChainInv
  <2>3. "reread" \in Reads /\ "reread" \notin {"read", "attest", "liquidated"}
    BY DEF Reads
  <2>4. TasksOK'
    BY <1>2, <1>4, <1>6, <2>3, AwaitsOK
  <2> QED
    BY <1>4, <2>2, <2>4, QuietStep
<1>7. CASE InTurn(t) /\ Awaits(t, "attest") /\ UNCHANGED attested
  <2>1. tk.n <= ledger[l].paid + 1
    BY <1>3, <1>7 DEF InTurn
  <2>2. "attest" \in Transactions /\ "attest" \notin {"read", "liquidated"}
    BY DEF Transactions
  <2>3. TasksOK'
    BY <1>2, <1>4, <1>7, <2>1, <2>2, AwaitsOK
  <2> QED
    BY <1>4, <1>7, <2>3, CopiesUnchanged, QuietStep
<1> QED
  BY <1>5, <1>6, <1>7 DEF AttestRead

LEMMA AttestSettledKeeps ==
    ASSUME ChainInv, NEW t \in Tasks, AttestSettled(t) PROVE ChainInv'
<1> DEFINE tk == task[t]  l == tk.loan
<1>1. tk.at = "attest" /\ "attest" # "idle" /\ "attest" \in {"read", "attest"}
  BY DEF AttestSettled, Resumes
<1>2. tk \in TaskRecord /\ l \in LoanIds /\ tk.n \in Installments
  BY <1>1, TaskInOrder DEF ChainInv, TaskOK
<1>3. UNCHANGED <<ledger, copy, adrift, stored, asked, now, crashes>>
  BY DEF AttestSettled
<1>4. CASE Finish(t) /\ UNCHANGED attested
  BY <1>3, <1>4, EndsOK, CopiesUnchanged, QuietStep
<1>5. CASE Succeeded(t) /\ Record(t) /\ Awaits(t, "reread")
  <2>1. tk.n <= ledger[l].paid
    BY <1>1, <1>5, TaskInOrder DEF ChainInv, TaskOK, Succeeded
  <2>2. CopiesOK'
    BY <1>2, <1>3, <1>5, <2>1, RecordStep DEF ChainInv
  <2>3. "reread" \in Reads /\ "reread" \notin {"read", "attest", "liquidated"}
    BY DEF Reads
  <2>4. TasksOK'
    BY <1>2, <1>3, <1>5, <2>3, AwaitsOK
  <2> QED
    BY <1>3, <2>2, <2>4, QuietStep
<1> QED
  BY <1>4, <1>5 DEF AttestSettled

\* What a resumed handler knows of the loan it read.
LEMMA SeenOK ==
    ASSUME ChainInv, NEW t \in Tasks, task[t].at \in Reads \cup Transactions
    PROVE  /\ task[t] \in TaskRecord /\ task[t].loan \in LoanIds
           /\ task[t].seen \in LedgerLoan /\ Shape(task[t].seen)
           /\ Follows(task[t].seen, ledger[task[t].loan])
           /\ ledger[task[t].loan] \in LedgerLoan
           /\ copy[task[t].loan] \in CopyLoan
           /\ Behind(copy[task[t].loan], ledger[task[t].loan])
<1>1. task[t].at # "idle"
  BY DEF Reads, Transactions, Cranks
<1>2. /\ task[t] \in TaskRecord /\ task[t].loan \in LoanIds
      /\ Shape(task[t].seen) /\ Follows(task[t].seen, ledger[task[t].loan])
  BY <1>1, TaskInOrder DEF ChainInv, TaskOK
<1> QED
  BY <1>2 DEF ChainInv, CopiesOK, LedgerOK, TaskRecord

LEMMA AdoptedKeeps ==
    ASSUME ChainInv, NEW t \in Tasks, Adopted(t) PROVE ChainInv'
<1> DEFINE l == task[t].loan  cp == ApplyChainState(copy[l], task[t].seen)
<1>1. task[t].at \in Reads
  BY DEF Adopted, Resumes, Reads
<1>2. UNCHANGED <<ledger, attested, adrift, stored, asked, now, crashes>> /\ Finish(t)
  BY DEF Adopted
<1>3. l \in LoanIds /\ cp \in CopyLoan /\ Behind(cp, ledger[l])
  BY <1>1, SeenOK, ApplyBehind
<1>4. CopiesOK'
  <2>1. CASE Sets(l, cp)
    BY <1>2, <1>3, <2>1, CopyStep DEF ChainInv
  <2>2. CASE UNCHANGED copy
    BY <1>2, <2>2, CopiesUnchanged
  <2> QED
    BY <2>1, <2>2 DEF Adopted
<1> QED
  BY <1>2, <1>4, EndsOK, QuietStep

LEMMA EvaluatedKeeps ==
    ASSUME ChainInv, NEW t \in Tasks, Evaluated(t) PROVE ChainInv'
<1> DEFINE l == task[t].loan  seen == task[t].seen
           cp == MarkOverdue(ApplyChainState(copy[l], seen), DueBefore)
<1>1. task[t].at \in Reads
  BY DEF Evaluated, Resumes, Reads
<1>2. UNCHANGED <<ledger, attested, adrift, stored, asked, now, crashes>>
  BY DEF Evaluated
<1>3. l \in LoanIds /\ cp \in CopyLoan /\ Behind(cp, ledger[l])
  BY <1>1, SeenOK, ApplyBehind, MarkBehind
<1>4. CopiesOK'
  <2>1. CASE Sets(l, cp)
    BY <1>2, <1>3, <2>1, CopyStep DEF ChainInv
  <2>2. CASE UNCHANGED copy
    BY <1>2, <2>2, CopiesUnchanged
  <2> QED
    BY <2>1, <2>2 DEF Evaluated
<1>5. TasksOK'
  <2>1. CASE Continues(t)
    BY <1>2, <2>1, EndsOK
  <2>2. CASE \E call \in Cranks : Awaits(t, call)
    <3>1. PICK call \in Cranks : Awaits(t, call)
      BY <2>2
    <3>2. call \in Reads \cup Transactions /\ call \notin {"read", "attest", "liquidated"}
      BY DEF Transactions, Cranks
    <3> QED
      BY <1>2, <1>3, <3>1, <3>2, AwaitsOK
  <2> QED
    BY <2>1, <2>2 DEF Evaluated, Cranks
<1> QED
  BY <1>2, <1>4, <1>5, QuietStep

LEMMA CrankedKeeps ==
    ASSUME ChainInv, NEW t \in Tasks, Cranked(t) PROVE ChainInv'
<1> DEFINE l == task[t].loan  cp == MarkOverdue(copy[l], Installments)
<1>1. task[t].at \in Transactions
  BY DEF Cranked, Resumes, Transactions, Cranks
<1>2. UNCHANGED <<ledger, attested, adrift, stored, asked, now, crashes>>
  BY DEF Cranked
<1>3. l \in LoanIds /\ cp \in CopyLoan /\ Behind(cp, ledger[l])
  BY <1>1, SeenOK, MarkBehind
<1>4. CASE Continues(t) /\ UNCHANGED copy
  BY <1>2, <1>4, EndsOK, CopiesUnchanged, QuietStep
<1>5. CASE Awaits(t, "flagged") /\ UNCHANGED copy
  <2>1. "flagged" \in Reads /\ "flagged" \notin {"read", "attest", "liquidated"}
    BY DEF Reads
  <2> QED
    BY <1>2, <1>3, <1>5, <2>1, AwaitsOK, CopiesUnchanged, QuietStep
<1>6. CASE Resumes(t, "liquidate") /\ Succeeded(t) /\ Sets(l, cp) /\ Awaits(t, "liquidated")
  <2>1. ledger[l].status = "defaulted"
    BY <1>6, TaskInOrder DEF ChainInv, TaskOK, Resumes, Succeeded
  <2>2. "liquidated" \in Reads /\ "liquidated" \notin {"read", "attest"}
    BY DEF Reads
  <2>3. TasksOK'
    BY <1>2, <1>3, <1>6, <2>1, <2>2, AwaitsOK
  <2>4. CopiesOK'
    BY <1>2, <1>3, <1>6, CopyStep DEF ChainInv
  <2> QED
    BY <1>2, <2>3, <2>4, QuietStep
<1> QED
  BY <1>4, <1>5, <1>6 DEF Cranked

LEMMA GraceRecordedKeeps ==
    ASSUME ChainInv, NEW t \in Tasks, GraceRecorded(t) PROVE ChainInv'
<1> DEFINE l == task[t].loan  seen == task[t].seen
           cp == MarkOverdue(ApplyChainState(copy[l], seen), {seen.paid + 1})
<1>1. task[t].at \in Reads
  BY DEF GraceRecorded, Resumes, Reads
<1>2. UNCHANGED <<ledger, attested, adrift, stored, asked, now, crashes>> /\ Continues(t)
  BY DEF GraceRecorded
<1>3. l \in LoanIds /\ cp \in CopyLoan /\ Behind(cp, ledger[l])
  BY <1>1, SeenOK, ApplyBehind, MarkBehind
<1>4. CopiesOK'
  <2>1. CASE Sets(l, cp)
    BY <1>2, <1>3, <2>1, CopyStep DEF ChainInv
  <2>2. CASE UNCHANGED copy
    BY <1>2, <2>2, CopiesUnchanged
  <2> QED
    BY <2>1, <2>2 DEF GraceRecorded
<1> QED
  BY <1>2, <1>4, EndsOK, QuietStep

\* The copy is closed as defaulted only where the ledger has the loan defaulted,
\* which the answer to the liquidation said.
LEMMA DefaultRecordedKeeps ==
    ASSUME ChainInv, NEW t \in Tasks, DefaultRecorded(t) PROVE ChainInv'
<1> DEFINE l == task[t].loan  cp == ApplyChainState(copy[l], task[t].seen)
           new == [cp EXCEPT !.status = "defaulted", !.forfeited = task[t].forfeit,
                             !.graceEnds = NoDeadline]
<1>1. task[t].at = "liquidated" /\ "liquidated" \in Reads
  BY DEF DefaultRecorded, Resumes, Reads
<1>2. UNCHANGED <<ledger, attested, adrift, stored, asked, now, crashes>> /\ Continues(t)
  BY DEF DefaultRecorded
<1>3. l \in LoanIds /\ cp \in CopyLoan /\ Behind(cp, ledger[l])
  BY <1>1, SeenOK, ApplyBehind
<1>4. ledger[l].status = "defaulted" /\ task[t].forfeit \in 0 .. Count
  BY <1>1, TaskInOrder DEF ChainInv, TaskOK, TaskRecord
<1> HIDE DEF cp
<1>5. /\ new \in CopyLoan /\ new.item = cp.item /\ new.released = cp.released
      /\ new.status = "defaulted"
  BY <1>3, <1>4 DEF CopyLoan
<1>6. Behind(new, ledger[l])
  BY <1>3, <1>4, <1>5 DEF Behind
<1>7. CopiesOK'
  <2>1. CASE Sets(l, new)
    BY <1>2, <1>3, <1>5, <1>6, <2>1, CopyStep DEF ChainInv
  <2>2. CASE UNCHANGED copy
    BY <1>2, <2>2, CopiesUnchanged
  <2> QED
    BY <2>1, <2>2 DEF DefaultRecorded, cp
<1> QED
  BY <1>2, <1>7, EndsOK, QuietStep

LEMMA DayPassesKeeps ==
    ASSUME ChainInv, DayPasses PROVE ChainInv'
<1>1. LedgerOK' /\ TasksOK' /\ CopiesOK' /\ StoredOK'
  BY StaysForward, OutsideStep DEF DayPasses, ChainInv
<1> QED
  BY <1>1 DEF DayPasses, ChainInv, RestOK

LEMMA FlushKeeps ==
    ASSUME ChainInv, Flush PROVE ChainInv'
<1>1. LedgerForward /\ LedgerOK'
  BY StaysForward DEF ChainInv, LedgerForward, Flush
<1>2. TasksOK' /\ CopiesOK'
  BY <1>1, TasksStay, CopiesStay DEF ChainInv, Flush
<1>3. stored'.copy = copy /\ stored'.attested = attested
  BY DEF Flush
<1>4. stored' \in [copy : [LoanIds -> CopyLoan], attested : AttestationCount]
  BY DEF Flush, ChainInv, CopiesOK
<1>5. StoredOK'
  BY <1>3, <1>4 DEF Flush, ChainInv, CopiesOK, StoredOK, RecordedIsCounted
<1> QED
  BY <1>1, <1>2, <1>5, RestStays DEF ChainInv, Flush

\* What a restart brings back was behind the ledger when it was stored.
LEMMA CrashKeeps ==
    ASSUME ChainInv, Crash PROVE ChainInv'
<1>1. LedgerForward /\ LedgerOK'
  BY StaysForward DEF ChainInv, LedgerForward, Crash
<1>2. TasksOK'
  <2>1. task' = [t \in Tasks |-> Idle]
    BY DEF Crash
  <2> QED
    BY <2>1, IdleFields, IdleOK DEF TasksOK
<1>3. CopiesOK'
  BY DEF ChainInv, StoredOK, CopiesOK, RecordedIsCounted, Crash
<1>4. StoredOK'
  BY <1>1, StoredStays DEF ChainInv, Crash
<1>5. RestOK'
  <2>1. ASSUME NEW l \in LoanIds
        PROVE  Cardinality({t \in Tasks : Pending(t, {"attest"}) /\ task[t].loan = l}) \in Nat
    <3>1. IsFiniteSet(Tasks)
      BY ChainAssumption, FS_AddElement DEF Tasks
    <3> QED
      BY <3>1, FS_Subset, FS_CardinalityType
  <2>2. adrift' \in [LoanIds -> Nat]
    BY <2>1 DEF ChainInv, RestOK, Crash
  <2> QED
    BY <2>2 DEF ChainInv, RestOK, Crash
<1> QED
  BY <1>1, <1>2, <1>3, <1>4, <1>5 DEF ChainInv

-----------------------------------------------------------------------------
(* The theorems                                                            *)

LEMMA InitHolds ==
    ASSUME Init PROVE ChainInv
<1>1. LedgerOK
  BY NewLoanOK DEF Init, LedgerOK
<1>2. TasksOK
  BY IdleFields, IdleOK DEF Init, TasksOK
<1>3. NewCopy \in CopyLoan /\ \A l \in LoanIds : Behind(NewCopy, ledger[l])
  <2>1. /\ NewCopy \in CopyLoan /\ NewCopy.status = "active" /\ NewCopy.released = 0
        /\ \A i \in Installments : NewCopy.item[i] = "pending"
    BY ChainAssumption DEF NewCopy, CopyLoan, Locked, NoDeadline
  <2>2. \A l \in LoanIds : ledger[l].released = 0
    BY DEF Init, NewOnLedger
  <2> QED
    BY <2>1, <2>2 DEF Behind, IsOpen
<1>4. CopiesOK
  BY <1>3 DEF Init, CopiesOK, RecordedIsCounted, AttestationCount
<1>5. StoredOK
  BY <1>4 DEF Init, StoredOK, CopiesOK, RecordedIsCounted
<1>6. RestOK
  BY DEF Init, RestOK
<1> QED
  BY <1>1, <1>2, <1>4, <1>5, <1>6 DEF ChainInv

LEMMA NextKeeps ==
    ASSUME ChainInv, [Next]_vars PROVE ChainInv'
<1>1. ASSUME NEW t \in Handlers, Request(t) PROVE ChainInv'
  BY <1>1, ViewKeeps, AttestKeeps DEF Request, Tasks
<1>2. CASE Sweep(Job)
  BY <1>2, SweepKeeps DEF Tasks
<1>3. ASSUME NEW t \in Tasks, Network(t) PROVE ChainInv'
  BY <1>3, ReadAnsweredKeeps, TxAnsweredKeeps, TxUnansweredKeeps DEF Network
<1>4. ASSUME NEW t \in Tasks, Continue(t) PROVE ChainInv'
  BY <1>4, AttestReadKeeps, AttestSettledKeeps, AdoptedKeeps, EvaluatedKeeps, CrankedKeeps,
     GraceRecordedKeeps, DefaultRecordedKeeps DEF Continue
<1>5. CASE DayPasses \/ Flush \/ Crash
  BY <1>5, DayPassesKeeps, FlushKeeps, CrashKeeps
<1>6. CASE UNCHANGED vars
  <2>1. LedgerOK' /\ TasksOK' /\ CopiesOK' /\ StoredOK'
    BY <1>6, StaysForward, OutsideStep DEF vars, ChainInv
  <2> QED
    BY <1>6, <2>1, RestStays DEF vars, ChainInv
<1> QED
  BY <1>1, <1>2, <1>3, <1>4, <1>5, <1>6, OutsideKeeps DEF Next

LEMMA InvImplies ==
    ASSUME ChainInv PROVE ChainTypeOK /\ CopyNotAhead /\ RecordedIsCounted
<1>1. ChainTypeOK
  BY DEF ChainInv, LedgerOK, TasksOK, CopiesOK, StoredOK, RestOK, ChainTypeOK
<1>2. CopyNotAhead
  BY DEF ChainInv, CopiesOK, StoredOK, CopyNotAhead
<1> QED
  BY <1>1, <1>2 DEF ChainInv, CopiesOK

\* Every variable keeps its type in every behaviour, through failures and
\* restarts.
THEOREM ChainTypesKept == Spec => []ChainTypeOK
<1>1. Init => ChainInv
  BY InitHolds
<1>2. ChainInv /\ [Next]_vars => ChainInv'
  BY NextKeeps
<1>3. ChainInv => ChainTypeOK
  BY InvImplies
<1> QED
  BY <1>1, <1>2, <1>3, PTL DEF Spec

\* The backend's copy of a loan on chain never runs ahead of the ledger, nor does
\* what it has stored of it, and no attestation is recorded that the ledger does
\* not count: however many handlers there are, and whichever calls fail or are
\* answered late.
THEOREM CopyStaysBehind == Spec => [](CopyNotAhead /\ RecordedIsCounted)
<1>1. Init => ChainInv
  BY InitHolds
<1>2. ChainInv /\ [Next]_vars => ChainInv'
  BY NextKeeps
<1>3. ChainInv => CopyNotAhead /\ RecordedIsCounted
  BY InvImplies
<1> QED
  BY <1>1, <1>2, <1>3, PTL DEF Spec

-----------------------------------------------------------------------------
(***************************************************************************)
(* With a partner that retries only what is settled, what a loan on chain  *)
(* counts is what was paid, each payment once, and each is recorded once.  *)
(*                                                                         *)
(* The argument: at most one attestation of a loan is under way, in a      *)
(* handler or adrift (AloneOK, AdriftOK), so what its handler read of the  *)
(* ledger still holds when it acts on it (TurnsOK), and the installment    *)
(* that the ledger counts next is the one it was paid.                     *)
(***************************************************************************)

Attesting(tk) == tk.at \in {"read", "attest", "reread"}

\* What an attestation under way may count on, nobody else being about its loan.
TurnOK(tk, lg, ask, att) ==
    /\ tk.at \in {"read", "attest"} => tk.n \in ask[tk.loan] /\ att[tk.loan][tk.n] = 0
    /\ tk.at = "read" /\ tk.reply = "ok" => tk.seen.paid = lg[tk.loan].paid
    /\ tk.at = "attest" /\ tk.reply = "none" => tk.n = lg[tk.loan].paid + 1

AloneOK ==
    /\ ~Attesting(task[Job])
    /\ \A t, u \in Tasks :
         t # u /\ Attesting(task[t]) /\ Attesting(task[u]) => task[t].loan # task[u].loan

TurnsOK == \A t \in Tasks : TurnOK(task[t], ledger, asked, attested)

AdriftAlone(l) ==
    /\ ledger[l].paid + 1 \in asked[l]
    /\ \A t \in Tasks :
         task[t].loan = l => task[t].at # "read" /\ ~(task[t].at = "attest" /\ task[t].reply = "none")

AdriftOK == \A l \in LoanIds : adrift[l] \in {0, 1} /\ (adrift[l] = 1 => AdriftAlone(l))

CountsOK ==
    /\ \A l \in LoanIds : 1 .. ledger[l].paid \subseteq asked[l]
    /\ \A l \in LoanIds, i \in Installments : attested[l][i] <= 1 /\ stored.attested[l][i] <= 1

PayInv == AloneOK /\ TurnsOK /\ AdriftOK /\ CountsOK

-----------------------------------------------------------------------------
(* What a transaction does to the count                                    *)

LEMMA AfterPaid ==
    ASSUME NEW ln \in LedgerLoan, NEW kind \in Transactions, NEW cured \in BOOLEAN
    PROVE  After(kind, ln, cured).paid = IF kind = "attest" THEN ln.paid + 1 ELSE ln.paid
<1>1. CASE kind = "attest"
  BY <1>1 DEF After, Repaid, LedgerLoan
<1>2. CASE kind = "flag"
  <2>1. After(kind, ln, cured) = [ln EXCEPT !.status = "grace", !.graceEnds = now + GracePeriod]
    BY <1>2 DEF After
  <2> QED
    BY <1>2, <2>1 DEF LedgerLoan
<1>3. CASE kind = "liquidate"
  <2>1. After(kind, ln, cured) = [ln EXCEPT !.status = "defaulted", !.released = Locked]
    BY <1>3 DEF After
  <2> QED
    BY <1>3, <2>1 DEF LedgerLoan
<1> QED
  BY <1>1, <1>2, <1>3 DEF Transactions, Cranks

\* Only an attestation moves the count, of its own loan and by one.
LEMMA LandsPaid ==
    ASSUME LedgerOK, NEW l \in LoanIds, NEW kind \in Transactions, Lands(kind, l)
    PROVE  /\ \A m \in LoanIds : m # l => ledger'[m] = ledger[m]
           /\ kind # "attest" => ledger'[l].paid = ledger[l].paid
           /\ \/ ledger'[l].paid = ledger[l].paid
              \/ ledger'[l].paid = ledger[l].paid + 1
<1>1. CASE Allowed(kind, ledger[l])
  <2>1. PICK cured \in BOOLEAN : ledger' = [ledger EXCEPT ![l] = After(kind, ledger[l], cured)]
    BY <1>1 DEF Lands
  <2> DEFINE new == After(kind, ledger[l], cured)
  <2>2. new.paid = IF kind = "attest" THEN ledger[l].paid + 1 ELSE ledger[l].paid
    BY AfterPaid DEF LedgerOK
  <2>3. ledger' = [ledger EXCEPT ![l] = new]
    BY <2>1
  <2> HIDE DEF new
  <2>4. ledger'[l] = new /\ \A m \in LoanIds : m # l => ledger'[m] = ledger[m]
    BY <2>3 DEF LedgerOK
  <2> QED
    BY <2>2, <2>4
<1>2. CASE ~Allowed(kind, ledger[l])
  BY <1>2 DEF Lands
<1> QED
  BY <1>1, <1>2

LEMMA PaidIsNat ==
    ASSUME LedgerOK, NEW l \in LoanIds PROVE ledger[l].paid \in Nat
BY ChainAssumption DEF LedgerOK, LedgerLoan

\* The other tasks, as a task becomes another.
LEMMA OtherTasks ==
    ASSUME TasksOK, NEW t \in Tasks, NEW new, Becomes(t, new)
    PROVE  task'[t] = new /\ \A u \in Tasks : u # t => task'[u] = task[u]
BY DEF TasksOK, Becomes

-----------------------------------------------------------------------------
(* Steps that begin no attestation and send none                           *)

\* A handler that begins no attestation leaves what is under way alone.
LEMMA AloneKept ==
    ASSUME TasksOK, AloneOK, NEW t \in Tasks, NEW new, Becomes(t, new),
           Attesting(new) => Attesting(task[t]) /\ new.loan = task[t].loan
    PROVE  AloneOK'
<1>1. task'[t] = new /\ \A u \in Tasks : u # t => task'[u] = task[u]
  BY OtherTasks
<1>2. ~Attesting(task'[Job])
  BY <1>1 DEF AloneOK, Tasks
<1>3. ASSUME NEW u \in Tasks, NEW v \in Tasks, u # v, Attesting(task'[u]), Attesting(task'[v])
      PROVE  task'[u].loan # task'[v].loan
  BY <1>1, <1>3, Zenon DEF AloneOK
<1> QED
  BY <1>2, <1>3 DEF AloneOK, Attesting

\* A step in which a handler lets go of its attestation, or is about something
\* else.
LEMMA LetsGo ==
    ASSUME ChainInv, PayInv, NEW t \in Tasks, NEW new, Becomes(t, new),
           new.at \notin {"read", "attest"},
           new.at = "reread" => Attesting(task[t]) /\ new.loan = task[t].loan,
           UNCHANGED <<ledger, adrift, stored, asked>>,
           \/ UNCHANGED attested
           \/ Record(t) /\ task[t].at \in {"read", "attest"}
    PROVE  PayInv'
<1> DEFINE k == task[t].loan  n == task[t].n
<1>1. task'[t] = new /\ \A u \in Tasks : u # t => task'[u] = task[u]
  BY OtherTasks DEF ChainInv
<1>2. AloneOK'
  BY AloneKept DEF ChainInv, PayInv, Attesting
<1>3. AdriftOK'
  BY <1>1 DEF PayInv, AdriftOK, AdriftAlone
<1>4. CASE UNCHANGED attested
  <2>1. TurnsOK'
    BY <1>1, <1>4 DEF PayInv, TurnsOK, TurnOK
  <2>2. CountsOK'
    BY <1>4 DEF PayInv, CountsOK
  <2> QED
    BY <1>2, <1>3, <2>1, <2>2 DEF PayInv
<1>5. CASE Record(t) /\ task[t].at \in {"read", "attest"}
  <2>1. k \in LoanIds /\ n \in Installments /\ attested[k][n] = 0
    BY <1>5, TaskInOrder DEF ChainInv, TaskOK, PayInv, TurnsOK, TurnOK
  <2>2. /\ attested'[k][n] = 1
        /\ \A l \in LoanIds, i \in Installments :
             ~(l = k /\ i = n) => attested'[l][i] = attested[l][i]
    BY <1>5, <2>1 DEF ChainInv, CopiesOK, AttestationCount, Record
  <2>3. CountsOK'
    BY <2>2 DEF PayInv, CountsOK
  <2>4. ASSUME NEW u \in Tasks PROVE TurnOK(task'[u], ledger, asked, attested')
    <3>1. CASE u = t
      BY <1>1, <3>1 DEF TurnOK
    <3>2. CASE u # t /\ task[u].at \in {"read", "attest"}
      <4>1. task[u].loan # k /\ task[u].loan \in LoanIds /\ task[u].n \in Installments
        BY <1>5, <3>2, TaskInOrder DEF PayInv, AloneOK, Attesting, ChainInv, TaskOK
      <4>2. attested'[task[u].loan][task[u].n] = attested[task[u].loan][task[u].n]
        BY <2>2, <4>1
      <4> QED
        BY <1>1, <3>2, <4>2 DEF PayInv, TurnsOK, TurnOK
    <3>3. CASE u # t /\ task[u].at \notin {"read", "attest"}
      BY <1>1, <3>3 DEF PayInv, TurnsOK, TurnOK
    <3> QED
      BY <3>1, <3>2, <3>3
  <2>5. TurnsOK'
    BY <2>4 DEF TurnsOK
  <2> QED
    BY <1>2, <1>3, <2>3, <2>5 DEF PayInv
<1> QED
  BY <1>4, <1>5

\* A step of the lifecycle job or of a look at a loan.
LEMMA NextLoanBecomes ==
    ASSUME NEW t, NEW S, NextLoan(t, S)
    PROVE  \E new : Becomes(t, new) /\ new.at \notin {"read", "attest", "reread"}
<1>1. CASE {l \in S : IsOpen(copy[l])} = {}
  BY <1>1, IdleFields DEF NextLoan, Finish
<1>2. CASE {l \in S : IsOpen(copy[l])} # {}
  <2>1. PICK l \in {l \in S : IsOpen(copy[l])} :
            Becomes(t, [Idle EXCEPT !.at = "sweep", !.loan = l, !.todo = S \ {l}])
    BY <1>2 DEF NextLoan
  <2>2. [Idle EXCEPT !.at = "sweep", !.loan = l, !.todo = S \ {l}].at = "sweep"
    BY IdleFields DEF TaskRecord
  <2> QED
    BY <2>1, <2>2
<1> QED
  BY <1>1, <1>2

LEMMA FinishBecomes ==
    ASSUME NEW t, Finish(t) \/ Continues(t)
    PROVE  \E new : Becomes(t, new) /\ new.at \notin {"read", "attest", "reread"}
BY IdleFields, NextLoanBecomes DEF Finish, Continues

LEMMA AwaitsBecomes ==
    ASSUME TasksOK, NEW t \in Tasks, NEW call, Awaits(t, call)
    PROVE  \E new : /\ Becomes(t, new) /\ new.at = call /\ new.loan = task[t].loan
                    /\ new.n = task[t].n /\ new.reply = "none"
<1> DEFINE new == [task[t] EXCEPT !.at = call, !.reply = "none", !.seen = NewOnLedger]
<1>1. new.at = call /\ new.loan = task[t].loan /\ new.n = task[t].n /\ new.reply = "none"
  BY TaskInOrder DEF TaskRecord
<1>2. Becomes(t, new)
  BY DEF Awaits
<1> QED
  BY <1>1, <1>2

\* The steps of the sweep, of a look at a loan, and of a handler that has its
\* answer.
LEMMA QuietKeepsPay ==
    ASSUME ChainInv, PayInv, NEW t \in Tasks,
           \/ \E l \in LoanIds : View(t, l)
           \/ Sweep(t) \/ Adopted(t) \/ Evaluated(t) \/ Cranked(t)
           \/ GraceRecorded(t) \/ DefaultRecorded(t)
    PROVE  PayInv'
<1>1. UNCHANGED <<ledger, adrift, stored, asked, attested>>
  BY DEF View, Sweep, Adopted, Evaluated, Cranked, GraceRecorded, DefaultRecorded
<1>2. \E new : Becomes(t, new) /\ new.at \notin {"read", "attest", "reread"}
  <2>1. CASE \E l \in LoanIds : View(t, l)
    <3>1. PICK l \in LoanIds : Becomes(t, [Idle EXCEPT !.at = "view", !.loan = l])
      BY <2>1 DEF View
    <3>2. [Idle EXCEPT !.at = "view", !.loan = l].at = "view"
      BY IdleFields DEF TaskRecord
    <3> QED
      BY <3>1, <3>2
  <2>2. CASE Sweep(t)
    BY <2>2, NextLoanBecomes DEF Sweep
  <2>3. CASE Finish(t) \/ Continues(t)
    BY <2>3, FinishBecomes
  <2>4. CASE \E call \in {"flag", "liquidate", "flagged", "liquidated"} : Awaits(t, call)
    BY <2>4, AwaitsBecomes DEF ChainInv
  <2> QED
    BY <2>1, <2>2, <2>3, <2>4
    DEF Adopted, Evaluated, Cranked, GraceRecorded, DefaultRecorded
<1> QED
  BY <1>1, <1>2, LetsGo

-----------------------------------------------------------------------------
(* The steps of an attestation                                             *)

LEMMA AttestKeepsPay ==
    ASSUME Patient, ChainInv, PayInv, NEW t \in Handlers, NEW l \in LoanIds,
           NEW i \in Installments, Attest(t, l, i)
    PROVE  PayInv'
<1> DEFINE new == [Idle EXCEPT !.at = "read", !.loan = l, !.n = i]
<1>1. /\ new.at = "read" /\ new.loan = l /\ new.n = i /\ new.reply = "none"
  BY IdleFields DEF TaskRecord
<1>2. Becomes(t, new) /\ t \in Tasks
  BY DEF Attest, Tasks
<1> HIDE DEF new
<1>3. task'[t] = new /\ \A u \in Tasks : u # t => task'[u] = task[u]
  BY <1>2, OtherTasks DEF ChainInv
<1>4. /\ UNCHANGED <<ledger, attested, adrift, stored>> /\ attested[l][i] = 0
      /\ adrift[l] = 0 /\ \A u \in Handlers : task[u].loan = l => ~Attesting(task[u])
  BY DEF Attest, Takes, MayAttest, Attesting
<1>5. /\ i \in asked'[l]
      /\ \A m \in LoanIds : asked[m] \subseteq asked'[m]
  BY DEF Attest, ChainInv, RestOK
<1>6. AloneOK'
  <2>1. ~Attesting(task'[Job])
    BY <1>3, ChainAssumption DEF PayInv, AloneOK, Tasks
  <2>2. ASSUME NEW u \in Tasks, u # t, Attesting(task'[u]) PROVE task'[u].loan # l
    BY <1>3, <1>4, <2>2 DEF PayInv, AloneOK, Tasks
  <2>3. ASSUME NEW u \in Tasks, NEW v \in Tasks, u # v, Attesting(task'[u]), Attesting(task'[v])
        PROVE  task'[u].loan # task'[v].loan
    BY <1>1, <1>3, <2>2, <2>3, Zenon DEF PayInv, AloneOK
  <2> QED
    BY <2>1, <2>3 DEF AloneOK, Attesting
<1>7. TurnsOK'
  <2>1. ASSUME NEW u \in Tasks PROVE TurnOK(task'[u], ledger, asked', attested)
    <3>1. CASE u = t
      BY <1>1, <1>3, <1>4, <1>5, <3>1 DEF TurnOK
    <3>2. CASE u # t
      <4>1. TurnOK(task[u], ledger, asked, attested)
        BY DEF PayInv, TurnsOK
      <4>2. task[u].at \in {"read", "attest"} => task[u].loan \in LoanIds
        BY TaskInOrder DEF ChainInv
      <4> QED
        BY <1>3, <1>5, <3>2, <4>1, <4>2 DEF TurnOK
    <3> QED
      BY <3>1, <3>2
  <2> QED
    BY <1>4, <2>1 DEF TurnsOK
<1>8. AdriftOK'
  <2>1. ASSUME NEW m \in LoanIds, adrift[m] = 1 PROVE AdriftAlone(m)'
    <3>1. m # l /\ AdriftAlone(m)
      BY <1>4, <2>1 DEF PayInv, AdriftOK
    <3> QED
      BY <1>1, <1>3, <1>4, <1>5, <3>1 DEF AdriftAlone
  <2> QED
    BY <1>4, <2>1 DEF PayInv, AdriftOK
<1>9. CountsOK'
  BY <1>4, <1>5 DEF PayInv, CountsOK
<1> QED
  BY <1>6, <1>7, <1>8, <1>9 DEF PayInv

LEMMA AttestReadKeepsPay ==
    ASSUME ChainInv, PayInv, NEW t \in Tasks, AttestRead(t) PROVE PayInv'
<1> DEFINE tk == task[t]  l == tk.loan
<1>1. tk.at = "read" /\ Attesting(tk) /\ UNCHANGED <<ledger, adrift, stored, asked>>
  BY DEF AttestRead, Resumes, Attesting
<1>2. CASE Finish(t) /\ UNCHANGED attested
  BY <1>1, <1>2, FinishBecomes, LetsGo
<1>3. CASE Record(t) /\ Awaits(t, "reread")
  BY <1>1, <1>3, AwaitsBecomes, LetsGo DEF ChainInv
<1>4. CASE Succeeded(t) /\ InTurn(t) /\ Awaits(t, "attest") /\ UNCHANGED attested
  <2>1. PICK new : /\ Becomes(t, new) /\ new.at = "attest" /\ new.loan = l
                   /\ new.n = tk.n /\ new.reply = "none"
    BY <1>4, AwaitsBecomes DEF ChainInv
  <2>2. task'[t] = new /\ \A u \in Tasks : u # t => task'[u] = task[u]
    BY <2>1, OtherTasks DEF ChainInv
  <2>3. AloneOK'
    BY <1>1, <2>1, AloneKept DEF ChainInv, PayInv
  <2>4. tk.n = ledger[l].paid + 1 /\ tk.n \in asked[l] /\ attested[l][tk.n] = 0
    BY <1>1, <1>4 DEF PayInv, TurnsOK, TurnOK, Succeeded, InTurn
  <2>5. TurnsOK'
    <3>1. ASSUME NEW u \in Tasks PROVE TurnOK(task'[u], ledger, asked, attested)
      BY <2>1, <2>2, <2>4 DEF PayInv, TurnsOK, TurnOK
    <3> QED
      BY <1>1, <1>4, <3>1 DEF TurnsOK
  <2>6. AdriftOK'
    <3>1. adrift[l] # 1 /\ l \in LoanIds
      BY <1>1, TaskInOrder DEF PayInv, AdriftOK, AdriftAlone, ChainInv
    <3> QED
      BY <1>1, <2>1, <2>2, <3>1 DEF PayInv, AdriftOK, AdriftAlone
  <2>7. CountsOK'
    BY <1>1, <1>4 DEF PayInv, CountsOK
  <2> QED
    BY <2>3, <2>5, <2>6, <2>7 DEF PayInv
<1> QED
  BY <1>2, <1>3, <1>4 DEF AttestRead

LEMMA AttestSettledKeepsPay ==
    ASSUME ChainInv, PayInv, NEW t \in Tasks, AttestSettled(t) PROVE PayInv'
<1>1. task[t].at = "attest" /\ Attesting(task[t]) /\ UNCHANGED <<ledger, adrift, stored, asked>>
  BY DEF AttestSettled, Resumes, Attesting
<1>2. CASE Finish(t) /\ UNCHANGED attested
  BY <1>1, <1>2, FinishBecomes, LetsGo
<1>3. CASE Record(t) /\ Awaits(t, "reread")
  BY <1>1, <1>3, AwaitsBecomes, LetsGo DEF ChainInv
<1> QED
  BY <1>2, <1>3 DEF AttestSettled

-----------------------------------------------------------------------------
(* The network, the clock and the process                                  *)

\* One more installment was paid if it is the next one.
LEMMA OneMorePaid ==
    ASSUME LedgerOK, NEW l \in LoanIds, 1 .. ledger[l].paid \subseteq asked[l],
           \/ ledger'[l].paid = ledger[l].paid
           \/ ledger'[l].paid = ledger[l].paid + 1 /\ ledger[l].paid + 1 \in asked[l]
    PROVE  1 .. ledger'[l].paid \subseteq asked[l]
BY PaidIsNat

LEMMA ReadAnsweredKeepsPay ==
    ASSUME ChainInv, PayInv, NEW t \in Tasks, ReadAnswered(t) PROVE PayInv'
<1> DEFINE tk == task[t]  l == tk.loan
<1>1. PICK r \in {"ok"} \cup ReadFaults :
        Becomes(t, [tk EXCEPT !.reply = r, !.seen = IF r = "ok" THEN ledger[l] ELSE @])
  BY DEF ReadAnswered
<1> DEFINE new == [tk EXCEPT !.reply = r, !.seen = IF r = "ok" THEN ledger[l] ELSE tk.seen]
<1>2. /\ new.at = tk.at /\ new.loan = l /\ new.n = tk.n /\ new.reply = r
      /\ r = "ok" => new.seen = ledger[l]
  BY TaskInOrder DEF ChainInv, TaskRecord
<1>3. Becomes(t, new) /\ UNCHANGED <<ledger, attested, adrift, stored, asked>>
  BY <1>1 DEF ReadAnswered
<1>4. tk.at \in Reads /\ tk.at # "attest"
  BY DEF ReadAnswered, Pending, Reads
<1> HIDE DEF new
<1>5. task'[t] = new /\ \A u \in Tasks : u # t => task'[u] = task[u]
  BY <1>3, OtherTasks DEF ChainInv
<1>6. AloneOK'
  BY <1>2, <1>3, AloneKept DEF ChainInv, PayInv, Attesting
<1>7. TurnsOK'
  <2>1. ASSUME NEW u \in Tasks PROVE TurnOK(task'[u], ledger, asked, attested)
    <3>1. TurnOK(task[u], ledger, asked, attested)
      BY DEF PayInv, TurnsOK
    <3> QED
      BY <1>2, <1>4, <1>5, <3>1 DEF TurnOK
  <2> QED
    BY <1>3, <2>1 DEF TurnsOK
<1>8. AdriftOK'
  BY <1>2, <1>3, <1>4, <1>5 DEF PayInv, AdriftOK, AdriftAlone
<1>9. CountsOK'
  BY <1>3 DEF PayInv, CountsOK
<1> QED
  BY <1>6, <1>7, <1>8, <1>9 DEF PayInv

LEMMA TxAnsweredKeepsPay ==
    ASSUME ChainInv, PayInv, NEW t \in Tasks, TxAnswered(t) PROVE PayInv'
<1> DEFINE tk == task[t]  l == tk.loan  kind == tk.at
           answer == IF Allowed(kind, ledger[l]) THEN "ok" ELSE "failed"
           taken == IF kind = "liquidate" THEN ForfeitOf(ledger[l]) ELSE tk.forfeit
           new == [tk EXCEPT !.reply = answer, !.forfeit = taken]
<1>1. /\ tk \in TaskRecord /\ l \in LoanIds /\ tk.reply = "none"
      /\ kind \in Transactions /\ kind \notin {"idle", "read", "reread"}
  BY TaskInOrder DEF ChainInv, TxAnswered, Pending, Transactions, Cranks
<1>2. Becomes(t, new) /\ Lands(kind, l) /\ UNCHANGED <<attested, adrift, stored, asked>>
  BY DEF TxAnswered
<1>3. /\ \A m \in LoanIds : m # l => ledger'[m] = ledger[m]
      /\ kind # "attest" => ledger'[l].paid = ledger[l].paid
      /\ \/ ledger'[l].paid = ledger[l].paid
         \/ ledger'[l].paid = ledger[l].paid + 1
  BY <1>1, <1>2, LandsPaid DEF ChainInv
<1>4. new.at = kind /\ new.loan = l /\ new.n = tk.n /\ new.reply # "none"
  BY <1>1 DEF TaskRecord
<1> HIDE DEF new
<1>5. task'[t] = new /\ \A u \in Tasks : u # t => task'[u] = task[u]
  BY <1>2, OtherTasks DEF ChainInv
<1>6. AloneOK'
  BY <1>2, <1>4, AloneKept DEF ChainInv, PayInv, Attesting
<1>7. kind = "attest" => tk.n = ledger[l].paid + 1 /\ tk.n \in asked[l] /\ adrift[l] # 1
  BY <1>1 DEF PayInv, TurnsOK, TurnOK, AdriftOK, AdriftAlone
<1>8. TurnsOK'
  <2>1. ASSUME NEW u \in Tasks PROVE TurnOK(task'[u], ledger', asked, attested)
    <3>1. TurnOK(task[u], ledger, asked, attested)
      BY DEF PayInv, TurnsOK
    <3>2. CASE u = t
      BY <1>1, <1>4, <1>5, <3>1, <3>2 DEF TurnOK
    <3>3. CASE u # t /\ task[u].at \in {"read", "attest"}
      <4>1. task[u].loan \in LoanIds
        BY <3>3, TaskInOrder DEF ChainInv
      <4>2. ledger'[task[u].loan].paid = ledger[task[u].loan].paid
        BY <1>3, <3>3, <4>1 DEF PayInv, AloneOK, Attesting
      <4> QED
        BY <1>5, <3>1, <3>3, <4>2 DEF TurnOK
    <3>4. CASE u # t /\ task[u].at \notin {"read", "attest"}
      BY <1>5, <3>4 DEF TurnOK
    <3> QED
      BY <3>2, <3>3, <3>4
  <2> QED
    BY <1>2, <2>1 DEF TurnsOK
<1>9. AdriftOK'
  <2>1. ASSUME NEW m \in LoanIds, adrift[m] = 1 PROVE AdriftAlone(m)'
    <3>1. AdriftAlone(m) /\ ledger'[m].paid = ledger[m].paid
      BY <1>3, <1>7, <2>1 DEF PayInv, AdriftOK
    <3> QED
      BY <1>1, <1>2, <1>4, <1>5, <3>1 DEF AdriftAlone
  <2> QED
    BY <1>2, <2>1 DEF PayInv, AdriftOK
<1>10. CountsOK'
  <2>1. 1 .. ledger'[l].paid \subseteq asked[l]
    BY <1>1, <1>3, <1>7, OneMorePaid DEF ChainInv, PayInv, CountsOK
  <2> QED
    BY <1>2, <1>3, <2>1 DEF PayInv, CountsOK
<1> QED
  BY <1>6, <1>8, <1>9, <1>10 DEF PayInv

LEMMA TxUnansweredKeepsPay ==
    ASSUME ChainInv, PayInv, NEW t \in Tasks, TxUnanswered(t) PROVE PayInv'
<1>0. PICK l \in LoanIds : l = task[t].loan
  BY TaskInOrder DEF ChainInv, TxUnanswered, Pending, Transactions, Cranks
<1> DEFINE tk == task[t]  new == [tk EXCEPT !.reply = "failed"]
<1>1. /\ tk \in TaskRecord /\ tk.loan = l /\ tk.reply = "none"
      /\ tk.at \in Transactions /\ tk.at \notin {"idle", "read", "reread"}
  BY <1>0, TaskInOrder DEF ChainInv, TxUnanswered, Pending, Transactions, Cranks
<1>2. Becomes(t, new) /\ UNCHANGED <<ledger, attested, stored, asked>>
  BY DEF TxUnanswered
<1>3. new.at = tk.at /\ new.loan = l /\ new.n = tk.n /\ new.reply = "failed"
  BY <1>1 DEF TaskRecord
<1> HIDE DEF new
<1>4. task'[t] = new /\ \A u \in Tasks : u # t => task'[u] = task[u]
  BY <1>2, OtherTasks DEF ChainInv
<1>5. AloneOK'
  BY <1>1, <1>2, <1>3, AloneKept DEF ChainInv, PayInv, Attesting
<1>6. TurnsOK'
  <2>1. ASSUME NEW u \in Tasks PROVE TurnOK(task'[u], ledger, asked, attested)
    <3>1. TurnOK(task[u], ledger, asked, attested)
      BY DEF PayInv, TurnsOK
    <3> QED
      BY <1>1, <1>3, <1>4, <3>1 DEF TurnOK
  <2> QED
    BY <1>2, <2>1 DEF TurnsOK
<1>7. AdriftOK'
  <2>1. CASE UNCHANGED adrift
    BY <1>1, <1>2, <1>3, <1>4, <2>1 DEF PayInv, AdriftOK, AdriftAlone
  <2>2. CASE tk.at = "attest" /\ adrift' = [adrift EXCEPT ![l] = @ + 1]
    <3>1. adrift[l] = 0 /\ ledger[l].paid + 1 \in asked[l]
      BY <1>1, <2>2 DEF PayInv, AdriftOK, AdriftAlone, TurnsOK, TurnOK
    <3>2. \A u \in Tasks : u # t /\ task[u].loan = l => task[u].at \notin {"read", "attest"}
      BY <1>1, <2>2 DEF PayInv, AloneOK, Attesting
    <3>3. AdriftAlone(l)'
      BY <1>2, <1>3, <1>4, <2>2, <3>1, <3>2 DEF AdriftAlone
    <3>4. adrift'[l] = 1 /\ \A m \in LoanIds : m # l => adrift'[m] = adrift[m]
      BY <1>1, <2>2, <3>1 DEF ChainInv, RestOK
    <3>5. ASSUME NEW m \in LoanIds, m # l, adrift[m] = 1 PROVE AdriftAlone(m)'
      BY <1>1, <1>2, <1>3, <1>4, <3>5 DEF PayInv, AdriftOK, AdriftAlone
    <3> QED
      BY <3>3, <3>4, <3>5 DEF PayInv, AdriftOK
  <2> QED
    BY <1>0, <2>1, <2>2 DEF TxUnanswered
<1>8. CountsOK'
  BY <1>2 DEF PayInv, CountsOK
<1> QED
  BY <1>5, <1>6, <1>7, <1>8 DEF PayInv

LEMMA AdriftEndsKeepsPay ==
    ASSUME ChainInv, PayInv, NEW l \in LoanIds, AdriftEnds(l) PROVE PayInv'
<1>0. adrift[l] = 1 /\ AdriftAlone(l)
  BY DEF AdriftEnds, PayInv, AdriftOK
<1>1. /\ AdriftAlone(l)
      /\ adrift' = [adrift EXCEPT ![l] = 0]
      /\ UNCHANGED <<attested, task, stored, asked>>
  BY <1>0 DEF AdriftEnds
<1>2. /\ \A m \in LoanIds : m # l => ledger'[m] = ledger[m]
      /\ \/ ledger'[l].paid = ledger[l].paid
         \/ ledger'[l].paid = ledger[l].paid + 1
  BY LandsPaid DEF AdriftEnds, ChainInv, Transactions
<1>3. AloneOK'
  BY <1>1 DEF PayInv, AloneOK, Attesting
<1>4. TurnsOK'
  <2>1. ASSUME NEW u \in Tasks PROVE TurnOK(task[u], ledger', asked, attested)
    <3>1. TurnOK(task[u], ledger, asked, attested)
      BY DEF PayInv, TurnsOK
    <3>2. task[u].at \in {"read", "attest"} => task[u].loan \in LoanIds
      BY TaskInOrder DEF ChainInv
    <3> QED
      BY <1>1, <1>2, <3>1, <3>2 DEF TurnOK, AdriftAlone
  <2> QED
    BY <1>1, <2>1 DEF TurnsOK
<1>5. AdriftOK'
  <2>1. adrift'[l] = 0 /\ \A m \in LoanIds : m # l => adrift'[m] = adrift[m]
    BY <1>1 DEF ChainInv, RestOK
  <2>2. ASSUME NEW m \in LoanIds, m # l, adrift[m] = 1 PROVE AdriftAlone(m)'
    BY <1>1, <1>2, <2>2 DEF PayInv, AdriftOK, AdriftAlone
  <2> QED
    BY <2>1, <2>2 DEF PayInv, AdriftOK
<1>6. CountsOK'
  <2>1. 1 .. ledger'[l].paid \subseteq asked[l]
    BY <1>1, <1>2, OneMorePaid DEF ChainInv, PayInv, CountsOK, AdriftAlone
  <2> QED
    BY <1>1, <1>2, <2>1 DEF PayInv, CountsOK
<1> QED
  BY <1>3, <1>4, <1>5, <1>6 DEF PayInv

LEMMA OutsideCrankKeepsPay ==
    ASSUME ChainInv, PayInv, NEW l \in LoanIds, OutsideCrank(l) PROVE PayInv'
<1>1. UNCHANGED <<attested, task, adrift, stored, asked>>
  BY DEF OutsideCrank
<1>2. \A m \in LoanIds : ledger'[m].paid = ledger[m].paid
  <2>1. PICK kind \in Cranks : Lands(kind, l)
    BY DEF OutsideCrank
  <2>2. kind \in Transactions /\ kind # "attest"
    BY DEF Cranks, Transactions
  <2> QED
    BY <2>1, <2>2, LandsPaid DEF ChainInv
<1>3. AloneOK' /\ AdriftOK' /\ CountsOK'
  BY <1>1, <1>2 DEF PayInv, AloneOK, Attesting, AdriftOK, AdriftAlone, CountsOK
<1>4. TurnsOK'
  <2>1. ASSUME NEW u \in Tasks PROVE TurnOK(task[u], ledger', asked, attested)
    <3>1. TurnOK(task[u], ledger, asked, attested)
      BY DEF PayInv, TurnsOK
    <3>2. task[u].at \in {"read", "attest"} => task[u].loan \in LoanIds
      BY TaskInOrder DEF ChainInv
    <3> QED
      BY <1>2, <3>1, <3>2 DEF TurnOK
  <2> QED
    BY <1>1, <2>1 DEF TurnsOK
<1> QED
  BY <1>3, <1>4 DEF PayInv

\* A restart forgets every handler; the attestation it was waiting for, if any,
\* is adrift.
LEMMA CrashKeepsPay ==
    ASSUME ChainInv, PayInv, Crash PROVE PayInv'
<1>1. /\ task' = [t \in Tasks |-> Idle] /\ UNCHANGED <<ledger, stored, asked>>
      /\ attested' = stored.attested
  BY DEF Crash
<1>2. \A t \in Tasks : task'[t] = Idle /\ task'[t].at = "idle"
  BY <1>1, IdleFields
<1>3. AloneOK'
  BY <1>2, ChainAssumption DEF AloneOK, Attesting, Tasks
<1>4. TurnsOK'
  BY <1>2 DEF TurnsOK, TurnOK
<1>5. AdriftOK'
  <2>1. ASSUME NEW l \in LoanIds
        PROVE  adrift'[l] \in {0, 1} /\ (adrift'[l] = 1 => AdriftAlone(l)')
    <3> DEFINE cut == {t \in Tasks : Pending(t, {"attest"}) /\ task[t].loan = l}
    <3>1. adrift'[l] = adrift[l] + Cardinality(cut)
      BY DEF Crash
    <3>2. ledger[l].paid + 1 \in asked[l] => AdriftAlone(l)'
      BY <1>1, <1>2 DEF AdriftAlone
    <3> HIDE DEF cut
    <3>3. CASE cut = {}
      <4>1. adrift'[l] = adrift[l]
        <5>1. Cardinality(cut) = 0 /\ adrift[l] \in {0, 1}
          BY <3>3, FS_EmptySet DEF PayInv, AdriftOK
        <5> QED
          BY <3>1, <5>1
      <4> QED
        BY <3>2, <4>1 DEF PayInv, AdriftOK, AdriftAlone
    <3>4. CASE cut # {}
      <4>1. PICK t \in Tasks : Pending(t, {"attest"}) /\ task[t].loan = l
        BY <3>4 DEF cut
      <4>2. cut = {t}
        BY <4>1 DEF cut, PayInv, AloneOK, Attesting, Pending
      <4>3. adrift[l] = 0
        BY <4>1 DEF PayInv, AdriftOK, AdriftAlone, Pending
      <4>4. ledger[l].paid + 1 \in asked[l]
        BY <4>1 DEF PayInv, TurnsOK, TurnOK, Pending
      <4>5. Cardinality(cut) = 1
        BY <4>2, FS_Singleton
      <4> QED
        BY <3>1, <3>2, <4>3, <4>4, <4>5
    <3> QED
      BY <3>3, <3>4
  <2> QED
    BY <2>1 DEF AdriftOK
<1>6. CountsOK'
  BY <1>1 DEF PayInv, CountsOK
<1> QED
  BY <1>3, <1>4, <1>5, <1>6 DEF PayInv

LEMMA RestKeepsPay ==
    ASSUME ChainInv, PayInv, DayPasses \/ Flush \/ UNCHANGED vars PROVE PayInv'
<1>1. /\ UNCHANGED <<ledger, attested, task, adrift, asked>>
      /\ stored'.attested = stored.attested \/ stored'.attested = attested
  BY DEF DayPasses, Flush, vars
<1>2. AloneOK' /\ TurnsOK' /\ AdriftOK'
  BY <1>1 DEF PayInv, AloneOK, Attesting, TurnsOK, TurnOK, AdriftOK, AdriftAlone
<1>3. CountsOK'
  BY <1>1 DEF PayInv, CountsOK
<1> QED
  BY <1>2, <1>3 DEF PayInv

-----------------------------------------------------------------------------
(* The theorem                                                             *)

LEMMA InitPays ==
    ASSUME Init PROVE PayInv
<1>1. \A t \in Tasks : task[t].at = "idle"
  BY IdleFields DEF Init
<1>2. AloneOK /\ TurnsOK
  BY <1>1, ChainAssumption DEF AloneOK, Attesting, TurnsOK, TurnOK, Tasks
<1>3. AdriftOK
  BY DEF Init, AdriftOK
<1>4. CountsOK
  <2>1. \A l \in LoanIds : ledger[l].paid = 0 /\ 1 .. 0 = {}
    BY DEF Init, NewOnLedger
  <2>2. \A l \in LoanIds, i \in Installments : attested[l][i] = 0 /\ stored.attested[l][i] = 0
    BY DEF Init
  <2> QED
    BY <2>1, <2>2 DEF CountsOK
<1> QED
  BY <1>2, <1>3, <1>4 DEF PayInv

LEMMA NextPays ==
    ASSUME Patient, ChainInv, PayInv, [Next]_vars PROVE PayInv'
<1>1. ASSUME NEW t \in Handlers, Request(t) PROVE PayInv'
  BY <1>1, QuietKeepsPay, AttestKeepsPay DEF Request, Tasks
<1>2. CASE Sweep(Job)
  BY <1>2, QuietKeepsPay DEF Tasks
<1>3. ASSUME NEW t \in Tasks, Network(t) PROVE PayInv'
  BY <1>3, ReadAnsweredKeepsPay, TxAnsweredKeepsPay, TxUnansweredKeepsPay DEF Network
<1>4. ASSUME NEW t \in Tasks, Continue(t) PROVE PayInv'
  BY <1>4, AttestReadKeepsPay, AttestSettledKeepsPay, QuietKeepsPay DEF Continue
<1>5. ASSUME NEW l \in LoanIds, OutsideCrank(l) \/ AdriftEnds(l) PROVE PayInv'
  BY <1>5, OutsideCrankKeepsPay, AdriftEndsKeepsPay
<1> QED
  BY <1>1, <1>2, <1>3, <1>4, <1>5, CrashKeepsPay, RestKeepsPay DEF Next

\* Of installments counted that were all paid there are no more than were paid.
LEMMA PayImplies ==
    ASSUME ChainInv, PayInv PROVE PaymentsCountOnce /\ RecordedOnce
<1>1. ASSUME NEW l \in LoanIds PROVE ledger[l].paid <= Cardinality(asked[l])
  <2> DEFINE p == ledger[l].paid
  <2>1. p \in Nat /\ 1 .. p \subseteq asked[l]
    BY PaidIsNat DEF ChainInv, PayInv, CountsOK
  <2>2. Cardinality(1 .. p) = p
    <3> HIDE DEF p
    <3>1. 1 \in Int /\ p \in Int /\ p - 1 + 1 = p /\ (1 > p <=> p = 0)
      BY <2>1
    <3> QED
      BY <3>1, FS_Interval
  <2>3. IsFiniteSet(asked[l])
    <3>1. IsFiniteSet(1 .. Count) /\ asked[l] \subseteq 1 .. Count
      BY FS_Interval, ChainAssumption DEF ChainInv, RestOK, Installments
    <3> QED
      BY <3>1, FS_Subset
  <2>4. Cardinality(1 .. p) <= Cardinality(asked[l])
    BY <2>1, <2>3, FS_Subset
  <2> QED
    BY <2>2, <2>4
<1>2. RecordedOnce
  BY DEF ChainInv, CopiesOK, PayInv, CountsOK, RecordedOnce
<1> QED
  BY <1>1, <1>2 DEF PaymentsCountOnce

\* The ledger counts no more installments of a loan than the partner was paid and
\* attested: whatever calls fail, land late or are cut off by a restart, as long
\* as the partner attests a loan's payments one after the other.
THEOREM PaymentsOnce ==
    ASSUME Patient PROVE Spec => []PaymentsCountOnce
<1>1. Init => ChainInv /\ PayInv
  BY InitHolds, InitPays
<1>2. ChainInv /\ PayInv /\ [Next]_vars => (ChainInv /\ PayInv)'
  BY NextKeeps, NextPays
<1>3. ChainInv /\ PayInv => PaymentsCountOnce
  BY PayImplies
<1> QED
  BY <1>1, <1>2, <1>3, PTL DEF Spec

\* Of no installment is an attestation recorded twice, or before the ledger counts
\* it, under the same condition: also not when the process dies between the
\* ledger's answer and its own record, and the partner tries again.
THEOREM AttestationsOnce ==
    ASSUME Patient PROVE Spec => []RecordedOnce
<1>1. Init => ChainInv /\ PayInv
  BY InitHolds, InitPays
<1>2. ChainInv /\ PayInv /\ [Next]_vars => (ChainInv /\ PayInv)'
  BY NextKeeps, NextPays
<1>3. ChainInv /\ PayInv => RecordedOnce
  BY PayImplies
<1> QED
  BY <1>1, <1>2, <1>3, PTL DEF Spec
=============================================================================
