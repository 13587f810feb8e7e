--------------------------- MODULE LoanLifecycle ---------------------------
(***************************************************************************)
(* What a loan promises the guarantor whose collateral backs it, whatever  *)
(* calls, tasks and accounts realise it.  Collateral is held for an open   *)
(* loan, comes back in part with each installment but never all of it      *)
(* before the last, goes to the settlement address only when a grace       *)
(* period has run out, and is accounted for to the cent at the end.        *)
(***************************************************************************)
EXTENDS Integers

CONSTANT LoanIds

VARIABLES
    status,    \* none, active, grace, or how the loan ended
    held,      \* collateral held for the loan
    returned,  \* collateral given back to the guarantor
    taken      \* collateral forfeited

lifecycle == <<status, held, returned, taken>>

Open(l) == status[l] \in {"active", "grace"}

Init ==
    /\ status = [l \in LoanIds |-> "none"]
    /\ held = [l \in LoanIds |-> 0]
    /\ returned = [l \in LoanIds |-> 0]
    /\ taken = [l \in LoanIds |-> 0]

Lend(l) ==
    /\ status[l] = "none"
    /\ status' = [status EXCEPT ![l] = "active"]
    /\ held' = [held EXCEPT ![l] = held'[l]] /\ held'[l] > 0
    /\ UNCHANGED <<returned, taken>>

Miss(l) ==
    /\ status[l] = "active"
    /\ status' = [status EXCEPT ![l] = "grace"]
    /\ UNCHANGED <<held, returned, taken>>

\* What leaves the collateral held for l, other than what is taken, returns.
GivesBack(l) ==
    /\ held' = [held EXCEPT ![l] = held'[l]]
    /\ returned' = [returned EXCEPT
         ![l] = @ + (held[l] - held'[l]) - (taken'[l] - taken[l])]

\* An installment other than the last: something stays held, and a missed
\* payment may be made good.
Installment(l) ==
    /\ Open(l)
    /\ status' = [status EXCEPT ![l] = status'[l]]
    /\ status'[l] \in {"active", status[l]}
    /\ held'[l] \in 1 .. held[l]
    /\ UNCHANGED taken
    /\ GivesBack(l)

Repay(l) ==
    /\ Open(l)
    /\ status' = [status EXCEPT ![l] = "repaid"]
    /\ held'[l] = 0
    /\ UNCHANGED taken
    /\ GivesBack(l)

Default(l) ==
    /\ status[l] = "grace"
    /\ status' = [status EXCEPT ![l] = "defaulted"]
    /\ held'[l] = 0
    /\ taken' = [taken EXCEPT ![l] = taken'[l]]
    /\ taken'[l] \in 1 .. held[l]
    /\ GivesBack(l)

\* The loan turns out never to have been disbursed: everything comes back.
Unwind(l) ==
    /\ Open(l)
    /\ returned[l] = 0
    /\ status' = [status EXCEPT ![l] = "unwound"]
    /\ held'[l] = 0
    /\ UNCHANGED taken
    /\ GivesBack(l)

Next == \E l \in LoanIds :
    Lend(l) \/ Miss(l) \/ Installment(l) \/ Repay(l) \/ Default(l) \/ Unwind(l)

Spec == Init /\ [][Next]_lifecycle
=============================================================================
