-------------------------- MODULE GatewayPositions --------------------------
(***************************************************************************)
(* The second account of the same collateral: the position the contract    *)
(* gateway keeps for each vault (src/contracts/mock-gateway.ts), a balance *)
(* and an amount locked per loan.  Locked and available totals are         *)
(* recomputed from the per-loan amounts after each change, so they are     *)
(* operators here and not state.                                           *)
(***************************************************************************)
EXTENDS Integers, FiniteSetsExt

CONSTANT LoanIds

ASSUME LoanIdsAssumption == IsFiniteSet(LoanIds)

Position == [balance : Int, perLoan : [LoanIds -> Int]]

EmptyPosition == [balance |-> 0, perLoan |-> [l \in LoanIds |-> 0]]

PositionLocked(p) == MapThenSumSet(LAMBDA l : p.perLoan[l], LoanIds)

PositionAvailable(p) == p.balance - PositionLocked(p)

GwDeposit(p, amount) == [p EXCEPT !.balance = @ + amount]

GwWithdraw(p, amount) == [p EXCEPT !.balance = @ - amount]

GwLock(p, l, amount) == [p EXCEPT !.perLoan[l] = @ + amount]

GwRelease(p, l, amount) ==
    [p EXCEPT !.perLoan[l] = IF @ > amount THEN @ - amount ELSE 0]

\* liquidateCollateral: forfeited collateral leaves the vault entirely.
GwLiquidate(p, l, amount) ==
    [balance |-> IF p.balance > amount THEN p.balance - amount ELSE 0,
     perLoan |-> [p.perLoan EXCEPT ![l] = IF @ > amount THEN @ - amount ELSE 0]]
=============================================================================
