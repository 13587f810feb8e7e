--------------------------- MODULE VaultAccounts ---------------------------
(***************************************************************************)
(* The backend's own account of one guarantor's collateral, and what the   *)
(* operations of src/services/vault.service.ts make of it.  A guarantor    *)
(* has exactly one vault, so a vault is named by its guarantor.  Every     *)
(* operation here runs without awaiting anything; the asynchronous ones    *)
(* (deposit, withdraw) are in LoanBook, where their awaits matter.         *)
(***************************************************************************)
EXTENDS Integers

VaultAccount == [balance : Int, locked : Int]

EmptyVault == [balance |-> 0, locked |-> 0]

Available(v) == v.balance - v.locked

\* deposit and withdraw, once the gateway has accepted them.
Deposited(v, amount) == [v EXCEPT !.balance = @ + amount]

Withdrawn(v, amount) == [v EXCEPT !.balance = @ - amount]

\* lockCollateral throws when the amount exceeds what is available.
CanLock(v, amount) == amount <= Available(v)

LockedUp(v, amount) == [v EXCEPT !.locked = @ + amount]

\* releaseCollateral never takes the locked amount below zero.
Released(v, amount) ==
    [v EXCEPT !.locked = IF @ > amount THEN @ - amount ELSE 0]

\* Mutant: forfeited collateral stays locked.
ForfeitedButLocked(v, amount) == [v EXCEPT !.balance = @ - amount]

\* forfeitCollateral: the amount leaves the vault, capped by what is there.
Forfeited(v, amount) ==
    LET cap   == IF v.locked < v.balance THEN v.locked ELSE v.balance
        taken == IF amount < cap THEN amount ELSE cap
    IN  [balance |-> IF v.balance > taken THEN v.balance - taken ELSE 0,
         locked  |-> IF v.locked > taken THEN v.locked - taken ELSE 0]
=============================================================================
