---------------------------- MODULE DurableBook ----------------------------
(***************************************************************************)
(* The loan book with its durable copy: handlers, sweeps and operators     *)
(* change the stores as LoanBook says, flushes write them to the database  *)
(* as DurableCopy says, and the process may die and start again with every *)
(* handler forgotten.  What the partner did, and the day, are not the      *)
(* process's to forget.                                                    *)
(***************************************************************************)
EXTENDS LoanBookProperties

CONSTANTS DatabaseFailures,  \* DurableCopy's CommitFailures
          GatewayForgets,    \* whether a restart empties the gateway's positions
          MaxCrashes         \* bound on restarts

ASSUME DurableAssumption ==
    /\ DatabaseFailures \subseteq {"rolledBack", "unacknowledged"}
    /\ GatewayForgets \in BOOLEAN
    /\ MaxCrashes \in Nat

VARIABLES database, written, flush, queue, queued, crashes

copyVars == <<database, written, flush, queue, queued>>

allVars == <<vars, copyVars, crashes>>

\* The rows that back the book: a vault, a loan, the record of an attestation.
VaultRow(g) == <<"vaults", g>>

LoanRow(l) == <<"loans", l>>

AttestationRow(l, i) == <<"repayment_attestations", l, i>>

VaultRows == {VaultRow(g) : g \in Guarantors}

LoanRows == {LoanRow(l) : l \in LoanIds}

AttestationRows == {AttestationRow(l, i) : l \in LoanIds, i \in Installments}

Rows == VaultRows \cup LoanRows \cup AttestationRows

\* The stores as the copy sees them, row by row.
Stores ==
    [k \in Rows |->
       CASE k \in VaultRows -> vault[k[2]]
         [] k \in LoanRows -> IF k[2] \in book THEN loan[k[2]] ELSE None
         [] k \in AttestationRows -> IF attested[k[2]][k[3]] = 0 THEN None
                                     ELSE attested[k[2]][k[3]]]

Copy == INSTANCE DurableCopy WITH
    Keys <- Rows, Values <- VaultAccount \cup LoanRecord \cup Nat, Absent <- None,
    AppendOnly <- AttestationRows, CommitFailures <- DatabaseFailures,
    MaxQueue <- 1, memory <- Stores

DurableInit ==
    /\ Init
    /\ database = Stores
    /\ written = Stores
    /\ flush = [changed |-> {}, image |-> Stores]
    /\ queue = 0
    /\ queued = FALSE
    /\ crashes = 0

\* A step of the book, whatever the copy is doing.
BookStep == Next /\ UNCHANGED <<copyVars, crashes>>

\* Flushes are callbacks of the event loop: they begin and end between turns.
CopyStep ==
    /\ Quiet
    /\ UNCHANGED <<vars, crashes>>
    /\ \/ Copy!SchedulePersist \/ Copy!StartFlush
       \/ Copy!Commit \/ Copy!CommitFails

\* loadStores, table by table.
AttestedFrom(rows) ==
    [l \in LoanIds |-> [i \in Installments |->
        IF rows[AttestationRow(l, i)] = None THEN 0 ELSE rows[AttestationRow(l, i)]]]

BookFrom(rows) == {l \in LoanIds : rows[LoanRow(l)] # None}

VaultsFrom(rows) == [g \in Guarantors |-> rows[VaultRow(g)]]

\* A loan that was never written is no loan any more, but its id stays used.
Forgotten == [NoLoan EXCEPT !.status = "forgotten"]

\* The process dies, in the middle of a turn or between two, and loads the
\* stores again.  Requests are gone with their connections.
Crash ==
    /\ crashes < MaxCrashes
    /\ crashes' = crashes + 1
    /\ Copy!FromDatabase
    /\ vault' = VaultsFrom(database')
    /\ book' = BookFrom(database')
    /\ loan' = [l \in LoanIds |->
                   IF l \in book' THEN database'[LoanRow(l)]
                   ELSE IF loan[l].status = "none" THEN NoLoan ELSE Forgotten]
    /\ attested' = AttestedFrom(database')
    /\ position' = IF GatewayForgets THEN [g \in Guarantors |-> EmptyPosition] ELSE position
    /\ task' = [t \in Tasks |-> Idle]
    /\ UNCHANGED <<payout, now>>

DurableNext == BookStep \/ CopyStep \/ Crash

DurableSpec == DurableInit /\ [][DurableNext]_allVars

-----------------------------------------------------------------------------
(* What survives a restart, with LoanBookProperties' invariants            *)

\* A loan the database holds as closed stays closed there, its collateral as it
\* was: no crash, retried flush or retried request reopens it.
StoredCloseIsFinal ==
    [][\A l \in LoanIds :
         LET row    == database[LoanRow(l)]
             closed == row # None /\ row.status \in {"repaid", "defaulted"}
         IN closed => /\ database'[LoanRow(l)] # None
                      /\ \A f \in {"status", "released", "forfeited"} :
                            database'[LoanRow(l)][f] = row[f]]_allVars
=============================================================================
