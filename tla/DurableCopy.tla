---------------------------- MODULE DurableCopy ----------------------------
(***************************************************************************)
(* The durable copy of the in-memory stores (src/persistence/snapshot.ts). *)
(* Services change the stores in place; a flush compares every entity with *)
(* what was last written, sends the differences in one transaction, and    *)
(* marks them as written once the database has acknowledged it.  Flushes   *)
(* run one at a time.  The process may die at any moment; it then starts   *)
(* again from what the database holds.                                     *)
(*                                                                         *)
(* A key is one row of one table, a value the entity's JSON.               *)
(***************************************************************************)
EXTENDS Naturals

CONSTANTS
    Keys, Values, Absent, \* rows, entities, and no such row
    AppendOnly,           \* rows of tables whose entities never change
    CommitFailures,       \* how a transaction may fail
    MaxQueue              \* bound on the flushes waiting for their turn

ASSUME CopyAssumption ==
    /\ AppendOnly \subseteq Keys
    /\ Absent \notin Values
    /\ CommitFailures \subseteq {"rolledBack", "unacknowledged"}
    /\ MaxQueue \in Nat

VARIABLES
    memory,   \* the stores
    database, \* what PostgreSQL holds
    written,  \* what was last written, as far as the process knows
    flush,    \* the transaction under way: the changed rows, the stores it read
    queue,    \* flushes asked for and not begun
    queued    \* whether schedulePersist has asked for one of them

copy == <<database, written, flush, queue, queued>>

vars == <<memory, copy>>

Table == [Keys -> Values \cup {Absent}]

NoChange == {}

\* No transaction is under way; `image` is left from the last one.
FlushIdle == flush.changed = NoChange

\* Mutant: rows the stores no longer have are overlooked.
UpsertsOnly == {k \in Keys : memory[k] # Absent /\ memory[k] # written[k]}

\* The rows a flush would insert or update, and those it would delete.  Of an
\* append-only table it adds the rows it has not seen.
Changed ==
    {k \in Keys : IF k \in AppendOnly THEN written[k] = Absent /\ memory[k] # Absent
                                      ELSE written[k] # memory[k]}

\* Mutant: a transaction that inserts and updates but deletes nothing.
ApplyUpserts(table) ==
    [k \in Keys |-> IF k \in flush.changed /\ flush.image[k] # Absent
                    THEN flush.image[k] ELSE table[k]]

\* A table with the changes of the transaction under way made to it.
Apply(table) ==
    [k \in Keys |-> IF k \in flush.changed THEN flush.image[k] ELSE table[k]]

Init ==
    /\ memory \in Table
    /\ database = memory
    /\ written = memory
    /\ flush = [changed |-> NoChange, image |-> memory]
    /\ queue = 0
    /\ queued = FALSE

\* A service sets or deletes an entity (external).  Append-only ones are set once.
Change(k, v) ==
    /\ memory[k] # v
    /\ k \in AppendOnly => memory[k] = Absent
    /\ memory' = [memory EXCEPT ![k] = v]
    /\ UNCHANGED copy

\* schedulePersist: after a response, after a sweep, every five seconds.
SchedulePersist ==
    /\ ~queued
    /\ queue < MaxQueue
    /\ queued' = TRUE
    /\ queue' = queue + 1
    /\ UNCHANGED <<memory, database, written, flush>>

\* flushNow enqueues another, whatever is waiting already.
FlushNow ==
    /\ queue < MaxQueue
    /\ queue' = queue + 1
    /\ UNCHANGED <<memory, database, written, flush, queued>>

\* The next flush's turn: it reads the stores in one go.  Finding nothing
\* changed, it ends there.
StartFlush ==
    /\ FlushIdle
    /\ queue > 0
    /\ queue' = queue - 1
    /\ queued' = FALSE
    /\ flush' = [changed |-> Changed, image |-> memory]
    /\ UNCHANGED <<memory, database, written>>

FlushEnds == flush' = [flush EXCEPT !.changed = NoChange]

\* Mutants: the stores are marked as written, with what changed since; what was
\* written before is forgotten.
MarkedFromMemory(table) == memory

MarkedAnew(table) == [k \in flush.changed |-> flush.image[k]]

\* What is known to be written after an acknowledged transaction.
Marked(table) == Apply(table)

\* COMMIT acknowledged: what was sent, not what the stores hold by now, is
\* marked as written.
Commit ==
    /\ ~FlushIdle
    /\ database' = Apply(database)
    /\ written' = Marked(written)
    /\ FlushEnds
    /\ UNCHANGED <<memory, queue, queued>>

\* A statement failed and everything was rolled back; or the database committed
\* and the connection broke before it could say so.  To the process the two are
\* the same failure, and nothing is marked.
CommitFails ==
    /\ ~FlushIdle
    /\ database' \in {IF failure = "rolledBack" THEN database ELSE Apply(database)
                        : failure \in CommitFailures}
    /\ FlushEnds
    /\ UNCHANGED <<memory, written, queue, queued>>

\* The process dies, the transaction under way committed or not; it starts
\* again knowing nothing but what the database holds.
FromDatabase ==
    /\ database' \in {database, Apply(database)}
    /\ written' = database'
    /\ flush' = [changed |-> NoChange, image |-> database']
    /\ queue' = 0
    /\ queued' = FALSE

\* loadStores replaces the stores by the tables.
Restart == FromDatabase /\ memory' = database'

Next ==
    \/ \E k \in Keys, v \in Values \cup {Absent} : Change(k, v)
    \/ SchedulePersist \/ FlushNow
    \/ StartFlush \/ Commit \/ CommitFails
    \/ Restart

Spec == Init /\ [][Next]_vars

-----------------------------------------------------------------------------
(* What the copy promises                                                  *)

\* Every variable keeps its type.
CopyTypeOK ==
    /\ memory \in Table /\ database \in Table /\ written \in Table
    /\ flush \in [changed : SUBSET Keys, image : Table]
    /\ queue \in 0 .. MaxQueue
    /\ queued \in BOOLEAN

\* When a flush would find nothing to write, the database holds exactly what
\* the stores hold: no change made during an earlier flush is missed, and
\* "the next flush retries all of" what a failed one did not write.
NothingLeftMeansStored == FlushIdle /\ Changed = NoChange => database = memory

\* A transaction takes the database to the stores as they were at one moment:
\* never to a mixture of two, whatever changed while it was being written.
DatabaseIsSnapshot ==
    [][database' # database => database' = flush.image]_vars

\* The five-second timer asks for flushes for ever, they get their turn, and
\* neither does the database fail every transaction nor the process die in it.
CopyFairness ==
    /\ WF_vars(SchedulePersist)
    /\ WF_vars(StartFlush)
    /\ SF_vars(Commit)

FairSpec == Spec /\ CopyFairness

\* An entity that stays as it is gets written, and a deletion too.
ChangesAreStored ==
    \A k \in Keys, v \in Values \cup {Absent} :
        memory[k] = v ~> (database[k] = v \/ memory[k] # v)
=============================================================================
