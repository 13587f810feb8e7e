------------------------ MODULE BackendProcess_proofs ------------------------
(***************************************************************************)
(* What the durable copy promises of any tables, entities and timing, as   *)
(* long as a failed flush is one the database rolled back; and what the    *)
(* process around it promises when it is told to stop.                     *)
(***************************************************************************)
EXTENDS BackendProcess, FiniteSetTheorems, WellFoundedInduction, TLAPS

-----------------------------------------------------------------------------
(* The durable copy alone                                                  *)


\* An append-only row the process knows to be written, or is writing, is the
\* one in the stores: rows of those tables never change.
AppendOnlyKept ==
    \A k \in AppendOnly :
        /\ written[k] # Absent => memory[k] = written[k]
        /\ k \in flush.changed => flush.image[k] # Absent /\ memory[k] = flush.image[k]

\* What the transaction under way does not change is as it was when it began.
RestIsStored ==
    ~FlushIdle => \A k \in Keys \ flush.changed : flush.image[k] = database[k]

\* The strengthening: the process knows exactly what the database holds.
CopyInv ==
    /\ CopyTypeOK
    /\ written = database
    /\ AppendOnlyKept
    /\ RestIsStored

\* Applying the transaction under way gives a table.
LEMMA ApplyTyped ==
    ASSUME CopyTypeOK, NEW table \in Table
    PROVE  Apply(table) \in Table
BY DEF CopyTypeOK, Table, Apply

\* The flag is a Boolean, whatever the other variables are.
LEMMA QueuedStep == queued \in BOOLEAN /\ [Next]_vars => queued' \in BOOLEAN
BY DEF Next, vars, copy, Change, SchedulePersist, FlushNow, StartFlush, Commit,
       CommitFails, Restart, FromDatabase

\* Types are kept by every step, whatever fails.
LEMMA TypeStep ==
    ASSUME CopyTypeOK, [Next]_vars
    PROVE  CopyTypeOK'
<1> DEFINE Typed == /\ memory \in Table /\ database \in Table /\ written \in Table
                    /\ flush \in [changed : SUBSET Keys, image : Table]
                    /\ queue \in 0 .. MaxQueue
<1> USE CopyAssumption DEF NoChange
<1>0. Typed
  BY DEF CopyTypeOK
<1> SUFFICES Typed'
  BY QueuedStep, Zenon DEF CopyTypeOK
<1>1. Apply(database) \in Table /\ Apply(written) \in Table
  BY ApplyTyped DEF CopyTypeOK
<1>2. ASSUME NEW k \in Keys, NEW v \in Values \cup {Absent}, Change(k, v)
      PROVE  Typed'
  BY <1>0, <1>2 DEF Change, copy, Table
<1>3. CASE SchedulePersist
  BY <1>0, <1>3 DEF SchedulePersist
<1>4. CASE FlushNow
  BY <1>0, <1>4 DEF FlushNow
<1>5. CASE StartFlush
  <2>1. Changed \subseteq Keys
    BY DEF Changed
  <2>2. flush' = [changed |-> Changed, image |-> memory] /\ queue' \in 0 .. MaxQueue
    BY <1>0, <1>5 DEF StartFlush
  <2> QED
    BY <1>0, <1>5, <2>1, <2>2 DEF StartFlush
<1>6. CASE Commit
  BY <1>0, <1>1, <1>6 DEF Commit, FlushEnds, Marked
<1>7. CASE CommitFails
  BY <1>0, <1>1, <1>7 DEF CommitFails, FlushEnds
<1>8. CASE Restart
  BY <1>0, <1>1, <1>8 DEF Restart, FromDatabase
<1>9. CASE UNCHANGED vars
  BY <1>0, <1>9 DEF vars, copy
<1> QED
  BY <1>0, <1>2, <1>3, <1>4, <1>5, <1>6, <1>7, <1>8, <1>9 DEF Next, CopyTypeOK

\* A row a flush would leave alone is written as the stores have it.
LEMMA UnchangedIsWritten ==
    ASSUME CopyInv, NEW k \in Keys, k \notin Changed
    PROVE  memory[k] = written[k]
BY DEF CopyInv, AppendOnlyKept, Changed

\* The transaction under way takes the database to the stores it read.
LEMMA ApplyIsImage ==
    ASSUME CopyInv, ~FlushIdle
    PROVE  Apply(database) = flush.image
<1>1. \A k \in Keys : Apply(database)[k] = flush.image[k]
  BY DEF CopyInv, RestIsStored, Apply
<1>2. flush.image = [k \in Keys |-> flush.image[k]]
  BY DEF CopyInv, CopyTypeOK, Table
<1> QED
  BY <1>1, <1>2 DEF Apply

\* The process knows what the database holds, after every step.
LEMMA CopyStep ==
    ASSUME "unacknowledged" \notin CommitFailures, CopyInv, [Next]_vars
    PROVE  CopyInv'
<1> USE CopyAssumption
<1>1. CopyTypeOK'
  BY TypeStep DEF CopyInv
<1>2. ASSUME NEW k \in Keys, NEW v \in Values \cup {Absent}, Change(k, v)
      PROVE  (written = database /\ AppendOnlyKept /\ RestIsStored)'
  <2>1. \A j \in Keys : j # k => memory'[j] = memory[j]
    BY <1>2 DEF Change, CopyInv, CopyTypeOK, Table
  <2>2. k \in AppendOnly => memory[k] = Absent
    BY <1>2 DEF Change
  <2>3. UNCHANGED copy
    BY <1>2 DEF Change
  <2> QED
    BY <2>1, <2>2, <2>3 DEF copy, CopyInv, AppendOnlyKept, RestIsStored, FlushIdle
<1>3. CASE SchedulePersist
  BY <1>1, <1>3 DEF SchedulePersist, CopyInv, AppendOnlyKept, RestIsStored, FlushIdle
<1>4. CASE FlushNow
  BY <1>1, <1>4 DEF FlushNow, CopyInv, AppendOnlyKept, RestIsStored, FlushIdle
<1>5. CASE StartFlush
  <2>1. flush'.changed = Changed /\ flush'.image = memory
    BY <1>5 DEF StartFlush
  <2>2. written' = database' /\ UNCHANGED <<memory, written, database>>
    BY <1>5 DEF StartFlush, CopyInv
  <2>3. RestIsStored'
    BY <2>1, <2>2, UnchangedIsWritten DEF RestIsStored
  <2>4. AppendOnlyKept'
    BY <2>1, <2>2 DEF AppendOnlyKept, CopyInv, Changed
  <2> QED
    BY <1>1, <2>2, <2>3, <2>4 DEF CopyInv
<1>6. CASE Commit
  <2>1. written' = flush.image /\ database' = flush.image
    BY <1>6, ApplyIsImage DEF Commit, Marked, CopyInv
  <2>2. flush'.changed = {} /\ UNCHANGED memory
    BY <1>6 DEF Commit, FlushEnds, NoChange, CopyInv, CopyTypeOK
  <2>3. ASSUME NEW k \in AppendOnly, flush.image[k] # Absent
        PROVE  memory[k] = flush.image[k]
    BY <1>6, <2>3 DEF Commit, CopyInv, AppendOnlyKept, RestIsStored
  <2> QED
    BY <1>1, <2>1, <2>2, <2>3 DEF CopyInv, AppendOnlyKept, RestIsStored, FlushIdle, NoChange
<1>7. CASE CommitFails
  <2>1. UNCHANGED <<memory, database, written>>
    BY <1>7 DEF CommitFails
  <2>2. flush'.changed = {}
    BY <1>7 DEF CommitFails, FlushEnds, NoChange, CopyInv, CopyTypeOK
  <2> QED
    BY <1>1, <2>1, <2>2 DEF CopyInv, AppendOnlyKept, RestIsStored, FlushIdle, NoChange
<1>8. CASE Restart
  BY <1>1, <1>8
  DEF Restart, FromDatabase, CopyInv, AppendOnlyKept, RestIsStored, FlushIdle, NoChange
<1>9. CASE UNCHANGED vars
  BY <1>1, <1>9 DEF vars, copy, CopyInv, AppendOnlyKept, RestIsStored, FlushIdle
<1> QED
  BY <1>1, <1>2, <1>3, <1>4, <1>5, <1>6, <1>7, <1>8, <1>9 DEF Next, CopyInv

LEMMA TypedInitially == Init => CopyTypeOK
<1> SUFFICES ASSUME Init PROVE CopyTypeOK
  OBVIOUS
<1>1. flush \in [changed : SUBSET Keys, image : Table]
  BY DEF Init, NoChange
<1>2. queue \in 0 .. MaxQueue
  BY CopyAssumption DEF Init
<1>3. queued \in BOOLEAN
  BY DEF Init
<1> QED
  BY <1>1, <1>2, <1>3, Zenon DEF Init, CopyTypeOK

\* It knows to begin with: the stores were just loaded.
LEMMA CopyInitially == Init => CopyInv
<1> SUFFICES ASSUME Init PROVE CopyInv
  OBVIOUS
<1>1. CopyTypeOK
  BY TypedInitially
<1> QED
  BY <1>1 DEF Init, CopyInv, AppendOnlyKept, RestIsStored, FlushIdle, NoChange

LEMMA AlwaysKnown ==
    ASSUME "unacknowledged" \notin CommitFailures
    PROVE  Spec => []CopyInv
BY CopyInitially, CopyStep, PTL DEF Spec

\* Every variable keeps its type, however flushes fail.
THEOREM CopyTypesKept == Spec => []CopyTypeOK
BY TypedInitially, TypeStep, PTL DEF Spec

\* When a flush would find nothing to write, the database holds what the stores
\* hold, for any tables and any interleaving of changes, flushes and restarts,
\* unless the acknowledgement of a transaction was lost.
THEOREM NothingLeft ==
    ASSUME "unacknowledged" \notin CommitFailures
    PROVE  Spec => []NothingLeftMeansStored
<1>1. CopyInv => NothingLeftMeansStored
  <2> SUFFICES ASSUME CopyInv, FlushIdle, Changed = NoChange
               PROVE  database = memory
    BY DEF NothingLeftMeansStored
  <2>1. \A k \in Keys : memory[k] = database[k]
    BY UnchangedIsWritten DEF NoChange, CopyInv
  <2> QED
    BY <2>1 DEF CopyInv, CopyTypeOK, Table
<1> QED
  BY <1>1, AlwaysKnown, PTL

\* Each transaction takes the database to the stores as they were at the moment
\* its flush began, under the same condition.
THEOREM Snapshots ==
    ASSUME "unacknowledged" \notin CommitFailures
    PROVE  Spec => DatabaseIsSnapshot
<1>1. ASSUME CopyInv, Next, database' # database
      PROVE  database' = flush.image
  <2>1. CASE Commit
    BY <1>1, <2>1, ApplyIsImage DEF Commit
  <2>2. CASE CommitFails
    BY <1>1, <2>2, CopyAssumption DEF CommitFails
  <2>3. CASE Restart
    <3>1. database' = Apply(database)
      BY <1>1, <2>3 DEF Restart, FromDatabase
    <3>2. ~FlushIdle
      BY <1>1, <3>1 DEF FlushIdle, NoChange, Apply, CopyInv, CopyTypeOK, Table
    <3> QED
      BY <1>1, <3>1, <3>2, ApplyIsImage
  <2> QED
    BY <1>1, <2>1, <2>2, <2>3
    DEF Next, Change, SchedulePersist, FlushNow, StartFlush, copy
<1>2. CopyInv /\ [Next]_vars => [database' # database => database' = flush.image]_vars
  BY <1>1
<1> QED
  BY <1>2, AlwaysKnown, PTL DEF Spec, DatabaseIsSnapshot

-----------------------------------------------------------------------------
(***************************************************************************)
(* A shutdown reported as complete.  The sweep's promise is the one waited *)
(* for, so that when requests and sweep have settled nothing changes the   *)
(* stores any more, and the last flush to have its turn takes them as they *)
(* stay.                                                                   *)
(***************************************************************************)

RowsHeld(table) == \A k \in Rows : table[k] # Absent

ProcessTyped ==
    /\ CopyTypeOK
    /\ now \in 1 .. MaxTime
    /\ requests \in [Handlers -> Rows \cup {NoRow}]
    /\ RowsHeld(memory) /\ RowsHeld(database) /\ RowsHeld(flush.image)

\* A sweep under way is waited for: its promise is the one kept.
SweepIsAwaited ==
    /\ phase = "loading" => ~running
    /\ Up /\ running => currentTick = "pending"
    /\ phase = "closing" /\ running => awaited = "pending"

\* Once everything has settled, what the last flush takes is what stays.
LastFlushTakesAll ==
    phase = "stopping" /\ ~timedOut =>
        /\ ~running /\ RequestsSettled
        /\ queue = 0 /\ ~FlushIdle => flush.image = memory
        /\ queue = 0 /\ FlushIdle /\ flushed = "ok" => database = memory

\* The strengthening; the process knows what the database holds while it is up.
StopInv ==
    /\ ProcessTyped
    /\ Up => CopyInv
    /\ SweepIsAwaited
    /\ LastFlushTakesAll
    /\ CompleteMeansStored

\* A service that changes a row of the stores leaves the copy as it is.
LEMMA MemoryMoves ==
    ASSUME CopyTypeOK, NEW k \in Keys, NEW v \in Values \cup {Absent},
           memory' = [memory EXCEPT ![k] = v], UNCHANGED copy
    PROVE  CopyTypeOK' /\ (CopyInv => CopyInv')
<1>1. memory' \in Table
  BY DEF CopyTypeOK, Table
<1>2. CopyTypeOK'
  BY <1>1 DEF CopyTypeOK, copy
<1> QED
  BY <1>2, ProcessAssumption DEF CopyInv, AppendOnlyKept, RestIsStored, FlushIdle, copy

LEMMA StopStart == ProcessInit => StopInv
<1> SUFFICES ASSUME ProcessInit PROVE StopInv
  OBVIOUS
<1>1. CopyTypeOK
  BY TypedInitially DEF ProcessInit
<1>2. 0 \in Values /\ Absent \notin Values
  BY ProcessAssumption, CopyAssumption
<1>3. \A k \in Rows : memory[k] = 0
  BY ProcessAssumption DEF ProcessInit
<1>4. ProcessTyped
  BY <1>1, <1>2, <1>3, ProcessAssumption DEF ProcessInit, ProcessTyped, RowsHeld, Init
<1> QED
  BY <1>4 DEF ProcessInit, StopInv, SweepIsAwaited, LastFlushTakesAll, CompleteMeansStored, Up

\* The rows and their types, whatever happens.
LEMMA ProcessTypeKept ==
    ASSUME ProcessTyped, [ProcessNext]_processVars
    PROVE  ProcessTyped'
<1> USE DEF RowsHeld
<1>a. /\ Keys = Tokens \cup Rows /\ Tokens \cap Rows = {} /\ Values \subseteq Nat
      /\ 0 .. MaxChanges \subseteq Values /\ 1 .. MaxTime + SessionTtl \subseteq Values
      /\ MaxTime \in Nat \ {0} /\ SessionTtl \in Nat /\ MaxChanges \in Nat /\ Absent \notin Values
  BY ProcessAssumption, CopyAssumption
<1>b. /\ memory \in Table /\ database \in Table /\ flush.image \in Table
      /\ now \in 1 .. MaxTime
  BY DEF ProcessTyped, CopyTypeOK
<1>c. ASSUME NEW k \in Rows, CanChange(k), Changes(k), UNCHANGED copy
      PROVE  CopyTypeOK' /\ RowsHeld(memory')
  <2>1. memory[k] \in Nat /\ memory[k] + 1 \in Values
    <3>1. memory[k] \in Values /\ memory[k] < MaxChanges
      BY <1>a, <1>b, <1>c DEF Table, CanChange, ProcessTyped
    <3>2. memory[k] \in Nat /\ memory[k] + 1 \in 0 .. MaxChanges
      <4> DEFINE m == memory[k]
      <4>1. m \in Nat /\ m < MaxChanges /\ MaxChanges \in Nat
        BY <1>a, <3>1
      <4> HIDE DEF m
      <4>2. m + 1 \in 0 .. MaxChanges
        BY <4>1
      <4> QED
        BY <4>1, <4>2 DEF m
    <3> QED
      BY <1>a, <3>2
  <2>2. memory' = [memory EXCEPT ![k] = memory[k] + 1]
    BY <1>c DEF Changes
  <2> QED
    BY <1>a, <1>b, <1>c, <2>1, <2>2, MemoryMoves DEF ProcessTyped, Table
<1>d. UNCHANGED <<copy, memory>> => CopyTypeOK'
  BY DEF ProcessTyped, CopyTypeOK, copy
<1>1. CASE Load
  <2> DEFINE db == WithoutExpired(database)
  <2>1. db \in Table /\ RowsHeld(db)
    BY <1>a, <1>b DEF WithoutExpired, Table, ProcessTyped
  <2>2. memory' = db /\ database' = db /\ written' = db /\ flush' = [changed |-> {}, image |-> db]
        /\ queue' = 0 /\ queued' = FALSE /\ UNCHANGED <<requests, now>>
    BY <1>1 DEF Load, NoChange, clock
  <2>3. CopyTypeOK'
    <3> HIDE DEF db
    <3>1. memory' \in Table /\ database' \in Table /\ written' \in Table
      BY <2>1, <2>2
    <3>2. flush' \in [changed : SUBSET Keys, image : Table]
      BY <2>1, <2>2
    <3>3. queue' \in 0 .. MaxQueue
      BY <2>2, CopyAssumption
    <3>4. queued' \in BOOLEAN
      BY <2>2
    <3> QED
      BY <3>1, <3>2, <3>3, <3>4, Zenon DEF CopyTypeOK
  <2> QED
    BY <2>1, <2>2, <2>3 DEF ProcessTyped
<1>2. CASE LoadFails \/ Start \/ Signal \/ Stopped \/ TimerFires \/ SweepEnds
  <2>1. UNCHANGED <<vars, now>> /\ requests' \in [Handlers -> Rows \cup {NoRow}]
    BY <1>2 DEF LoadFails, Start, Signal, Stopped, Exits, TimerFires, SweepEnds, clock, ProcessTyped
  <2> QED
    BY <1>d, <2>1 DEF ProcessTyped, vars, copy
<1>3. ASSUME NEW w \in Wallets, NEW n \in Nonces, IssueChallenge(w, n)
      PROVE  ProcessTyped'
  BY <1>3, <1>d DEF IssueChallenge, clock, vars, copy, ProcessTyped
<1>4. ASSUME NEW w \in Wallets, NEW n \in Nonces, NEW k \in Tokens, Redeem(w, n, k)
      PROVE  ProcessTyped'
  <2>1. now + SessionTtl \in Values
    BY <1>a, <1>b
  <2>2. memory' = [memory EXCEPT ![k] = now + SessionTtl] /\ UNCHANGED <<copy, requests, now>>
    BY <1>4 DEF Redeem, CreateSession, clock
  <2>3. CopyTypeOK'
    BY <1>a, <2>1, <2>2, MemoryMoves DEF ProcessTyped
  <2> QED
    BY <1>a, <1>b, <2>2, <2>3 DEF ProcessTyped, Table, copy
<1>5. ASSUME NEW k \in Tokens, Resolve(k)
      PROVE  ProcessTyped'
  <2>1. memory' = [memory EXCEPT ![k] = Absent] /\ UNCHANGED <<copy, requests, now>>
    BY <1>5 DEF Resolve, clock
  <2>2. CopyTypeOK'
    BY <1>a, <2>1, MemoryMoves DEF ProcessTyped
  <2> QED
    BY <1>a, <1>b, <2>1, <2>2 DEF ProcessTyped, Table, copy
<1>6. ASSUME NEW t \in Handlers, Respond(t)
      PROVE  ProcessTyped'
  <2>1. /\ requests[t] \in Rows /\ UNCHANGED <<copy, now>>
        /\ requests' = [requests EXCEPT ![t] = NoRow]
    BY <1>6 DEF Respond, ProcessTyped, clock
  <2>2. CASE UNCHANGED memory
    BY <1>d, <2>1, <2>2 DEF ProcessTyped, copy
  <2>3. CASE CanChange(requests[t]) /\ Changes(requests[t])
    BY <1>c, <2>1, <2>3 DEF ProcessTyped, copy
  <2> QED
    BY <1>6, <2>2, <2>3 DEF Respond
<1>7. ASSUME NEW t \in Handlers, NEW k \in Rows, Accept(t, k)
      PROVE  ProcessTyped'
  BY <1>7, <1>d DEF Accept, clock, vars, copy, ProcessTyped
<1>8. ASSUME NEW k \in Rows, SweepLooks(k)
      PROVE  ProcessTyped'
  <2>1. UNCHANGED <<copy, requests, now>>
    BY <1>8 DEF SweepLooks, clock
  <2>2. CASE UNCHANGED memory
    BY <1>d, <2>1, <2>2 DEF ProcessTyped, copy
  <2>3. CASE CanChange(k) /\ Changes(k)
    BY <1>c, <2>1, <2>3 DEF ProcessTyped, copy
  <2> QED
    BY <1>8, <2>2, <2>3 DEF SweepLooks
<1>9. CASE Schedule \/ FlushTurn \/ ShutsDown \/ ShutdownTimesOut
  <2>1. [Next]_vars /\ UNCHANGED <<now, requests>>
    BY <1>9 DEF Schedule, FlushTurn, ShutsDown, ShutdownTimesOut, Stops, Next, clock
  <2>2. CopyTypeOK'
    BY <2>1, TypeStep DEF ProcessTyped
  <2>3. /\ UNCHANGED memory
        /\ database' = database \/ database' = Apply(database)
        /\ flush'.image \in {flush.image, memory}
    <3>1. flush.image \in Table /\ flush = [changed |-> flush.changed, image |-> flush.image]
      BY DEF ProcessTyped, CopyTypeOK
    <3>2. CASE StartFlush
      BY <3>2 DEF StartFlush
    <3>3. CASE Commit
      BY <3>1, <3>3 DEF Commit, FlushEnds
    <3>4. CASE CommitFails
      BY <3>1, <3>4 DEF CommitFails, FlushEnds
    <3>5. CASE SchedulePersist \/ FlushNow
      BY <3>5 DEF SchedulePersist, FlushNow
    <3> QED
      BY <1>9, <3>2, <3>3, <3>4, <3>5 DEF Schedule, FlushTurn, ShutsDown, ShutdownTimesOut, Stops
  <2>4. RowsHeld(Apply(database))
    BY <1>a DEF Apply, ProcessTyped
  <2> QED
    BY <2>1, <2>2, <2>3, <2>4 DEF ProcessTyped
<1>10. CASE FlushTimesOut \/ Die
  <2>1. EndsWithFlush /\ UNCHANGED <<requests, now>>
    BY <1>10 DEF FlushTimesOut, Die, Exits, clock
  <2>2. Apply(database) \in Table
    BY <1>b, ApplyTyped DEF ProcessTyped
  <2>3. RowsHeld(Apply(database))
    BY <1>a DEF Apply, ProcessTyped
  <2> QED
    BY <2>1, <2>2, <2>3 DEF EndsWithFlush, ProcessTyped, CopyTypeOK
<1>11. CASE TimePasses
  <2>1. now' \in 1 .. MaxTime /\ UNCHANGED <<vars, requests>>
    BY <1>11, <1>a, <1>b DEF TimePasses
  <2> QED
    BY <1>d, <2>1 DEF ProcessTyped, vars, copy
<1>12. CASE UNCHANGED processVars
  BY <1>12, <1>d DEF processVars, vars, copy, clock, ProcessTyped
<1> QED
  BY <1>1, <1>2, <1>3, <1>4, <1>5, <1>6, <1>7, <1>8, <1>9, <1>10, <1>11, <1>12 DEF ProcessNext

LEMMA StopKept ==
    ASSUME ~Overruns, "unacknowledged" \notin CommitFailures,
           StopInv, [ProcessNext]_processVars
    PROVE  StopInv'
<1> USE DEF Up
<1> DEFINE Rest == (Up => CopyInv) /\ SweepIsAwaited /\ LastFlushTakesAll /\ CompleteMeansStored
<1>a. ProcessTyped /\ ProcessTyped' /\ Rest
  BY ProcessTypeKept DEF StopInv
<1>b. SUFFICES Rest'
  BY <1>a DEF StopInv
<1>c. CopyTypeOK' /\ AppendOnly = {}
  BY <1>a, ProcessAssumption DEF ProcessTyped
<1>d. UNCHANGED vars => /\ CopyInv => CopyInv'
                        /\ FlushIdle' = FlushIdle
  BY DEF vars, copy, CopyInv, CopyTypeOK, AppendOnlyKept, RestIsStored, FlushIdle
\* A change to the stores.
<1>e. ASSUME NEW k \in Keys, memory' = [memory EXCEPT ![k] = memory'[k]], UNCHANGED copy
      PROVE  CopyInv => CopyInv'
  BY <1>c, <1>e DEF CopyInv, AppendOnlyKept, RestIsStored, FlushIdle, copy
<1>1. CASE Load
  <2> DEFINE db == WithoutExpired(database)
  <2>1. /\ memory' = db /\ database' = db /\ written' = db
        /\ flush' = [changed |-> {}, image |-> db] /\ phase' = "serving"
    BY <1>1 DEF Load, NoChange
  <2>2. CopyInv'
    <3> HIDE DEF db
    <3> QED
      BY <1>c, <2>1 DEF CopyInv, AppendOnlyKept, RestIsStored, FlushIdle, NoChange
  <2>3. running' => currentTick' = "pending"
    BY <1>1, <1>a DEF Load, TickBegins, SweepIsAwaited
  <2> QED
    BY <2>1, <2>2, <2>3 DEF SweepIsAwaited, LastFlushTakesAll, CompleteMeansStored
<1>2. CASE LoadFails \/ Start
  BY <1>2 DEF LoadFails, Start, SweepIsAwaited, LastFlushTakesAll, CompleteMeansStored
<1>3. ASSUME NEW w \in Wallets, NEW n \in Nonces, IssueChallenge(w, n)
      PROVE  Rest'
  BY <1>3, <1>a, <1>d DEF IssueChallenge, tick, closing, SweepIsAwaited, LastFlushTakesAll,
                         CompleteMeansStored
<1>4. ASSUME NEW k \in Keys, UNCHANGED <<copy, phase, running, closing, flushed>>,
             UNCHANGED currentTick,
             phase = "stopping" /\ ~timedOut => UNCHANGED <<memory, requests>>,
             phase # "exited", UNCHANGED memory \/ memory' = [memory EXCEPT ![k] = memory'[k]]
      PROVE  Rest'
  <2>1. CopyInv => CopyInv'
    <3>1. CASE UNCHANGED memory
      BY <1>4, <1>d, <3>1 DEF vars
    <3>2. CASE ~UNCHANGED memory
      BY <1>4, <1>e, <3>2
    <3> QED
      BY <3>1, <3>2
  <2>2. SweepIsAwaited'
    BY <1>4, <1>a DEF closing, SweepIsAwaited
  <2>3. LastFlushTakesAll'
    BY <1>4, <1>a DEF closing, copy, LastFlushTakesAll, RequestsSettled, FlushIdle
  <2> QED
    BY <1>4, <1>a, <2>1, <2>2, <2>3 DEF CompleteMeansStored
<1>5. ASSUME NEW k \in Keys, NEW w \in Wallets, NEW n \in Nonces, Redeem(w, n, k)
      PROVE  Rest'
  <2>1. memory' = [memory EXCEPT ![k] = now + SessionTtl]
    BY <1>5 DEF Redeem, CreateSession
  <2>2. memory' = [memory EXCEPT ![k] = memory'[k]]
    BY <2>1, <1>a DEF ProcessTyped, CopyTypeOK, Table
  <2> QED
    BY <1>4, <1>5, <2>2 DEF Redeem, tick
<1>6. ASSUME NEW k \in Keys, Resolve(k)
      PROVE  Rest'
  <2>1. memory' = [memory EXCEPT ![k] = memory'[k]]
    BY <1>6, <1>a DEF Resolve, ProcessTyped, CopyTypeOK, Table
  <2> QED
    BY <1>4, <1>6, <2>1 DEF Resolve, tick
<1>7. ASSUME NEW t \in Handlers, Respond(t)
      PROVE  Rest'
  <2>1. requests[t] \in Keys /\ requests[t] # NoRow
    BY <1>7, <1>a, ProcessAssumption DEF Respond, ProcessTyped
  <2>2. UNCHANGED memory \/ memory' = [memory EXCEPT ![requests[t]] = memory'[requests[t]]]
    BY <1>7, <2>1, <1>a DEF Respond, Changes, ProcessTyped, CopyTypeOK, Table
  <2>3. ~(phase = "stopping" /\ ~timedOut)
    BY <2>1, <1>a DEF LastFlushTakesAll, RequestsSettled
  <2> QED
    BY <1>4, <1>7, <2>1, <2>2, <2>3 DEF Respond, tick
<1>8. ASSUME NEW t \in Handlers, NEW k \in Rows, Accept(t, k)
      PROVE  Rest'
  BY <1>4, <1>8, ProcessAssumption DEF Accept, tick, vars
<1>9. ASSUME NEW k \in Rows, SweepLooks(k)
      PROVE  Rest'
  <2>1. k \in Keys
    BY ProcessAssumption
  <2>2. UNCHANGED memory \/ memory' = [memory EXCEPT ![k] = memory'[k]]
    BY <1>9, <2>1, <1>a DEF SweepLooks, Changes, ProcessTyped, CopyTypeOK, Table
  <2>3. ~(phase = "stopping" /\ ~timedOut)
    BY <1>9, <1>a DEF SweepLooks, LastFlushTakesAll
  <2> QED
    BY <1>4, <1>9, <2>1, <2>2, <2>3 DEF SweepLooks
<1>10. CASE TimerFires
  BY <1>10, <1>a, <1>d DEF TimerFires, TickBegins, closing, SweepIsAwaited, LastFlushTakesAll,
                          CompleteMeansStored
<1>11. CASE SweepEnds
  BY <1>11, <1>a, <1>d DEF SweepEnds, SweepIsAwaited, LastFlushTakesAll, CompleteMeansStored
<1>12. CASE Schedule
  <2>1. [Next]_vars
    BY <1>12 DEF Schedule, Next
  <2>2. CopyInv'
    BY <1>12, <1>a, <2>1, CopyStep DEF Schedule
  <2> QED
    BY <1>12, <1>a, <2>2 DEF Schedule, tick, closing, SweepIsAwaited, LastFlushTakesAll,
                            CompleteMeansStored
<1>13. CASE FlushTurn
  <2>1. [Next]_vars /\ CopyInv
    BY <1>13, <1>a DEF FlushTurn, Next
  <2>2. CopyInv'
    BY <2>1, CopyStep
  <2>3. UNCHANGED <<phase, requests, sweeping, running, currentTick, awaited, timedOut, ended>>
        /\ phase # "exited"
    BY <1>13 DEF FlushTurn, tick, closing
  <2>4. ASSUME phase = "stopping", ~timedOut
        PROVE  /\ queue' = 0 /\ ~FlushIdle' => flush'.image = memory'
               /\ queue' = 0 /\ FlushIdle' /\ flushed' = "ok" => database' = memory'
    <3>1. CASE StartFlush /\ flushed' = IF Changed = NoChange THEN "ok" ELSE "pending"
      <4>1. flush' = [changed |-> Changed, image |-> memory] /\ UNCHANGED <<memory, database>>
        BY <3>1 DEF StartFlush
      <4>2. ASSUME Changed = NoChange PROVE database = memory
        <5>1. \A k \in Keys : memory[k] = database[k]
          BY <2>1, <4>2, UnchangedIsWritten DEF NoChange, CopyInv
        <5> QED
          BY <2>1, <5>1 DEF CopyInv, CopyTypeOK, Table
      <4> QED
        BY <4>1, <4>2 DEF FlushIdle
    <3>2. CASE Commit
      <4>1. database' = flush.image /\ UNCHANGED <<memory, queue>> /\ ~FlushIdle
        BY <3>2, <2>1, ApplyIsImage DEF Commit
      <4>2. flush'.changed = {} /\ FlushIdle'
        BY <3>2, <2>1 DEF Commit, FlushEnds, NoChange, CopyInv, CopyTypeOK, FlushIdle
      <4> QED
        BY <2>4, <4>1, <4>2, <1>a DEF LastFlushTakesAll
    <3>3. CASE CommitFails /\ flushed' = "failed"
      <4>1. FlushIdle'
        BY <3>3, <2>1 DEF CommitFails, FlushEnds, NoChange, CopyInv, CopyTypeOK, FlushIdle
      <4> QED
        BY <3>3, <4>1
    <3> QED
      BY <1>13, <3>1, <3>2, <3>3 DEF FlushTurn
  <2>5. SweepIsAwaited'
    BY <2>3, <1>a DEF SweepIsAwaited
  <2>6. LastFlushTakesAll'
    BY <2>3, <2>4, <1>a DEF LastFlushTakesAll, RequestsSettled
  <2> QED
    BY <2>2, <2>3, <2>5, <2>6 DEF CompleteMeansStored
<1>14. CASE Signal
  BY <1>14, <1>a, <1>d DEF Signal, tick, SweepIsAwaited, LastFlushTakesAll, CompleteMeansStored
<1>15. CASE ShutsDown \/ ShutdownTimesOut
  <2>1. [Next]_vars /\ CopyInv
    BY <1>15, <1>a DEF ShutsDown, ShutdownTimesOut, Stops, Next
  <2>2. CopyInv'
    BY <2>1, CopyStep
  <2>3. queue' # 0
    <3>1. queue \in Nat /\ queue' = queue + 1
      BY <1>15, <1>a, CopyAssumption DEF ShutsDown, ShutdownTimesOut, Stops, FlushNow,
                                         ProcessTyped, CopyTypeOK
    <3> QED
      BY <3>1
  <2>4. /\ UNCHANGED <<requests, running, currentTick, awaited>>
        /\ phase = "closing" /\ phase' = "stopping"
    BY <1>15 DEF ShutsDown, ShutdownTimesOut, Stops, tick
  <2>5. ~timedOut' => ~running /\ RequestsSettled
    BY <1>15, <1>a DEF ShutsDown, ShutdownTimesOut, Stops, Settled, RequestsSettled, SweepIsAwaited
  <2>6. SweepIsAwaited'
    BY <2>4, <1>a DEF SweepIsAwaited
  <2>7. LastFlushTakesAll'
    BY <2>3, <2>4, <2>5 DEF LastFlushTakesAll, RequestsSettled
  <2> QED
    BY <2>2, <2>4, <2>6, <2>7 DEF CompleteMeansStored
<1>16. CASE Stopped
  BY <1>16, <1>a DEF Stopped, Exits, tick, vars, copy, SweepIsAwaited, LastFlushTakesAll,
                    RequestsSettled, CompleteMeansStored
<1>17. CASE FlushTimesOut \/ Die
  BY <1>17 DEF FlushTimesOut, Die, Exits, SweepIsAwaited, LastFlushTakesAll, CompleteMeansStored
<1>18. CASE TimePasses \/ UNCHANGED processVars
  <2>1. UNCHANGED <<vars, phase, requests, tick, closing, flushed>>
    BY <1>18 DEF TimePasses, processVars
  <2>2. CopyInv => CopyInv'
    BY <1>d, <2>1
  <2>3. SweepIsAwaited' /\ LastFlushTakesAll'
    BY <1>a, <2>1, <1>d DEF SweepIsAwaited, LastFlushTakesAll, RequestsSettled, tick, closing,
                           vars, copy
  <2>4. CompleteMeansStored'
    BY <1>a, <2>1 DEF CompleteMeansStored, tick, closing, vars, copy
  <2> QED
    BY <1>a, <2>1, <2>2, <2>3, <2>4
<1> QED
  BY <1>1, <1>2, <1>3, <1>5, <1>6, <1>7, <1>8, <1>9, <1>10, <1>11, <1>12, <1>13, <1>14, <1>15,
     <1>16, <1>17, <1>18, ProcessAssumption DEF ProcessNext

\* A shutdown reported as complete, whose last flush the database took, has cut no
\* request or sweep off and left nothing unwritten, whatever happened before and
\* however often the process was started: if sweeps are over before the next tick
\* is due, and no acknowledgement of a transaction was lost.
THEOREM CompleteIsStored ==
    ASSUME ~Overruns, "unacknowledged" \notin CommitFailures
    PROVE  ProcessSpec => []CompleteMeansStored
<1>1. StopInv => CompleteMeansStored
  BY DEF StopInv
<1> QED
  BY <1>1, StopStart, StopKept, PTL DEF ProcessSpec

-----------------------------------------------------------------------------
(* Lists of challenges                                                     *)

\* A set of naturals that is not empty has a least element.
LEMMA LeastOf ==
  ASSUME NEW T, T \subseteq Nat, T # {} PROVE \E m \in T : \A n \in T : m <= n
<1>1. PICK m \in T : \A n \in T : ~(<<n, m>> \in OpToRel(<, Nat))
  BY WFMin, NatLessThanWellFounded
<1>2. ASSUME NEW n \in T, n < m PROVE <<n, m>> \in OpToRel(<, Nat)
  BY <1>2 DEF OpToRel
<1>3. ASSUME NEW n \in T PROVE m <= n
  <2>1. ~(n < m)
    BY <1>1, <1>2
  <2>2. n \in Nat /\ m \in Nat
    OBVIOUS
  <2> QED
    BY <2>1, <2>2
<1> QED
  BY <1>3

\* f filters the first n challenges of a list, step by step.
FiltersTo(f, list, kept, n) ==
    f = [i \in 0 .. n |->
           IF i = 0 THEN <<>>
           ELSE IF list[i] \in kept THEN Append(f[i - 1], list[i])
           ELSE f[i - 1]]

LEMMA FilterExists ==
  ASSUME NEW list, NEW kept, NEW n \in Nat PROVE \E f : FiltersTo(f, list, kept, n)
<1> DEFINE Bad == {m \in Nat : ~\E f : FiltersTo(f, list, kept, m)}
<1> SUFFICES ASSUME Bad # {} PROVE FALSE
  OBVIOUS
<1>1. PICK m \in Bad : \A k \in Bad : m <= k
  BY LeastOf
<1>2. CASE m = 0
  <2> DEFINE f == [i \in 0 .. 0 |-> <<>>]
  <2>1. FiltersTo(f, list, kept, 0)
    BY DEF FiltersTo
  <2> QED
    BY <1>1, <1>2, <2>1
<1>3. CASE m > 0
  <2>1. m - 1 \in Nat /\ m - 1 \notin Bad
    BY <1>1, <1>3
  <2>2. PICK h : FiltersTo(h, list, kept, m - 1)
    BY <2>1
  <2> DEFINE g == [i \in 0 .. m |->
                     IF i = 0 THEN <<>>
                     ELSE IF list[i] \in kept THEN Append(h[i - 1], list[i])
                     ELSE h[i - 1]]
  <2>3. ASSUME NEW i \in 0 .. m - 1 PROVE g[i] = h[i]
    <3>1. i \in 0 .. m
      BY <1>1
    <3>2. g[i] = IF i = 0 THEN <<>>
                 ELSE IF list[i] \in kept THEN Append(h[i - 1], list[i])
                 ELSE h[i - 1]
      BY <3>1
    <3>3. h[i] = IF i = 0 THEN <<>>
                 ELSE IF list[i] \in kept THEN Append(h[i - 1], list[i])
                 ELSE h[i - 1]
      <4> HIDE DEF g
      <4> QED
        BY <2>2 DEF FiltersTo
    <3> QED
      BY <3>2, <3>3
  <2>4. \A i \in 0 .. m : i # 0 => i - 1 \in 0 .. m - 1
    BY <1>1
  <2>5. FiltersTo(g, list, kept, m)
    BY <2>3, <2>4 DEF FiltersTo
  <2> QED
    BY <1>1, <2>5
<1> QED
  BY <1>1, <1>2, <1>3

LEMMA FilterIs ==
  ASSUME NEW list, NEW kept, Len(list) \in Nat
  PROVE  \E f : FiltersTo(f, list, kept, Len(list)) /\ Filter(list, kept) = f[Len(list)]
<1> DEFINE F == CHOOSE f : FiltersTo(f, list, kept, Len(list))
<1>1. FiltersTo(F, list, kept, Len(list))
  BY FilterExists
<1>2. Filter(list, kept) = F[Len(list)]
  BY DEF Filter, FiltersTo
<1> QED
  BY <1>1, <1>2

LEMMA AppendAdds ==
  ASSUME NEW S, NEW s \in Seq(S), NEW x \in S
  PROVE  Append(s, x) \in Seq(S) /\ ToSet(Append(s, x)) = ToSet(s) \cup {x}
<1>1. /\ Append(s, x) \in Seq(S) /\ Len(s) \in Nat
      /\ DOMAIN Append(s, x) = 1 .. Len(s) + 1 /\ DOMAIN s = 1 .. Len(s)
      /\ \A i \in 1 .. Len(s) : Append(s, x)[i] = s[i]
      /\ Append(s, x)[Len(s) + 1] = x
  OBVIOUS
<1> DEFINE a == Append(s, x)
           n == Len(s)
<1>2. ToSet(a) \subseteq ToSet(s) \cup {x}
  <2> SUFFICES ASSUME NEW i \in 1 .. n + 1 PROVE a[i] \in ToSet(s) \cup {x}
    BY <1>1 DEF ToSet
  <2>1. i \in 1 .. n \/ i = n + 1
    BY <1>1
  <2> QED
    BY <1>1, <2>1 DEF ToSet
<1>3. ToSet(s) \cup {x} \subseteq ToSet(a)
  <2>1. \A i \in 1 .. n : i \in 1 .. n + 1
    BY <1>1
  <2>2. n + 1 \in 1 .. n + 1
    BY <1>1
  <2> HIDE DEF n, a
  <2> QED
    BY <1>1, <2>1, <2>2 DEF ToSet, a, n
<1> QED
  BY <1>1, <1>2, <1>3

\* A filtered list is a list of some of the challenges that were kept.
LEMMA FilterKeeps ==
  ASSUME NEW S, NEW list \in Seq(S), NEW kept
  PROVE  /\ Filter(list, kept) \in Seq(S)
         /\ ToSet(Filter(list, kept)) \subseteq ToSet(list) \cap kept
<1> DEFINE N == Len(list)
<1>1. N \in Nat /\ \A i \in 1 .. N : list[i] \in S
  OBVIOUS
<1>2. PICK f : FiltersTo(f, list, kept, N) /\ Filter(list, kept) = f[N]
  BY <1>1, FilterIs
<1> DEFINE Good(s) == s \in Seq(S) /\ ToSet(s) \subseteq ToSet(list) \cap kept
           Bad == {m \in 0 .. N : ~Good(f[m])}
<1>3. Bad = {}
  <2> SUFFICES ASSUME Bad # {} PROVE FALSE
    OBVIOUS
  <2>0. Bad \subseteq Nat
    BY <1>1
  <2>1. PICK m \in Bad : \A k \in Bad : m <= k
    <3> HIDE DEF Bad
    <3> QED
      BY <2>0, LeastOf
  <2>2. CASE m = 0
    <3>1. f[0] = <<>>
      BY <1>1, <1>2 DEF FiltersTo
    <3>2. Good(<<>>)
      BY DEF ToSet
    <3> QED
      BY <2>1, <2>2, <3>1, <3>2
  <2>3. CASE m > 0
    <3>1. m - 1 \in 0 .. N /\ m \in 0 .. N /\ m \in 1 .. N /\ m # 0 /\ m - 1 \notin Bad
      BY <1>1, <2>1, <2>3
    <3>2. Good(f[m - 1])
      BY <3>1
    <3>3. f[m] = IF list[m] \in kept THEN Append(f[m - 1], list[m]) ELSE f[m - 1]
      BY <1>2, <3>1 DEF FiltersTo
    <3>4. CASE list[m] \notin kept
      BY <2>1, <3>2, <3>3, <3>4
    <3>5. CASE list[m] \in kept
      <4>1. list[m] \in ToSet(list) \cap kept /\ list[m] \in S
        BY <1>1, <3>1, <3>5 DEF ToSet
      <4>2. f[m] = Append(f[m - 1], list[m])
        BY <3>3, <3>5
      <4>3. Good(Append(f[m - 1], list[m]))
        BY <3>2, <4>1, AppendAdds
      <4> QED
        BY <2>1, <4>2, <4>3
    <3> QED
      BY <3>4, <3>5
  <2> QED
    BY <1>1, <2>1, <2>2, <2>3
<1> QED
  BY <1>1, <1>2, <1>3

\* The last few of a list are some of it.
LEMMA LastOfIsPart ==
  ASSUME NEW S, NEW list \in Seq(S), NEW n \in Nat
  PROVE  LastOf(list, n) \in Seq(S) /\ ToSet(LastOf(list, n)) \subseteq ToSet(list)
<1>1. CASE Len(list) <= n
  BY <1>1 DEF LastOf
<1>2. CASE ~(Len(list) <= n)
  <2> DEFINE m == Len(list) - n + 1
             tail == SubSeq(list, m, Len(list))
  <2>1. Len(list) \in Nat /\ m \in 1 .. Len(list) + 1 /\ \A i \in 1 .. Len(list) : list[i] \in S
    BY <1>2
  <2>2. /\ tail \in Seq(S) /\ Len(tail) = n
        /\ \A i \in 1 .. n : tail[i] = list[m + i - 1] /\ m + i - 1 \in 1 .. Len(list)
    BY <1>2, <2>1
  <2>3. LastOf(list, n) = tail
    BY <1>2 DEF LastOf
  <2>4. ToSet(tail) \subseteq ToSet(list)
    <3> SUFFICES ASSUME NEW i \in DOMAIN tail PROVE tail[i] \in ToSet(list)
      BY DEF ToSet
    <3>1. i \in 1 .. n
      BY <2>2
    <3> QED
      BY <2>2, <3>1 DEF ToSet
  <2> QED
    BY <2>2, <2>3, <2>4
<1> QED
  BY <1>1, <1>2

-----------------------------------------------------------------------------
(***************************************************************************)
(* A challenge buys one session.  A wallet's list holds challenges that    *)
(* were issued and not redeemed, and no challenge is on two lists; and the *)
(* sessions in memory, in the database and on their way there are no more  *)
(* than were bought, so that none is bought again by what a restart loads. *)
(***************************************************************************)

Outstanding(n, w) == n \in ToSet(challenges[w])

\* Sessions that are open, stored, or being stored; and challenges redeemed.
SessionsKept ==
    {k \in Tokens : memory[k] # Absent \/ database[k] # Absent \/ flush.image[k] # Absent}

Spent == {n \in Nonces : redeemed[n] > 0}

ChallengesOK ==
    /\ challenges \in [Wallets -> Seq(Nonces)]
    /\ expires \in [Nonces -> Nat] /\ redeemed \in [Nonces -> {0, 1}]
    /\ \A n \in Nonces :
         /\ expires[n] = 0 => redeemed[n] = 0
         /\ \A w \in Wallets : Outstanding(n, w) => expires[n] # 0 /\ redeemed[n] = 0
         /\ \A v, w \in Wallets : Outstanding(n, v) /\ Outstanding(n, w) => v = w

SessionsOK == Cardinality(SessionsKept) <= Cardinality(Spent)

LEMMA LiveOfIsPart ==
  ASSUME ChallengesOK, NEW w \in Wallets
  PROVE  /\ LiveOf(w) \in Seq(Nonces)
         /\ ToSet(LiveOf(w)) \subseteq ToSet(challenges[w])
  BY FilterKeeps DEF LiveOf, ChallengesOK

\* Lists that lose challenges and gain none.
LEMMA ListsShrink ==
  ASSUME ChallengesOK, UNCHANGED <<expires, redeemed>>,
         challenges' \in [Wallets -> Seq(Nonces)],
         \A w \in Wallets : ToSet(challenges'[w]) \subseteq ToSet(challenges[w])
  PROVE  ChallengesOK'
  BY DEF ChallengesOK, Outstanding

LEMMA IssueKeeps ==
  ASSUME ProcessTyped, ChallengesOK, NEW w \in Wallets, NEW n \in Nonces, IssueChallenge(w, n)
  PROVE  ChallengesOK'
<1> DEFINE full == w \notin WithChallenges /\ Cardinality(WithChallenges) >= MaxWallets
           swept == [v \in Wallets |-> IF full THEN LiveOf(v) ELSE challenges[v]]
           refused == full /\ Cardinality({v \in Wallets : swept[v] # <<>>}) >= MaxWallets
           list == LastOf(Append(LiveOf(w), n), MaxChallenges)
<1>1. /\ swept \in [Wallets -> Seq(Nonces)]
      /\ \A v \in Wallets : ToSet(swept[v]) \subseteq ToSet(challenges[v])
  BY LiveOfIsPart DEF ChallengesOK
<1>2. UNCHANGED redeemed /\ expires[n] = 0
  BY DEF IssueChallenge
<1>3. CASE refused
  <2>1. challenges' = swept /\ UNCHANGED expires
    BY <1>3 DEF IssueChallenge
  <2> HIDE DEF swept, refused
  <2> QED
    BY <1>1, <1>2, <2>1, ListsShrink
<1>4. CASE ~refused
  <2>1. /\ expires' = [expires EXCEPT ![n] = now + ChallengeExpiry]
        /\ challenges' = [swept EXCEPT ![w] = list]
    BY <1>4 DEF IssueChallenge
  <2>2. now + ChallengeExpiry \in Nat \ {0}
    BY ProcessAssumption DEF ProcessTyped
  <2>3. list \in Seq(Nonces) /\ ToSet(list) \subseteq ToSet(challenges[w]) \cup {n}
    <3>1. /\ Append(LiveOf(w), n) \in Seq(Nonces)
          /\ ToSet(Append(LiveOf(w), n)) \subseteq ToSet(challenges[w]) \cup {n}
      BY LiveOfIsPart, AppendAdds
    <3> QED
      BY <3>1, LastOfIsPart, ProcessAssumption
  <2> HIDE DEF swept, refused, list
  <2>4. challenges' \in [Wallets -> Seq(Nonces)]
    BY <1>1, <2>1, <2>3
  <2>5. \A m \in Nonces, v \in Wallets : Outstanding(m, v)' => Outstanding(m, v) \/ (m = n /\ v = w)
    BY <1>1, <2>1, <2>3 DEF Outstanding
  <2>6. \A v \in Wallets : ~Outstanding(n, v)
    BY <1>2 DEF ChallengesOK
  <2>7. /\ expires' \in [Nonces -> Nat] /\ expires'[n] # 0
        /\ \A m \in Nonces : m # n => expires'[m] = expires[m]
    BY <2>1, <2>2 DEF ChallengesOK
  <2>8. redeemed[n] = 0
    BY <1>2 DEF ChallengesOK
  <2> QED
    BY <1>2, <2>4, <2>5, <2>6, <2>7, <2>8 DEF ChallengesOK
<1> QED
  BY <1>3, <1>4

LEMMA RedeemKeeps ==
  ASSUME ChallengesOK, NEW w \in Wallets, NEW n \in Nonces, NEW k \in Tokens, Redeem(w, n, k)
  PROVE  ChallengesOK' /\ redeemed[n] = 0 /\ redeemed' = [redeemed EXCEPT ![n] = 1]
<1>1. Outstanding(n, w)
  BY LiveOfIsPart DEF Redeem, Outstanding
<1>2. redeemed[n] = 0 /\ redeemed' = [redeemed EXCEPT ![n] = 1]
  <2>1. redeemed[n] = 0
    BY <1>1 DEF ChallengesOK
  <2>2. redeemed' = [redeemed EXCEPT ![n] = redeemed[n] + 1]
    BY DEF Redeem
  <2>3. redeemed[n] + 1 = 1
    BY <2>1
  <2> QED
    BY <2>1, <2>2, <2>3
<1>3. /\ Remaining(w, n) \in Seq(Nonces)
      /\ ToSet(Remaining(w, n)) \subseteq ToSet(challenges[w]) \ {n}
  BY LiveOfIsPart, FilterKeeps DEF Remaining
<1>4. challenges' = [challenges EXCEPT ![w] = Remaining(w, n)] /\ UNCHANGED expires
  BY DEF Redeem
<1>5. challenges' \in [Wallets -> Seq(Nonces)]
  BY <1>3, <1>4 DEF ChallengesOK
<1>6. \A m \in Nonces, v \in Wallets : Outstanding(m, v)' => Outstanding(m, v) /\ m # n
  BY <1>1, <1>3, <1>4 DEF Outstanding, ChallengesOK
<1> QED
  BY <1>1, <1>2, <1>4, <1>5, <1>6 DEF ChallengesOK

\* Nothing else touches what was issued and redeemed; a restart empties the lists.
LEMMA ChallengesKept ==
  ASSUME ProcessTyped, ChallengesOK, [ProcessNext]_processVars
  PROVE  ChallengesOK'
<1>1. ASSUME UNCHANGED auth PROVE ChallengesOK'
  BY <1>1 DEF auth, ChallengesOK, Outstanding
<1>2. CASE Start
  <2>1. challenges' = [w \in Wallets |-> <<>>] /\ UNCHANGED <<expires, redeemed>>
    BY <1>2 DEF Start
  <2>2. challenges' \in [Wallets -> Seq(Nonces)] /\ \A w \in Wallets : ToSet(challenges'[w]) = {}
    BY <2>1 DEF ToSet
  <2> QED
    BY <2>1, <2>2, ListsShrink
<1>3. CASE ~Start
  BY <1>1, <1>3, IssueKeeps, RedeemKeeps
  DEF ProcessNext, processVars, Load, LoadFails, Resolve, Respond, Accept, TimerFires, SweepEnds,
      SweepLooks, Schedule, FlushTurn, Signal, ShutsDown, ShutdownTimesOut, Stops, Stopped,
      FlushTimesOut, Die, Exits, TimePasses
<1> QED
  BY <1>2, <1>3

\* Only a redeemed challenge adds to the sessions.
LEMMA SessionsGrow ==
  ASSUME ProcessTyped, [ProcessNext]_processVars
  PROVE  \/ SessionsKept' \subseteq SessionsKept /\ UNCHANGED redeemed
         \/ \E w \in Wallets, n \in Nonces, k \in Tokens :
              Redeem(w, n, k) /\ SessionsKept' \subseteq SessionsKept \cup {k}
<1> USE DEF SessionsKept
<1>0. /\ memory \in Table /\ database \in Table /\ flush.image \in Table
      /\ flush = [changed |-> flush.changed, image |-> flush.image]
      /\ Keys = Tokens \cup Rows /\ Tokens \cap Rows = {}
  BY ProcessAssumption DEF ProcessTyped, CopyTypeOK
<1>1. ASSUME NEW k \in Keys, k \in Rows \/ memory'[k] = Absent, UNCHANGED <<copy, redeemed>>,
             memory' = [memory EXCEPT ![k] = memory'[k]]
      PROVE  SessionsKept' \subseteq SessionsKept /\ UNCHANGED redeemed
  BY <1>0, <1>1 DEF copy, Table
<1>2. UNCHANGED <<vars, redeemed>> => SessionsKept' \subseteq SessionsKept /\ UNCHANGED redeemed
  BY DEF vars, copy
<1>3. CASE Load
  <2>1. /\ database' = WithoutExpired(database) /\ memory' = database' /\ flush'.image = database'
        /\ UNCHANGED redeemed
    BY <1>3 DEF Load, auth
  <2> QED
    BY <1>0, <2>1 DEF WithoutExpired
<1>4. CASE LoadFails \/ Start \/ TimerFires \/ SweepEnds \/ Signal \/ Stopped \/ TimePasses
           \/ UNCHANGED processVars
  BY <1>2, <1>4 DEF LoadFails, Start, TimerFires, SweepEnds, Signal, Stopped, Exits, TimePasses,
                    processVars, auth
<1>5. ASSUME NEW w \in Wallets, NEW n \in Nonces, IssueChallenge(w, n)
      PROVE  SessionsKept' \subseteq SessionsKept /\ UNCHANGED redeemed
  BY <1>2, <1>5 DEF IssueChallenge
<1>6. ASSUME NEW w \in Wallets, NEW n \in Nonces, NEW k \in Tokens, Redeem(w, n, k)
      PROVE  SessionsKept' \subseteq SessionsKept \cup {k}
  <2>1. memory' = [memory EXCEPT ![k] = now + SessionTtl] /\ UNCHANGED copy
    BY <1>6 DEF Redeem, CreateSession
  <2> QED
    BY <1>0, <2>1 DEF copy, Table
<1>7. ASSUME NEW k \in Tokens, Resolve(k)
      PROVE  SessionsKept' \subseteq SessionsKept /\ UNCHANGED redeemed
  BY <1>0, <1>1, <1>7 DEF Resolve, auth, Table
<1>8. ASSUME NEW t \in Handlers, Respond(t)
      PROVE  SessionsKept' \subseteq SessionsKept /\ UNCHANGED redeemed
  <2>1. requests[t] \in Rows /\ UNCHANGED <<copy, redeemed>>
    BY <1>8 DEF Respond, ProcessTyped, auth
  <2>2. CASE UNCHANGED memory
    BY <1>2, <2>1, <2>2 DEF vars
  <2>3. CASE Changes(requests[t])
    BY <1>0, <1>1, <2>1, <2>3 DEF Changes, Table
  <2> QED
    BY <1>8, <2>2, <2>3 DEF Respond
<1>9. ASSUME NEW t \in Handlers, NEW k \in Rows, Accept(t, k)
      PROVE  SessionsKept' \subseteq SessionsKept /\ UNCHANGED redeemed
  BY <1>2, <1>9 DEF Accept, auth
<1>10. ASSUME NEW k \in Rows, SweepLooks(k)
      PROVE  SessionsKept' \subseteq SessionsKept /\ UNCHANGED redeemed
  <2>1. UNCHANGED <<copy, redeemed>>
    BY <1>10 DEF SweepLooks, auth
  <2>2. CASE UNCHANGED memory
    BY <1>2, <2>1, <2>2 DEF vars
  <2>3. CASE Changes(k)
    BY <1>0, <1>1, <2>1, <2>3 DEF Changes, Table
  <2> QED
    BY <1>10, <2>2, <2>3 DEF SweepLooks
<1>11. \A k \in Keys : Apply(database)[k] \in {database[k], flush.image[k]}
  BY DEF Apply
<1>12. CASE Schedule \/ FlushTurn \/ ShutsDown \/ ShutdownTimesOut
  <2>1. UNCHANGED <<memory, redeemed>>
    BY <1>12 DEF Schedule, FlushTurn, ShutsDown, ShutdownTimesOut, Stops, auth,
                 SchedulePersist, FlushNow, StartFlush, Commit, CommitFails
  <2>2. database' \in {database, Apply(database)} /\ flush'.image \in {flush.image, memory}
    <3>1. CASE StartFlush
      BY <3>1 DEF StartFlush
    <3>2. CASE Commit
      BY <1>0, <3>2 DEF Commit, FlushEnds
    <3>3. CASE CommitFails
      BY <1>0, <3>3 DEF CommitFails, FlushEnds
    <3>4. CASE SchedulePersist \/ FlushNow
      BY <3>4 DEF SchedulePersist, FlushNow
    <3> QED
      BY <1>12, <3>1, <3>2, <3>3, <3>4
      DEF Schedule, FlushTurn, ShutsDown, ShutdownTimesOut, Stops
  <2> QED
    BY <1>0, <1>11, <2>1, <2>2
<1>13. CASE FlushTimesOut \/ Die
  <2>1. EndsWithFlush /\ UNCHANGED redeemed
    BY <1>13 DEF FlushTimesOut, Die, Exits, auth
  <2> QED
    BY <1>0, <1>11, <2>1 DEF EndsWithFlush
<1> QED
  BY <1>3, <1>4, <1>5, <1>6, <1>7, <1>8, <1>9, <1>10, <1>12, <1>13 DEF ProcessNext

LEMMA SessionsStep ==
  ASSUME ProcessTyped, ChallengesOK, SessionsOK, [ProcessNext]_processVars
  PROVE  SessionsOK'
<1>1. /\ IsFiniteSet(Tokens) /\ IsFiniteSet(Nonces)
      /\ SessionsKept \subseteq Tokens /\ SessionsKept' \subseteq Tokens
      /\ Spent \subseteq Nonces /\ Spent' \subseteq Nonces
  <2>1. Tokens \subseteq Keys /\ IsFiniteSet(Keys)
    BY ProcessAssumption
  <2>2. IsFiniteSet(Tokens) /\ IsFiniteSet(Nonces)
    BY <2>1, FS_Subset, ProcessAssumption
  <2> QED
    BY <2>2 DEF SessionsKept, Spent
<1>2. /\ IsFiniteSet(SessionsKept) /\ IsFiniteSet(SessionsKept') /\ IsFiniteSet(Spent)
      /\ Cardinality(SessionsKept) \in Nat /\ Cardinality(SessionsKept') \in Nat
      /\ Cardinality(Spent) \in Nat
  BY <1>1, FS_Subset, FS_CardinalityType
<1>3. CASE SessionsKept' \subseteq SessionsKept /\ UNCHANGED redeemed
  <2>1. Cardinality(SessionsKept') <= Cardinality(SessionsKept)
    BY <1>2, <1>3, FS_Subset
  <2>2. Spent' = Spent
    BY <1>3 DEF Spent
  <2> QED
    BY <1>2, <2>1, <2>2 DEF SessionsOK
<1>4. ASSUME NEW w \in Wallets, NEW n \in Nonces, NEW k \in Tokens, Redeem(w, n, k),
             SessionsKept' \subseteq SessionsKept \cup {k}
      PROVE  SessionsOK'
  <2>1. redeemed[n] = 0 /\ redeemed' = [redeemed EXCEPT ![n] = 1]
    BY <1>4, RedeemKeeps
  <2>2. n \notin Spent /\ Spent' = Spent \cup {n}
    BY <2>1 DEF Spent, ChallengesOK
  <2>3. Cardinality(Spent') = Cardinality(Spent) + 1
    BY <1>2, <2>2, FS_AddElement
  <2>4. /\ IsFiniteSet(SessionsKept \cup {k})
        /\ Cardinality(SessionsKept \cup {k}) <= Cardinality(SessionsKept) + 1
    <3>1. CASE k \in SessionsKept
      <4>1. SessionsKept \cup {k} = SessionsKept
        BY <3>1
      <4>2. Cardinality(SessionsKept) <= Cardinality(SessionsKept) + 1
        BY <1>2
      <4> QED
        BY <1>2, <4>1, <4>2, Zenon
    <3>2. CASE k \notin SessionsKept
      <4>1. /\ IsFiniteSet(SessionsKept \cup {k})
            /\ Cardinality(SessionsKept \cup {k}) = Cardinality(SessionsKept) + 1
        BY <1>2, <3>2, FS_AddElement
      <4> QED
        BY <1>2, <4>1
    <3> QED
      BY <3>1, <3>2
  <2>5. Cardinality(SessionsKept') <= Cardinality(SessionsKept \cup {k})
    BY <1>4, <2>4, FS_Subset
  <2>6. Cardinality(SessionsKept \cup {k}) \in Nat
    BY <2>4, FS_CardinalityType
  <2> QED
    BY <1>2, <2>3, <2>4, <2>5, <2>6 DEF SessionsOK
<1> QED
  BY <1>3, <1>4, SessionsGrow

LEMMA ChallengesStart == ProcessInit => ProcessTyped /\ ChallengesOK /\ SessionsOK
<1> SUFFICES ASSUME ProcessInit PROVE ProcessTyped /\ ChallengesOK /\ SessionsOK
  OBVIOUS
<1>1. ProcessTyped
  BY StopStart DEF StopInv
<1>2. \A w \in Wallets : ToSet(challenges[w]) = {}
  BY DEF ProcessInit, ToSet
<1>3. ChallengesOK
  BY <1>2 DEF ProcessInit, ChallengesOK, Outstanding
<1>4. SessionsKept = {} /\ Spent = {}
  BY ProcessAssumption DEF ProcessInit, Init, SessionsKept, Spent
<1> QED
  BY <1>1, <1>3, <1>4, FS_EmptySet DEF SessionsOK

\* A challenge is exchanged for one session at most, and no more sessions are open
\* than were exchanged: whichever challenges are dropped, swept or expire, and
\* whatever a crash leaves to be loaded by the next start.
THEOREM ChallengeBuysOne == ProcessSpec => []ChallengeUsedOnce
<1>1. ProcessTyped /\ ChallengesOK /\ SessionsOK => ChallengeUsedOnce
  <2> SUFFICES ASSUME ProcessTyped, ChallengesOK, SessionsOK PROVE ChallengeUsedOnce
    OBVIOUS
  <2> DEFINE Opened == {k \in Tokens : memory[k] # Absent}
  <2>1. IsFiniteSet(Tokens) /\ IsFiniteSet(Nonces)
    BY FS_Subset, ProcessAssumption
  <2>2. Opened \subseteq SessionsKept /\ IsFiniteSet(SessionsKept)
    BY <2>1, FS_Subset DEF SessionsKept
  <2>3. /\ Cardinality(Opened) <= Cardinality(SessionsKept)
        /\ Cardinality(Opened) \in Nat /\ Cardinality(SessionsKept) \in Nat
    BY <2>2, FS_Subset, FS_CardinalityType
  <2>4. Cardinality(Spent) \in Nat
    BY <2>1, FS_Subset, FS_CardinalityType DEF Spent
  <2>5. Cardinality(Opened) <= Cardinality(Spent)
    BY <2>3, <2>4 DEF SessionsOK
  <2>6. \A n \in Nonces : redeemed[n] <= 1
    BY DEF ChallengesOK
  <2> QED
    BY <2>5, <2>6 DEF ChallengeUsedOnce, Spent
<1>2. ProcessTyped /\ ChallengesOK /\ SessionsOK /\ [ProcessNext]_processVars
        => (ProcessTyped /\ ChallengesOK /\ SessionsOK)'
  BY ProcessTypeKept, ChallengesKept, SessionsStep
<1> QED
  BY <1>1, <1>2, ChallengesStart, PTL DEF ProcessSpec
==============================================================================
