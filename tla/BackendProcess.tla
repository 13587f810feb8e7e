--------------------------- MODULE BackendProcess ---------------------------
(***************************************************************************)
(* The life of the process around the stores: it loads them, serves, is    *)
(* told to stop, waits for the requests and the sweep under way, writes    *)
(* the stores once more and exits; or it dies.  Signing in belongs here    *)
(* too: a challenge lives in memory only, and the session it is exchanged  *)
(* for outlives the process.                                               *)
(*                                                                         *)
(* The stores and their durable copy are DurableCopy's.  A row is either a *)
(* session, whose value is when it expires, or a loan, whose value counts  *)
(* the changes made to it.  While the process is down, `memory` is what it *)
(* held when it ended.                                                     *)
(***************************************************************************)
EXTENDS DurableCopy, FiniteSets, SequencesExt

CONSTANTS
    Tokens, Rows,       \* the keys: sessions and loans
    Wallets, Nonces,    \* who signs in, and the challenges issued
    Handlers,           \* slots for requests
    MaxChallenges,      \* challenges kept for a wallet
    MaxWallets,         \* wallets with challenges, past which none is issued
    ChallengeExpiry, SessionTtl, MaxTime,
    Overruns,           \* whether a sweep may outlast the timer's interval
    MaxChanges,         \* bound on the changes to a loan
    MaxStarts           \* bound on starts

ASSUME ProcessAssumption ==
    /\ Keys = Tokens \cup Rows /\ Tokens \cap Rows = {}
    /\ IsFiniteSet(Keys) /\ IsFiniteSet(Nonces)
    /\ Values \subseteq Nat
    /\ 0 .. MaxChanges \subseteq Values /\ 1 .. MaxTime + SessionTtl \subseteq Values
    /\ AppendOnly = {}
    /\ MaxQueue >= 2
    /\ MaxChallenges \in Nat \ {0} /\ MaxWallets \in Nat \ {0}
    /\ ChallengeExpiry \in Nat /\ SessionTtl \in Nat /\ MaxTime \in Nat \ {0}
    /\ Overruns \in BOOLEAN
    /\ MaxChanges \in Nat /\ MaxStarts \in Nat

VARIABLES
    phase,      \* loading, serving, closing, stopping, exited
    requests,   \* requests under way: handler -> the row it will change
    sweeping,   \* rows the sweep under way has still to look at
    running,    \* whether a sweep is under way
    currentTick,\* what the last tick's promise is: "pending" or "settled"
    awaited,    \* what shutdown waits for: that promise, as it was then
    timedOut,   \* whether shutdown gave up waiting
    flushed,    \* how the last flush went
    ended,      \* how the process ended
    challenges, \* wallet -> its outstanding challenges, oldest first
    expires,    \* challenge -> when it expires, 0: not issued
    redeemed,   \* challenge -> sessions it was exchanged for
    now, starts

auth == <<challenges, expires, redeemed>>
tick == <<sweeping, running, currentTick>>
closing == <<awaited, timedOut, ended>>
clock == <<now, starts>>

processVars == <<vars, phase, requests, tick, closing, flushed, auth, clock>>

NoRow == "none"

Up == phase \in {"serving", "closing", "stopping"}

ProcessInit ==
    /\ Init
    /\ memory = [k \in Keys |-> IF k \in Rows THEN 0 ELSE Absent]
    /\ phase = "loading"
    /\ requests = [t \in Handlers |-> NoRow]
    /\ sweeping = {} /\ running = FALSE
    /\ currentTick = "settled" /\ awaited = "settled"
    /\ timedOut = FALSE /\ flushed = "ok" /\ ended = "no"
    /\ challenges = [w \in Wallets |-> <<>>]
    /\ expires = [n \in Nonces |-> 0]
    /\ redeemed = [n \in Nonces |-> 0]
    /\ now = 1 /\ starts = 1

-----------------------------------------------------------------------------
(* Starting                                                                *)

Lasts(table, k) == table[k] # Absent /\ table[k] > now

WithoutExpired(table) ==
    [k \in Keys |-> IF k \in Tokens /\ ~Lasts(table, k) THEN Absent ELSE table[k]]

\* Mutant: the promise of the sweep that begins is not kept.
TickForgets ==
    /\ running' = TRUE /\ sweeping' = Rows
    /\ currentTick' = "settled"

\* A tick fires.  While a sweep is under way it is skipped, and the promise kept
\* is the skipped tick's.
TickBegins ==
    IF running THEN currentTick' = "settled" /\ UNCHANGED <<running, sweeping>>
    ELSE /\ running' = TRUE /\ sweeping' = Rows
         /\ currentTick' = "pending"

\* The stores are loaded, requests are accepted, and the boot sweep begins.
Load ==
    /\ phase = "loading"
    /\ database' = WithoutExpired(database)
    /\ memory' = database' /\ written' = database'
    /\ flush' = [changed |-> NoChange, image |-> database']
    /\ queue' = 0 /\ queued' = FALSE
    /\ phase' = "serving"
    /\ TickBegins
    /\ UNCHANGED <<requests, closing, flushed, auth, clock>>

\* A start that fails stays failed.
LoadFails ==
    /\ phase = "loading"
    /\ phase' = "exited" /\ ended' = "failed"
    /\ UNCHANGED <<vars, requests, tick, awaited, timedOut, flushed, auth, clock>>

\* Nothing that was in memory is there when the process is started again.
Start ==
    /\ phase = "exited" /\ starts < MaxStarts
    /\ starts' = starts + 1
    /\ phase' = "loading" /\ ended' = "no"
    /\ requests' = [t \in Handlers |-> NoRow]
    /\ sweeping' = {} /\ running' = FALSE
    /\ currentTick' = "settled" /\ awaited' = "settled"
    /\ timedOut' = FALSE /\ flushed' = "ok"
    /\ challenges' = [w \in Wallets |-> <<>>]
    /\ UNCHANGED <<vars, expires, redeemed, now>>

-----------------------------------------------------------------------------
(* Signing in                                                              *)

\* The challenges of a list that are among `kept`, in their order (SelectSeq, as
\* a recursive function).
Filter(list, kept) ==
    LET upTo[i \in 0 .. Len(list)] ==
          IF i = 0 THEN <<>>
          ELSE IF list[i] \in kept THEN Append(upTo[i - 1], list[i])
          ELSE upTo[i - 1]
    IN  upTo[Len(list)]

Live == {n \in Nonces : expires[n] > now}

LiveOf(w) == Filter(challenges[w], Live)

LastOf(s, n) == IF Len(s) <= n THEN s ELSE SubSeq(s, Len(s) - n + 1, Len(s))

WithChallenges == {w \in Wallets : challenges[w] # <<>>}

\* A wallet not among those with challenges is refused while they are too many,
\* once the expired ones are swept.
IssueChallenge(w, n) ==
    LET full == w \notin WithChallenges /\ Cardinality(WithChallenges) >= MaxWallets
        swept == [v \in Wallets |-> IF full THEN LiveOf(v) ELSE challenges[v]]
        refused == full /\ Cardinality({v \in Wallets : swept[v] # <<>>}) >= MaxWallets
    IN
    /\ phase = "serving"
    /\ expires[n] = 0
    /\ IF refused THEN challenges' = swept /\ UNCHANGED expires
       ELSE /\ expires' = [expires EXCEPT ![n] = now + ChallengeExpiry]
            /\ challenges' = [swept EXCEPT ![w] = LastOf(Append(LiveOf(w), n), MaxChallenges)]
    /\ UNCHANGED <<vars, phase, requests, tick, closing, flushed, redeemed, clock>>

\* Mutant: the challenge stays after it is used.
RemainingAll(w, n) == LiveOf(w)

Remaining(w, n) == Filter(LiveOf(w), Nonces \ {n})

CreateSession(k) == memory' = [memory EXCEPT ![k] = now + SessionTtl]

\* A signature over an outstanding challenge: the challenge is used up, and the
\* wallet gets a session.
Redeem(w, n, k) ==
    /\ phase = "serving"
    /\ n \in ToSet(LiveOf(w))
    /\ memory[k] = Absent /\ database[k] = Absent /\ flush.image[k] = Absent
    /\ challenges' = [challenges EXCEPT ![w] = Remaining(w, n)]
    /\ redeemed' = [redeemed EXCEPT ![n] = @ + 1]
    /\ CreateSession(k)
    /\ UNCHANGED <<copy, phase, requests, tick, closing, flushed, expires, clock>>

\* A request that names a session past its time finds it out and deletes it; so
\* does a sign-in, once there are many sessions.
Resolve(k) ==
    /\ phase = "serving"
    /\ memory[k] # Absent /\ ~Lasts(memory, k)
    /\ memory' = [memory EXCEPT ![k] = Absent]
    /\ UNCHANGED <<copy, phase, requests, tick, closing, flushed, auth, clock>>

-----------------------------------------------------------------------------
(* Work                                                                    *)

Changes(k) == memory' = [memory EXCEPT ![k] = @ + 1]

CanChange(k) == memory[k] < MaxChanges

Accept(t, k) ==
    /\ phase = "serving" /\ requests[t] = NoRow /\ CanChange(k)
    /\ requests' = [requests EXCEPT ![t] = k]
    /\ UNCHANGED <<vars, phase, tick, closing, flushed, auth, clock>>

\* The response is sent when the change is made.
Respond(t) ==
    LET k == requests[t] IN
    /\ Up /\ k # NoRow
    /\ IF CanChange(k) THEN Changes(k) ELSE UNCHANGED memory
    /\ requests' = [requests EXCEPT ![t] = NoRow]
    /\ UNCHANGED <<copy, phase, tick, closing, flushed, auth, clock>>

\* The interval timer; stopLifecycleJob clears it.
TimerFires ==
    /\ phase = "serving"
    /\ running => Overruns
    /\ TickBegins
    /\ UNCHANGED <<vars, phase, requests, closing, flushed, auth, clock>>

\* The sweep gets to another loan, and may change it.
SweepLooks(k) ==
    /\ Up /\ running /\ k \in sweeping
    /\ sweeping' = sweeping \ {k}
    /\ \/ CanChange(k) /\ Changes(k)
       \/ UNCHANGED memory
    /\ UNCHANGED <<copy, phase, requests, running, currentTick, closing, flushed, auth, clock>>

\* Whoever waits for the sweep's own promise is told.
SweepEnds ==
    /\ Up /\ running /\ sweeping = {}
    /\ running' = FALSE
    /\ currentTick' = "settled"
    /\ awaited' = "settled"
    /\ UNCHANGED <<vars, phase, requests, sweeping, timedOut, ended, flushed, auth, clock>>

-----------------------------------------------------------------------------
(* The durable copy                                                        *)

Schedule ==
    /\ phase \in {"serving", "closing"}
    /\ SchedulePersist
    /\ UNCHANGED <<phase, requests, tick, closing, flushed, auth, clock>>

FlushTurn ==
    /\ Up
    /\ \/ StartFlush /\ flushed' = IF Changed = NoChange THEN "ok" ELSE "pending"
       \/ Commit /\ flushed' = "ok"
       \/ CommitFails /\ flushed' = "failed"
    /\ UNCHANGED <<phase, requests, tick, closing, auth, clock>>

-----------------------------------------------------------------------------
(* Ending                                                                  *)

\* SIGINT or SIGTERM.  The tick's promise is taken as it is now.
Signal ==
    /\ phase = "serving"
    /\ phase' = "closing"
    /\ awaited' = currentTick
    /\ UNCHANGED <<vars, requests, tick, timedOut, ended, flushed, auth, clock>>

Stops(late) ==
    /\ phase = "closing"
    /\ phase' = "stopping"
    /\ timedOut' = late
    /\ FlushNow
    /\ UNCHANGED <<requests, tick, awaited, ended, flushed, auth, clock>>

\* Mutant: only the requests are waited for.
RequestsSettled == \A t \in Handlers : requests[t] = NoRow

\* The server has no connection left and the tick's promise has settled.
Settled == awaited = "settled" /\ \A t \in Handlers : requests[t] = NoRow

ShutsDown == Settled /\ Stops(FALSE)

ShutdownTimesOut == Stops(TRUE)

Exits(how) ==
    /\ phase' = "exited"
    /\ ended' = how
    /\ UNCHANGED <<requests, tick, awaited, timedOut, auth, clock>>

\* The last flush has run, whatever came of it.
Stopped ==
    /\ phase = "stopping" /\ queue = 0 /\ FlushIdle
    /\ Exits(IF timedOut THEN "timed out" ELSE "complete")
    /\ UNCHANGED <<vars, flushed>>

\* What is under way at the database may be committed all the same.
EndsWithFlush ==
    /\ database' \in {database, Apply(database)}
    /\ UNCHANGED <<memory, written, flush, queue, queued>>

\* Mutant: the last flush is waited for, however long it takes.
WaitsForFlush == FALSE /\ UNCHANGED processVars

\* The last flush is waited for five seconds.
FlushTimesOut ==
    /\ phase = "stopping" /\ ~(queue = 0 /\ FlushIdle)
    /\ EndsWithFlush
    /\ flushed' = "pending"
    /\ Exits(IF timedOut THEN "timed out" ELSE "complete")

\* The process dies.
Die ==
    /\ Up
    /\ EndsWithFlush
    /\ Exits("crashed")
    /\ UNCHANGED flushed

TimePasses ==
    /\ now < MaxTime
    /\ now' = now + 1
    /\ UNCHANGED <<vars, phase, requests, tick, closing, flushed, auth, starts>>

ProcessNext ==
    \/ Load \/ LoadFails \/ Start
    \/ \E w \in Wallets, n \in Nonces :
          IssueChallenge(w, n) \/ \E k \in Tokens : Redeem(w, n, k)
    \/ \E k \in Tokens : Resolve(k)
    \/ \E t \in Handlers : Respond(t) \/ \E k \in Rows : Accept(t, k)
    \/ TimerFires \/ SweepEnds \/ \E k \in Rows : SweepLooks(k)
    \/ Schedule \/ FlushTurn
    \/ Signal \/ ShutsDown \/ ShutdownTimesOut \/ Stopped \/ FlushTimesOut \/ Die
    \/ TimePasses

ProcessSpec == ProcessInit /\ [][ProcessNext]_processVars

-----------------------------------------------------------------------------
(* What must be right about starting and stopping                          *)

\* A shutdown reported as complete, whose last flush the database took, leaves
\* nothing behind: no request or sweep was cut off, and the database has every
\* session and every loan as the process last had them.
CompleteMeansStored ==
    phase = "exited" /\ ended = "complete" /\ flushed = "ok" =>
        /\ ~running /\ \A t \in Handlers : requests[t] = NoRow
        /\ database = memory

\* A challenge is exchanged for one session at most, also by a wallet that tries
\* again after a restart, and no more sessions are open than were exchanged.
ChallengeUsedOnce ==
    /\ \A n \in Nonces : redeemed[n] <= 1
    /\ Cardinality({k \in Tokens : memory[k] # Absent})
         <= Cardinality({n \in Nonces : redeemed[n] > 0})

\* The two timers fire: the one that bounds the wait for requests and sweep, and
\* the one that bounds the last flush.  Nothing else is relied on.
FairProcessSpec ==
    /\ ProcessSpec
    /\ WF_processVars(ShutdownTimesOut)
    /\ WF_processVars(FlushTimesOut) /\ WF_processVars(Stopped)

\* A process told to stop ends, though a request never does, a sweep hangs or
\* the database is out of reach.
ExitsWhenTold == phase = "closing" ~> phase = "exited"
=============================================================================
