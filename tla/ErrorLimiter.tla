---------------------------- MODULE ErrorLimiter ----------------------------
(***************************************************************************)
(* The error limiter of a worker pool (ErrorLimiter.ts), with its clock.   *)
(*                                                                         *)
(* It forwards each error it is fed, and calls for the end of the process  *)
(* when errors come too fast, or any comes in the initial period.  The     *)
(* pools use it only by its counts: Feed of AWorkerPool, which this module *)
(* implements, forgets the times.                                          *)
(***************************************************************************)
EXTENDS Integers, Sequences, FiniteSets

CONSTANTS
    Threshold,      \* options.threshold
    WindowMs,       \* options.windowMs
    InitPeriodMs,   \* options.initPeriodMs
    MaxTime,        \* bound: the clock
    MaxErrors       \* bound: the errors fed

VARIABLES
    now,            \* Date.now()
    isInitPeriod,   \* isInitPeriod
    records,        \* the timestamps of records
    terminated,     \* "terminate" has been emitted, and the pool has exited
    fed             \* history: the time of every error fed

vars == <<now, isInitPeriod, records, terminated, fed>>

Init ==
    /\ now = 0
    /\ isInitPeriod = (InitPeriodMs > 0)
    /\ records = <<>>
    /\ terminated = FALSE
    /\ fed = <<>>

\* Mutant of InWindow: < for <=.
InOpenWindow(timestamp) == now - timestamp < WindowMs

InWindow(timestamp) == now - timestamp <= WindowMs

\* Mutant of TooMany: the error at hand is not counted.
TooManyBefore(count) == isInitPeriod \/ count > Threshold

TooMany(count) == isInitPeriod \/ count >= Threshold

\* records.filter: what it keeps of the first i records.
Kept[i \in 0 .. Len(records)] ==
    IF i = 0 THEN <<>>
    ELSE IF InWindow(records[i]) THEN Append(Kept[i - 1], records[i]) ELSE Kept[i - 1]

Recent == Kept[Len(records)]

\* Mutant of Feed: unshift for push.
FeedInFront ==
    /\ Len(fed) < MaxErrors
    /\ records' = <<now>> \o Recent
    /\ terminated' = TooMany(Len(records'))
    /\ fed' = Append(fed, now)
    /\ UNCHANGED <<now, isInitPeriod>>

\* feed
Feed ==
    /\ Len(fed) < MaxErrors
    /\ records' = Append(Recent, now)
    /\ terminated' = TooMany(Len(records'))
    /\ fed' = Append(fed, now)
    /\ UNCHANGED <<now, isInitPeriod>>

\* The constructor's timer; an event loop kept busy fires it late.
InitPeriodEnds ==
    /\ isInitPeriod
    /\ now >= InitPeriodMs
    /\ isInitPeriod' = FALSE
    /\ UNCHANGED <<now, records, terminated, fed>>

Tick ==
    /\ now < MaxTime
    /\ now' = now + 1
    /\ UNCHANGED <<isInitPeriod, records, terminated, fed>>

Next == ~terminated /\ (Feed \/ InitPeriodEnds \/ Tick)

Spec == Init /\ [][Next]_vars

-----------------------------------------------------------------------------

\* Some window of WindowMs holds as many errors as the threshold.
Burst == \E i \in 1 .. Len(fed) :
            /\ i + Threshold - 1 <= Len(fed)
            /\ fed[i + Threshold - 1] - fed[i] <= WindowMs

\* Dropping records while feeding loses no burst and makes up none: outside
\* of the initial period the limiter has terminated exactly if some window
\* of the whole history held too many errors; in it the first error is the
\* last.  The period may end between an error and the next.
TerminatesOnBurst == terminated <=> IF isInitPeriod THEN fed # <<>> ELSE Burst

\* The times the limiter keeps are those of the latest errors, so that the
\* pool's view of it by the number of records kept is all there is to it.
KeepsLatest == records = SubSeq(fed, Len(fed) - Len(records) + 1, Len(fed))

\* A pool's Feed is what an error does to the limiter, seen by counts.
Pool == INSTANCE AWorkerPool WITH
    Worker <- {}, None <- 0, MaxAssign <- 0, Limit <- 1, MaxPending <- 0,
    AwaitOnline <- FALSE, SlowHandlers <- FALSE, ErrorHandled <- TRUE,
    idle <- <<>>, active <- <<>>, pending <- <<>>, alive <- 0, destroyed <- FALSE,
    firstWorker <- 0, online <- FALSE, life <- <<>>, running <- <<>>, issued <- 0,
    status <- <<>>, reply <- <<>>,
    initPeriod <- isInitPeriod, records <- Len(records), halted <- terminated

\* Every step of the limiter is a step the pool models reckon with.
CountsAsInPool ==
    [][\/ Pool!Feed
       \/ Pool!InitPeriodEnds
       \/ UNCHANGED <<isInitPeriod, Len(records), terminated>>]_vars

=============================================================================
