---------------------------- MODULE AWorkerPool ----------------------------
(***************************************************************************)
(* The worker pool base class of the cluster package (AWorkerPool.ts).     *)
(*                                                                         *)
(* A pool lends workers to assignments.  Its bookkeeping is a queue of     *)
(* idle workers, a map from each active worker to the assignment it holds, *)
(* a queue of pending assignments and a count of the workers created.      *)
(* Workers run concurrently with the pool, and the pool learns of them     *)
(* through events (first message, message, error, exit), each handled to   *)
(* its end before the next: an action is one event handler.                *)
(*                                                                         *)
(* The class is abstract.  What a worker is, how it dies and what the pool *)
(* does then are in ProcessPool and ThreadPool, which extend this module   *)
(* and give the next-state relation.                                       *)
(***************************************************************************)
EXTENDS Integers, Sequences, FiniteSets, Functions

CONSTANTS
    Worker,         \* every worker that can ever be created
    None,           \* no worker
    MaxAssign,      \* bound: assignments made in a behaviour
    Limit,          \* options.limit; 0 by default on a single core
    MaxPending,     \* options.maxPending
    Threshold,      \* errorLimiterOptions.threshold
    AwaitOnline,    \* the pool's user assigns nothing before "online"
    SlowHandlers,   \* a handler may run for longer than options.timeout
    ErrorHandled    \* the pool's user listens to "error" and returns

ASSUME WorkerAssumption == None \notin Worker
ASSUME BoundAssumption ==
    /\ MaxAssign \in Nat
    /\ Limit \in Nat
    /\ MaxPending \in Nat
    /\ Threshold \in Nat \ {0}
ASSUME SwitchAssumption ==
    /\ AwaitOnline \in BOOLEAN
    /\ SlowHandlers \in BOOLEAN
    /\ ErrorHandled \in BOOLEAN

Assignment == 1 .. MaxAssign
NoAssignment == 0

VARIABLES
    idle,           \* idleWorkers
    active,         \* activeWorkers: the assignment each worker holds, or NoAssignment
    pending,        \* pendingAssignments
    alive,          \* aliveWorkers
    destroyed,      \* destroyed
    firstWorker,    \* the worker whose start the constructor awaits
    online,         \* whether "online" has been emitted
    life,           \* where each worker is in its life
    running,        \* per worker, the assignments whose answer it may yet send
    issued,         \* how many assignments the user has made
    status,         \* how the promise of each assignment stands
    reply,          \* whose answer a resolved assignment was given
    initPeriod,     \* errorLimiter.isInitPeriod
    records,        \* errorLimiter.records.length
    halted          \* the host process is gone

queues  == <<idle, active, pending, running>>
promises == <<issued, status, reply>>
startup == <<firstWorker, online>>
workers == <<alive, life>>
limiter == <<initPeriod, records, halted>>
vars == <<queues, promises, startup, workers, limiter, destroyed>>

Life == {"unborn", "starting", "up", "errored", "dead"}
Live == {"starting", "up", "errored"}

Failure == {"TIMEOUT", "WORKER_EXIT", "ERROR"}
Status == {"unissued", "open", "RESOLVED", "MAX_PENDING"} \cup Failure

Init ==
    /\ idle = <<>>
    /\ active = [w \in Worker |-> NoAssignment]
    /\ pending = <<>>
    /\ alive = 0
    /\ destroyed = FALSE
    /\ firstWorker = None
    /\ online = FALSE
    /\ life = [w \in Worker |-> "unborn"]
    /\ running = [w \in Worker |-> {}]
    /\ issued = 0
    /\ status = [a \in Assignment |-> "unissued"]
    /\ reply = [a \in Assignment |-> NoAssignment]
    /\ initPeriod \in BOOLEAN
    /\ records = 0
    /\ halted = FALSE

-----------------------------------------------------------------------------
(* The private methods, as fragments of the handlers that call them.       *)

\* activateWorker: the message reaches a worker that is up; one that has
\* died is sent it in vain.
Posted(run, w, a) ==
    IF life'[w] = "up" THEN [run EXCEPT ![w] = @ \cup {a}] ELSE run

\* Mutant of Activate: pop instead of shift on the pending assignments.
ActivateYoungest(idl, act, pend, run) ==
    LET last == pend[Len(pend)]
    IN  \/ /\ pend = <<>> \/ idl = <<>>
           /\ idle' = idl
           /\ active' = act
           /\ pending' = pend
           /\ running' = run
        \/ /\ pend # <<>> /\ idl # <<>>
           /\ idle' = Tail(idl)
           /\ active' = [act EXCEPT ![Head(idl)] = last]
           /\ pending' = SubSeq(pend, 1, Len(pend) - 1)
           /\ running' = Posted(run, Head(idl), last)

\* Mutant of Activate: the worker is not taken off the idle workers.
ActivateStillIdle(idl, act, pend, run) ==
    \/ /\ pend = <<>> \/ idl = <<>>
       /\ idle' = idl
       /\ active' = act
       /\ pending' = pend
       /\ running' = run
    \/ /\ pend # <<>> /\ idl # <<>>
       /\ idle' = idl
       /\ active' = [act EXCEPT ![Head(idl)] = Head(pend)]
       /\ pending' = Tail(pend)
       /\ running' = Posted(run, Head(idl), Head(pend))

\* activate, on the queues as its caller leaves them and apart from the
\* spawn, which AssignSpawns has: one assignment, to the longest idle worker.
Activate(idl, act, pend, run) ==
    \/ /\ pend = <<>> \/ idl = <<>>
       /\ idle' = idl
       /\ active' = act
       /\ pending' = pend
       /\ running' = run
    \/ /\ pend # <<>> /\ idl # <<>>
       /\ idle' = Tail(idl)
       /\ active' = [act EXCEPT ![Head(idl)] = Head(pend)]
       /\ pending' = Tail(pend)
       /\ running' = Posted(run, Head(idl), Head(pend))

\* Mutant of Deactivate: activeWorkers.delete is missing.
DeactivateStillActive(w, run) ==
    Activate(Append(idle, w), active, pending, run)

\* Mutant of Deactivate: the call of activate is missing.
DeactivateOnly(w, run) ==
    /\ idle' = Append(idle, w)
    /\ active' = [active EXCEPT ![w] = NoAssignment]
    /\ pending' = pending
    /\ running' = run

\* Mutant of Deactivate: idleWorkers.push is missing.
DeactivateUnqueued(w, run) ==
    Activate(idle, [active EXCEPT ![w] = NoAssignment], pending, run)

\* deactivate: the worker is idle again, whatever state it is in.
Deactivate(w, run) ==
    Activate(Append(idle, w), [active EXCEPT ![w] = NoAssignment], pending, run)

\* deactivateWorker with the answer to assignment b, which the pool takes
\* for the answer to whatever w holds.
DeactivateWorker(w, b, run) ==
    \/ /\ active[w] = NoAssignment
       /\ running' = run
       /\ UNCHANGED <<idle, active, pending, promises>>
    \/ /\ active[w] # NoAssignment
       /\ status' = [status EXCEPT ![active[w]] = "RESOLVED"]
       /\ reply' = [reply EXCEPT ![active[w]] = b]
       /\ UNCHANGED issued
       /\ Deactivate(w, run)

DeactivateWorkerWithError(w, err, run) ==
    \/ /\ active[w] = NoAssignment
       /\ running' = run
       /\ UNCHANGED <<idle, active, pending, promises>>
    \/ /\ active[w] # NoAssignment
       /\ status' = [status EXCEPT ![active[w]] = err]
       /\ UNCHANGED <<issued, reply>>
       /\ Deactivate(w, run)

\* spawnWorker up to its await: w is created, counted, and not yet idle.
SpawnWorker(w) ==
    /\ life[w] = "unborn"
    /\ life' = [life EXCEPT ![w] = "starting"]
    /\ alive' = alive + 1

\* Mutant of ExitAndRespawn: the worker that exited stays counted.
ExitStillCounted(w) ==
    \E n \in Worker :
        /\ life[n] = "unborn"
        /\ life' = [life EXCEPT ![w] = "dead", ![n] = "starting"]
        /\ alive' = alive + 1

\* A worker exits and respawnWorker replaces it.
ExitAndRespawn(w) ==
    \E n \in Worker :
        /\ life[n] = "unborn"
        /\ life' = [life EXCEPT ![w] = "dead", ![n] = "starting"]
        /\ alive' = (alive - 1) + 1

\* Mutant of Feed: terminates one error too late.
FeedLate ==
    /\ UNCHANGED initPeriod
    /\ \E kept \in 0 .. records :
          /\ records' = kept + 1
          /\ halted' = (kept + 1 > Threshold)

\* ErrorLimiter.feed.  With no "error" listener the emit throws, from an
\* event handler of the host.  Records that left the window are dropped: any
\* number of the earlier ones may remain.  "terminate" ends the host.
Feed ==
    /\ UNCHANGED initPeriod
    /\ \/ /\ ~ErrorHandled
          /\ halted' = TRUE
          /\ UNCHANGED records
       \/ /\ ErrorHandled
          /\ \E kept \in 0 .. records :
                /\ records' = kept + 1
                /\ halted' = (initPeriod \/ kept + 1 >= Threshold)

-----------------------------------------------------------------------------
(* The handlers the two pools share.  Each leaves the error limiter to the  *)
(* pool, which decides whether sending to a dead worker is an error.        *)

\* The constructor's setImmediate: spawns whatever the count already is.
Boot ==
    /\ firstWorker = None
    /\ \E w \in Worker : SpawnWorker(w) /\ firstWorker' = w
    /\ UNCHANGED <<queues, promises, online, destroyed>>

\* createWorker's promise: the worker's first message.  spawnWorker goes on
\* after its await and queues the worker; nothing is dispatched to it.
WorkerOnline(w) ==
    /\ life[w] = "starting"
    /\ life' = [life EXCEPT ![w] = "up"]
    /\ idle' = Append(idle, w)
    /\ online' = (online \/ w = firstWorker)
    /\ UNCHANGED <<active, pending, running, promises, firstWorker, alive, destroyed>>

\* A call to assign by the pool's user, which AwaitOnline may hold back.
Assigns ==
    /\ AwaitOnline => online
    /\ issued < MaxAssign
    /\ issued' = issued + 1
    /\ UNCHANGED <<reply, startup, destroyed>>

AssignRefused ==
    /\ Assigns
    /\ Len(pending) >= MaxPending
    /\ status' = [status EXCEPT ![issued + 1] = "MAX_PENDING"]
    /\ UNCHANGED <<queues, workers>>

\* Mutant of Accepts: maxPending is not looked at.
AcceptsAll ==
    /\ Assigns
    /\ status' = [status EXCEPT ![issued + 1] = "open"]

Accepts ==
    /\ Assigns
    /\ Len(pending) < MaxPending
    /\ status' = [status EXCEPT ![issued + 1] = "open"]

\* No spawn: a worker is idle, or the limit is reached.
AssignAccepted ==
    /\ Accepts
    /\ idle # <<>> \/ alive >= Limit
    /\ UNCHANGED workers
    /\ Activate(idle, active, Append(pending, issued + 1), running)

AssignSpawns ==
    /\ Accepts
    /\ idle = <<>>
    /\ alive < Limit
    /\ \E w \in Worker : SpawnWorker(w)
    /\ pending' = Append(pending, issued + 1)
    /\ UNCHANGED <<idle, active, running>>

\* A handler call in w ends and the pool reads its answer.  The worker does
\* not say which message it answers.
Reply(w) ==
    /\ UNCHANGED <<startup, workers, destroyed>>
    /\ \E b \in running[w] :
          DeactivateWorker(w, b, [running EXCEPT ![w] = @ \ {b}])

\* Mutant of Timeout: a worker's exit cancels its timer.
TimeoutOfLive(w) ==
    /\ active[w] # NoAssignment
    /\ life[w] \in Live
    /\ UNCHANGED <<startup, workers, destroyed>>
    /\ DeactivateWorkerWithError(w, "TIMEOUT", running)

\* The timer of the assignment w holds.  The handler call goes on.
Timeout(w) ==
    /\ active[w] # NoAssignment
    /\ SlowHandlers \/ active[w] \notin running[w]
    /\ UNCHANGED <<startup, workers, destroyed>>
    /\ DeactivateWorkerWithError(w, "TIMEOUT", running)

\* destroy: the workers it stops exit later, as workers do.
Destroy ==
    /\ ~destroyed
    /\ destroyed' = TRUE
    /\ UNCHANGED <<queues, promises, startup, workers>>

\* The errorLimiter's initial period ends.
InitPeriodEnds ==
    /\ initPeriod
    /\ initPeriod' = FALSE
    /\ UNCHANGED <<queues, promises, startup, workers, records, halted, destroyed>>

\* The host ends in no handler modelled here: by a signal, or because
\* rebufferData throws on a null in an answer, or because activate rejects,
\* unhandled, when an assignment cannot be serialised.
HostEnds ==
    /\ halted' = TRUE
    /\ UNCHANGED <<queues, promises, startup, workers, initPeriod, records, destroyed>>

SharedHandler ==
    \/ Boot
    \/ AssignRefused
    \/ AssignAccepted
    \/ AssignSpawns
    \/ Destroy
    \/ \E w \in Worker : WorkerOnline(w) \/ Reply(w) \/ Timeout(w)

-----------------------------------------------------------------------------
(* Properties of both pools.                                               *)

Waiting == Range(pending)
Underway == {active[w] : w \in Worker} \ {NoAssignment}
Queued == Range(idle)
\* Every assignment a worker has been given, at any time.
TakenUp == {a \in Assignment : a <= issued /\ status[a] # "MAX_PENDING"} \ Waiting

\* Type invariant of the bookkeeping of AWorkerPool and ErrorLimiter.
TypeOK ==
    /\ idle \in Seq(Worker)
    /\ active \in [Worker -> Assignment \cup {NoAssignment}]
    /\ pending \in Seq(Assignment)
    /\ alive \in Nat
    /\ destroyed \in BOOLEAN
    /\ firstWorker \in Worker \cup {None}
    /\ online \in BOOLEAN
    /\ life \in [Worker -> Life]
    /\ running \in [Worker -> SUBSET Assignment]
    /\ issued \in 0 .. MaxAssign
    /\ status \in [Assignment -> Status]
    /\ reply \in [Assignment -> Assignment \cup {NoAssignment}]
    /\ initPeriod \in BOOLEAN
    /\ records \in 0 .. Threshold
    /\ halted \in BOOLEAN

\* No promise is forgotten and none is settled behind the pool's back: an
\* assignment is open exactly while it waits in pendingAssignments or is held
\* by one worker in activeWorkers, never by two, never in both.
Accounted ==
    /\ \A a \in Assignment : status[a] = "open" <=> a \in Waiting \cup Underway
    /\ Waiting \cap Underway = {}
    /\ \A v, w \in Worker :
          active[v] = active[w] /\ active[v] # NoAssignment => v = w

\* Assignments are taken up in the order they were made: whatever a worker
\* has ever held is older than all that still waits, and the queue ascends.
InOrder ==
    /\ \A i, j \in 1 .. Len(pending) : i < j => pending[i] < pending[j]
    /\ \A a \in TakenUp, b \in Waiting : a < b

\* A worker that came online is idle once or active, never both, whatever
\* became of it (activate would overwrite an assignment otherwise), and one
\* that is up is never lost: destroy, which stops those in the two queues,
\* misses none but those that are still starting.
HeldOnce ==
    /\ \A i, j \in 1 .. Len(idle) : idle[i] = idle[j] => i = j
    /\ \A w \in Queued : active[w] = NoAssignment
    /\ \A w \in Worker :
          /\ life[w] \in {"unborn", "starting"} =>
                w \notin Queued /\ active[w] = NoAssignment
          /\ life[w] = "up" => w \in Queued \/ active[w] # NoAssignment

\* An answer the pool resolves a promise with is the assignment's own, or
\* that of an older assignment settled without it: failed, or resolved with
\* one older still.  One timeout can so displace every answer after it, but
\* no answer is given to two assignments, and none to an older one.
AnswerFate ==
    /\ \A a \in Assignment : reply[a] # NoAssignment <=> status[a] = "RESOLVED"
    /\ \A a \in Assignment :
          reply[a] \notin {NoAssignment, a} =>
             reply[a] < a /\ status[reply[a]] \in Failure \cup {"RESOLVED"}
    /\ \A a, b \in Assignment :
          reply[a] = reply[b] /\ reply[a] # NoAssignment => a = b

\* Once the first assignment was taken up nothing waits with no worker active:
\* every end of an assignment goes through activate, which is what keeps the
\* rest of the queue moving.  Before, an assignment may wait for the next
\* event (assign's activate returns after its spawn).
NoStranding == TakenUp # {} /\ pending # <<>> => Underway # {}

\* aliveWorkers counts every live worker, and exceeds the limit by the one the
\* constructor spawns at most: when an assignment came before it, or when the
\* limit is 0.
PoolSize ==
    /\ Cardinality({w \in Worker : life[w] \in Live}) <= alive
    /\ alive <= Limit + (IF firstWorker = None \/ (AwaitOnline /\ Limit > 0) THEN 0 ELSE 1)

\* The answer a promise is resolved with is its own, as every round trip of
\* the cluster tests expects (cluster.process.test.js:29-35).
OwnReply == \A a \in Assignment : status[a] = "RESOLVED" => reply[a] = a

\* An assignment is settled sooner or later, with no help from the handlers,
\* unless the host ends: any assignment if assignments await "online", else
\* those that exist once the pool has taken up its first.
EverySettles ==
    \A a \in Assignment :
        status[a] = "open" /\ (AwaitOnline \/ TakenUp # {})
            ~> status[a] # "open" \/ halted

\* What the pool promises, without workers.
Service ==
    INSTANCE AssignmentService WITH
        waiting <- pending,
        underway <- Underway,
        stopped <- halted
Contract == Service!Spec

=============================================================================
