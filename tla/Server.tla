------------------------------- MODULE Server -------------------------------
(***************************************************************************)
(* The web server (Server.ts) over the pool of workers of its Instance.    *)
(*                                                                         *)
(* Each request is an assignment to the pool, and what becomes of the      *)
(* promise becomes the response.  The pool is taken by its contract, the   *)
(* module AssignmentService.  The reactions of a promise run before the    *)
(* next event, so a response is written, and a rejection nobody handles    *)
(* ends the process, in the step that settles the assignment.              *)
(***************************************************************************)
EXTENDS Naturals, Sequences, FiniteSets

CONSTANT Request    \* the requests that may arrive

ASSUME ServerAssumption == IsFiniteSet(Request)

VARIABLES
    waiting, underway, issued, status, reply,   \* the pool
    stopped,        \* the process is gone
    listening,      \* the server accepts connections
    poolOnline,     \* the instance has emitted "online"
    deferredEvents, \* onlineDeferral.deferredEvents
    online,         \* how often the server has emitted "online"
    phase,          \* how far each request has come
    assigned,       \* the assignment of each request, or 0
    code,           \* the status its response was ended with, by its origin
    ends            \* how often its dRes.end was called

pool == <<waiting, underway, issued, status, reply>>
startup == <<listening, poolOnline, deferredEvents, online>>
requests == <<phase, assigned>>
responses == <<code, ends>>
vars == <<pool, stopped, startup, requests, responses>>

\* An Instance leaves maxPending at Infinity: the pool refuses nothing.
Pool == INSTANCE AssignmentService WITH
            MaxAssign <- Cardinality(Request),
            MaxPending <- Cardinality(Request)

\* Of a response that was not ended; the 200 of one that was given no other
\* status; that of the worker's answer; that of the outer catch.
Code == {"none", "default", "answer", "500"}

Init ==
    /\ Pool!Init
    /\ listening = FALSE
    /\ poolOnline = FALSE
    /\ deferredEvents = 2
    /\ online = 0
    /\ phase = [r \in Request |-> "none"]
    /\ assigned = [r \in Request |-> 0]
    /\ code = [r \in Request |-> "none"]
    /\ ends = [r \in Request |-> 0]

-----------------------------------------------------------------------------
(* Start.                                                                  *)

\* Mutant of CallDeferred: <= 1 for === 0.
CallDeferredEarly ==
    /\ deferredEvents' = deferredEvents - 1
    /\ online' = IF deferredEvents' <= 1 THEN online + 1 ELSE online

\* onlineDeferral.call
CallDeferred ==
    /\ deferredEvents' = deferredEvents - 1
    /\ online' = IF deferredEvents' = 0 THEN online + 1 ELSE online

Listens ==
    /\ ~listening
    /\ listening' = TRUE
    /\ CallDeferred
    /\ UNCHANGED <<pool, stopped, poolOnline, requests, responses>>

PoolOnline ==
    /\ ~poolOnline
    /\ poolOnline' = TRUE
    /\ CallDeferred
    /\ UNCHANGED <<pool, stopped, listening, requests, responses>>

-----------------------------------------------------------------------------
(* Requests.                                                               *)

\* dRes.end with the status c: only the first sends anything.
Ends(r, c) ==
    /\ code' = [code EXCEPT ![r] = IF ends[r] = 0 THEN c ELSE @]
    /\ ends' = [ends EXCEPT ![r] = @ + 1]

\* The request is assigned.  A listener to "request" may throw after that,
\* which the outer catch answers with 500.
Assign(r) ==
    /\ Pool!Submit
    /\ phase' = [phase EXCEPT ![r] = "assigned"]
    /\ assigned' = [assigned EXCEPT ![r] = issued + 1]
    /\ UNCHANGED responses \/ Ends(r, "500")
    /\ UNCHANGED <<startup, stopped>>

\* A request whose body is not read: any but PUT.
Arrives(r) ==
    /\ listening
    /\ phase[r] = "none"
    /\ Assign(r)

ArrivesWithBody(r) ==
    /\ listening
    /\ phase[r] = "none"
    /\ phase' = [phase EXCEPT ![r] = "body"]
    /\ UNCHANGED <<pool, stopped, startup, assigned, responses>>

BodyEnds(r) ==
    /\ phase[r] = "body"
    /\ Assign(r)

BodyFails(r) ==
    /\ phase[r] = "body"
    /\ phase' = [phase EXCEPT ![r] = "failed"]
    /\ Ends(r, "500")
    /\ UNCHANGED <<pool, stopped, startup, assigned>>

-----------------------------------------------------------------------------
(* Outcomes.                                                               *)

\* Mutant of Answered: no finally, and no body to end the response with.
AnsweredWithoutEnd(r) ==
    /\ Pool!Resolve(assigned[r])
    /\ UNCHANGED <<startup, requests, stopped, responses>>

\* The pool resolves the assignment of r.  To set an invalid header throws,
\* and so does any header or body once the response was ended: it is thrown
\* again, past the finally that ends the response, and is handled nowhere.
Answered(r) ==
    /\ Pool!Resolve(assigned[r])
    /\ Ends(r, "answer")
    /\ stopped' \in BOOLEAN
    /\ UNCHANGED <<startup, requests>>

\* Mutant of Rejected: the chain is returned, so that the outer catch ends it.
RejectedProperly(r) ==
    /\ Pool!Reject(assigned[r])
    /\ status'[assigned[r]] # "ERROR"
    /\ Ends(r, "500")
    /\ UNCHANGED <<startup, requests, stopped>>

\* The pool rejects it with a number of EClusterError, which is no status.
\* Not for an error of a worker: nobody listens to the instance's "error",
\* and to emit it ends the process before the rejection (Stops).
Rejected(r) ==
    /\ Pool!Reject(assigned[r])
    /\ status'[assigned[r]] # "ERROR"
    /\ Ends(r, "default")
    /\ stopped' = TRUE
    /\ UNCHANGED <<startup, requests>>

\* The process ends, by its pool, a worker's error or a signal.
Stops ==
    /\ Pool!Stop
    /\ UNCHANGED <<startup, requests, responses>>

Outcome(r) == Answered(r) \/ Rejected(r)

Next ==
    /\ ~stopped
    /\ \/ Listens
       \/ PoolOnline
       \/ Stops
       \/ \E r \in Request :
             \/ Arrives(r)
             \/ ArrivesWithBody(r)
             \/ BodyEnds(r)
             \/ BodyFails(r)
             \/ Outcome(r)

Spec == Init /\ [][Next]_vars

-----------------------------------------------------------------------------
(* Properties.                                                             *)

Phase == {"none", "body", "failed", "assigned"}

\* Type invariant; a response is ended twice at most (Server.ts:173, 179).
TypeOK ==
    /\ listening \in BOOLEAN
    /\ poolOnline \in BOOLEAN
    /\ deferredEvents \in 0 .. 2
    /\ online \in Nat
    /\ stopped \in BOOLEAN
    /\ issued \in 0 .. Cardinality(Request)
    /\ phase \in [Request -> Phase]
    /\ assigned \in [Request -> 0 .. Cardinality(Request)]
    /\ code \in [Request -> Code]
    /\ ends \in [Request -> 0 .. 2]

\* "online" is emitted once, by the later of the listening socket and the
\* first worker, in whichever order they come (Server.ts:104-116, 183).
OnlineOnce == online = IF listening /\ poolOnline THEN 1 ELSE 0

\* No response is left hanging: one that was not ended has a body to come or
\* an assignment that is open, unless the process is gone (Server.ts:140-182).
NothingHangs ==
    stopped \/ \A r \in Request :
        ends[r] = 0 /\ phase[r] # "none" =>
            phase[r] = "body" \/ status[assigned[r]] = "open"

\* A response is ended again only after the outer catch has ended it, for a
\* listener that threw (Server.ts:173-179).
EndedAgainAfterThrow == \A r \in Request : ends[r] = 2 => code[r] = "500"

\* Every client that is answered is given the answer to its own request,
\* although the pool may give a promise a late answer to another: that takes
\* a timeout first, and the server does not outlive one (Server.ts:162-173,
\* AWorkerPool.ts:108-115).
OwnResponse ==
    \A r \in Request : code[r] = "answer" => reply[assigned[r]] = assigned[r]
=============================================================================
