------------------------- MODULE AssignmentService -------------------------
(***************************************************************************)
(* What a worker pool promises to those who assign to it (the contract of  *)
(* AWorkerPool.assign), with no workers in it.                             *)
(*                                                                         *)
(* An assignment waits, in the order of arrival, or is refused when too    *)
(* many wait.  It is taken up at most once, and only at the head of the    *)
(* queue; it is settled exactly once, with an answer or a failure, and     *)
(* only while it is underway.  The answer is its own, or one that came too *)
(* late for an older assignment, settled without it; no answer is given    *)
(* twice.  Whenever one is settled the next that waits is taken up.        *)
(***************************************************************************)
EXTENDS Naturals, Sequences

CONSTANTS MaxAssign, MaxPending

Assignment == 1 .. MaxAssign
Failure == {"TIMEOUT", "WORKER_EXIT", "ERROR"}

VARIABLES waiting, underway, issued, status, reply, stopped

vars == <<waiting, underway, issued, status, reply, stopped>>

Init ==
    /\ waiting = <<>>
    /\ underway = {}
    /\ issued = 0
    /\ status = [a \in Assignment |-> "unissued"]
    /\ reply = [a \in Assignment |-> 0]
    /\ stopped = FALSE

\* With queue waiting and under underway: take up the head, or none.
TakeUp(queue, under) ==
    \/ /\ waiting' = queue
       /\ underway' = under
    \/ /\ queue # <<>>
       /\ waiting' = Tail(queue)
       /\ underway' = under \cup {Head(queue)}

Refuse ==
    /\ issued < MaxAssign
    /\ Len(waiting) >= MaxPending
    /\ issued' = issued + 1
    /\ status' = [status EXCEPT ![issued + 1] = "MAX_PENDING"]
    /\ UNCHANGED <<waiting, underway, reply>>

Submit ==
    /\ issued < MaxAssign
    /\ Len(waiting) < MaxPending
    /\ issued' = issued + 1
    /\ status' = [status EXCEPT ![issued + 1] = "open"]
    /\ TakeUp(Append(waiting, issued + 1), underway)
    /\ UNCHANGED reply

\* The answer to b may settle a.
MayAnswer(a, b) ==
    /\ b = a \/ (b < a /\ status[b] \in Failure \cup {"RESOLVED"})
    /\ \A c \in Assignment : reply[c] # b

\* A settled assignment makes room: if others wait, the first is taken up.
MakeRoom(a) ==
    /\ TakeUp(waiting, underway \ {a})
    /\ waiting = <<>> \/ waiting' # waiting
    /\ UNCHANGED issued

Resolve(a) ==
    /\ a \in underway
    /\ \E b \in Assignment :
          /\ MayAnswer(a, b)
          /\ reply' = [reply EXCEPT ![a] = b]
    /\ status' = [status EXCEPT ![a] = "RESOLVED"]
    /\ MakeRoom(a)

Reject(a) ==
    /\ a \in underway
    /\ \E why \in Failure : status' = [status EXCEPT ![a] = why]
    /\ UNCHANGED reply
    /\ MakeRoom(a)

\* The process the pool is in may end, in the course of a step or alone.
Stop ==
    /\ stopped' = TRUE
    /\ UNCHANGED <<waiting, underway, issued, status, reply>>

Next ==
    /\ ~stopped
    /\ \/ Stop
       \/ /\ stopped' \in BOOLEAN
          /\ \/ Refuse
             \/ Submit
             \/ \E a \in Assignment : Resolve(a) \/ Reject(a)

Spec == Init /\ [][Next]_vars

=============================================================================
