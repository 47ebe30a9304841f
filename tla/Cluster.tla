------------------------------- MODULE Cluster -------------------------------
(***************************************************************************)
(* A cluster for more than one process: a pool of child processes, each of *)
(* which passes its assignments to a pool of threads of its own            *)
(* (Cluster.ts over ProcessPool.ts, and adapter.process.ts).               *)
(*                                                                         *)
(* The parent is ProcessPool, whose running[w] is here told apart: what is *)
(* sent and not yet read by the child, what waits in its pool, what a      *)
(* thread has taken, and the answers that the parent has not read.  The    *)
(* promise of the child's pool is awaited by a listener: if it is          *)
(* rejected, or a thread fails, whose error the adapter throws, the child  *)
(* ends with code 1, before its error limiter has counted anything.  A     *)
(* child, and the parent, may also end in the ways that processes have.    *)
(***************************************************************************)
EXTENDS ProcessPool

CONSTANT ThreadLimit    \* threadClusterOptions.limit

ASSUME ThreadLimitAssumption == ThreadLimit \in Nat \ {0}

VARIABLES
    sent,       \* per child, the assignments it has not read
    waiting,    \* pendingAssignments of its pool
    threads,    \* how many threads it has created
    ready,      \* how many of them are idle
    taken,      \* the assignments that its threads have
    answered    \* the assignments whose answer the parent has not read

children == <<sent, waiting, threads, ready, taken, answered>>
clusterVars == <<vars, children>>

ClusterInit ==
    /\ Init
    /\ sent = [w \in Worker |-> <<>>]
    /\ waiting = [w \in Worker |-> <<>>]
    /\ threads = [w \in Worker |-> 0]
    /\ ready = [w \in Worker |-> 0]
    /\ taken = [w \in Worker |-> {}]
    /\ answered = [w \in Worker |-> {}]

-----------------------------------------------------------------------------
(* The parent.                                                             *)

\* What the step of the parent sends is on its way, behind what is in unread.
SendsBehind(unread) ==
    sent' = [w \in Worker |->
        IF w \in SentTo /\ life'[w] = "up" THEN Append(unread[w], active'[w]) ELSE unread[w]]

Sends == SendErrors /\ SendsBehind(sent)

\* A step in which the parent hears of no child.  The children that destroy
\* stops end as others do.
ParentOnly ==
    /\ \/ Boot
       \/ AssignRefused
       \/ AssignAccepted
       \/ AssignSpawns
       \/ Destroy
       \/ \E w \in Worker : Timeout(w)
    /\ Sends
    /\ UNCHANGED <<waiting, threads, ready, taken, answered>>

InitPeriodOver ==
    /\ InitPeriodEnds
    /\ UNCHANGED children

\* The parent ends: of itself, by a child's WORKER_ERROR_CODE, or by a fork
\* that fails.
ParentEnds ==
    /\ HostEnds \/ \E w \in Worker : ProcessExitFatal(w) \/ ForkFails(w)
    /\ UNCHANGED children

\* The child has sent "online", which it does when its pool is: the pool has
\* created a thread, which is idle.
ChildOnline(w) ==
    /\ WorkerOnline(w)
    /\ Sends
    /\ threads' = [threads EXCEPT ![w] = 1]
    /\ ready' = [ready EXCEPT ![w] = 1]
    /\ UNCHANGED <<waiting, taken, answered>>

\* The parent reads an answer.
Reads(w) ==
    /\ Reply(w)
    /\ Sends
    /\ \E a \in answered[w] \ running'[w] : answered' = [answered EXCEPT ![w] = @ \ {a}]
    /\ UNCHANGED <<waiting, threads, ready, taken>>

-----------------------------------------------------------------------------
(* The children, which run concurrently with it.                           *)

Up(w) == life[w] = "up"

\* The pool of the child with the queue q: an idle thread takes the first.
Dispatch(w, q, idleThreads) ==
    IF q # <<>> /\ idleThreads > 0
    THEN /\ taken' = [taken EXCEPT ![w] = @ \cup {Head(q)}]
         /\ ready' = [ready EXCEPT ![w] = idleThreads - 1]
         /\ waiting' = [waiting EXCEPT ![w] = Tail(q)]
    ELSE /\ ready' = [ready EXCEPT ![w] = idleThreads]
         /\ waiting' = [waiting EXCEPT ![w] = q]
         /\ UNCHANGED taken

\* Mutant of ChildReads: a thread is created for each assignment.
ChildReadsSpawning(w) ==
    /\ Up(w)
    /\ sent[w] # <<>>
    /\ sent' = [sent EXCEPT ![w] = Tail(@)]
    /\ Dispatch(w, Append(waiting[w], Head(sent[w])), ready[w])
    /\ threads' = [threads EXCEPT ![w] = IF @ < ThreadLimit THEN @ + 1 ELSE @]
    /\ UNCHANGED <<vars, answered>>

\* The child assigns what it is sent to its pool, which creates a thread if
\* none is idle.
ChildReads(w) ==
    /\ Up(w)
    /\ sent[w] # <<>>
    /\ sent' = [sent EXCEPT ![w] = Tail(@)]
    /\ Dispatch(w, Append(waiting[w], Head(sent[w])), ready[w])
    /\ threads' = [threads EXCEPT ![w] = IF ready[w] = 0 /\ @ < ThreadLimit THEN @ + 1 ELSE @]
    /\ UNCHANGED <<vars, answered>>

\* A thread is online, and idle until the next event of the pool.
ThreadOnline(w) ==
    /\ Up(w)
    /\ ready[w] + Cardinality(taken[w]) < threads[w]
    /\ ready' = [ready EXCEPT ![w] = @ + 1]
    /\ UNCHANGED <<vars, sent, waiting, threads, taken, answered>>

\* A thread answers, which is sent on, and takes what waits.
ThreadAnswers(w) ==
    /\ Up(w)
    /\ \E a \in taken[w] :
          /\ answered' = [answered EXCEPT ![w] = @ \cup {a}]
          /\ LET left == [taken EXCEPT ![w] = @ \ {a}] IN
                IF waiting[w] = <<>>
                THEN /\ taken' = left
                     /\ ready' = [ready EXCEPT ![w] = @ + 1]
                     /\ UNCHANGED waiting
                ELSE /\ taken' = [left EXCEPT ![w] = @ \cup {Head(waiting[w])}]
                     /\ waiting' = [waiting EXCEPT ![w] = Tail(@)]
                     /\ UNCHANGED ready
    /\ UNCHANGED <<vars, sent, threads>>

\* What a child that ended had is gone with it, but for its answers: the
\* parent may still read some.
ChildGone(w) ==
    /\ running'[w] \subseteq answered[w]
    /\ answered' = [answered EXCEPT ![w] = running'[w]]
    /\ waiting' = [waiting EXCEPT ![w] = <<>>]
    /\ threads' = [threads EXCEPT ![w] = 0]
    /\ ready' = [ready EXCEPT ![w] = 0]
    /\ taken' = [taken EXCEPT ![w] = {}]

\* The child ends with code 1, or by a signal, and is replaced.
ChildEnds(w) ==
    /\ ProcessExit(w)
    /\ SendsBehind([sent EXCEPT ![w] = <<>>])
    /\ ChildGone(w)

\* The child ends with code 0, as a handler or a signal's listener makes it.
ChildExitsZero(w) ==
    /\ ProcessExitZero(w)
    /\ sent' = [sent EXCEPT ![w] = <<>>]
    /\ ChildGone(w)

\* A thread fails, while it starts, for an assignment or for nothing, or the
\* child is killed.
ThreadFails(w) ==
    /\ life[w] \in Live
    /\ ChildEnds(w)

\* The timer of the child's pool for one of them: it may be later than the
\* parent's.
ThreadTimeout(w) ==
    /\ SlowHandlers
    /\ taken[w] # {}
    /\ ChildEnds(w)

ClusterNext ==
    /\ ~halted
    /\ \/ ParentOnly
       \/ InitPeriodOver
       \/ ParentEnds
       \/ \E w \in Worker :
             \/ ChildOnline(w) \/ Reads(w)
             \/ ChildReads(w) \/ ThreadOnline(w) \/ ThreadAnswers(w)
             \/ ThreadFails(w) \/ ThreadTimeout(w) \/ ChildExitsZero(w)

ClusterSpec == ClusterInit /\ [][ClusterNext]_clusterVars

-----------------------------------------------------------------------------
(* Properties.                                                             *)

\* However many threads a child may have, it creates a second one only after the
\* parent has given up an assignment that it had: the parent gives a child one at
\* a time (Cluster.ts:16-38, adapter.process.ts:14-16, AWorkerPool.ts:93-116).
SecondThreadAfterTimeout ==
    \A w \in Worker : threads[w] > 1 => \E a \in Assignment : status[a] = "TIMEOUT"

\* A child that no assignment was given up for answers what it is given, and
\* nothing else: its answer is for the assignment that the parent has it for
\* (adapter.process.ts:14-16, AWorkerPool.ts:194-203).
OneAtATime ==
    (\A a \in Assignment : status[a] # "TIMEOUT") =>
        \A w \in Worker : Up(w) =>
            running[w] = IF active[w] = NoAssignment THEN {} ELSE {active[w]}
=============================================================================
