----------------------------- MODULE ThreadPool -----------------------------
(***************************************************************************)
(* A pool of worker threads (ThreadPool.ts over AWorkerPool.ts).           *)
(*                                                                         *)
(* A thread that fails tells the pool twice: "error" with what was thrown, *)
(* then "exit".  Between the two the pool goes on using it.  A message to  *)
(* a thread that is gone is lost without a sign.                           *)
(***************************************************************************)
EXTENDS AWorkerPool

ThreadShared ==
    /\ SharedHandler
    /\ UNCHANGED limiter

\* The "error" handler: something thrown in a thread was caught by nothing,
\* in the handler call of the assignment c or outside of any.  Answers
\* already posted, those to late, are still read.
ThreadError(w) ==
    /\ life[w] \in {"starting", "up"}
    /\ life' = [life EXCEPT ![w] = "errored"]
    /\ Feed
    /\ \E late \in SUBSET running[w] :
          LET run == [running EXCEPT ![w] = late]
          IN  \/ /\ halted'
                 /\ running' = run
                 /\ UNCHANGED <<idle, active, pending, promises>>
              \/ /\ ~halted'
                 /\ DeactivateWorkerWithError(w, "ERROR", run)
    /\ UNCHANGED <<startup, alive, destroyed>>

\* The "exit" handler with a code that asks for nothing (0 or
\* WORKER_ERROR_CODE), or after destroy: the thread is not replaced, stays
\* counted, and keeps what it holds until the timeout.
ThreadExitIgnored(w) ==
    /\ life[w] \in Live
    /\ destroyed \/ life[w] # "errored"
    /\ life' = [life EXCEPT ![w] = "dead"]
    /\ running' = [running EXCEPT ![w] = {}]
    /\ UNCHANGED <<idle, active, pending, promises, startup, alive, destroyed, limiter>>

\* The "exit" handler with any other code, the only one after an error.
ThreadExit(w) ==
    /\ life[w] \in Live
    /\ ~destroyed
    /\ ExitAndRespawn(w)
    /\ DeactivateWorkerWithError(w, "WORKER_EXIT", [running EXCEPT ![w] = {}])
    /\ UNCHANGED <<startup, destroyed, limiter>>

ThreadStep ==
    \/ ThreadShared
    \/ InitPeriodEnds
    \/ HostEnds
    \/ \E w \in Worker : ThreadError(w) \/ ThreadExitIgnored(w) \/ ThreadExit(w)

ThreadNext ==
    /\ ~halted
    /\ ThreadStep

ThreadSpec == Init /\ [][ThreadNext]_vars

=============================================================================
