---------------------------- MODULE ProcessPool ----------------------------
(***************************************************************************)
(* A pool of child processes (ProcessPool.ts over AWorkerPool.ts).         *)
(*                                                                         *)
(* A child that dies tells the pool once, by its "exit".  A message to a   *)
(* child that is gone is an "error" of that child, fed to the error        *)
(* limiter before any other event is handled.                              *)
(***************************************************************************)
EXTENDS AWorkerPool

\* The workers a step sends an assignment to.
SentTo == {w \in Worker : active'[w] # NoAssignment /\ active'[w] # active[w]}

SendErrors ==
    \/ /\ \A w \in SentTo : life'[w] = "up"
       /\ UNCHANGED limiter
    \/ /\ \E w \in SentTo : life'[w] # "up"
       /\ Feed

ProcessShared ==
    /\ SharedHandler
    /\ SendErrors

\* The "exit" handler with code 0: the child is not replaced, stays counted,
\* and keeps what it holds until the timeout.  In each exit the answers the
\* child had sent, those to late, may be read after it.
ProcessExitZero(w) ==
    /\ life[w] \in Live
    /\ life' = [life EXCEPT ![w] = "dead"]
    /\ \E late \in SUBSET running[w] :
          running' = [running EXCEPT ![w] = late]
    /\ UNCHANGED <<idle, active, pending, promises, startup, alive, destroyed, limiter>>

\* The "exit" handler with WORKER_ERROR_CODE ends the host.
ProcessExitFatal(w) ==
    /\ life[w] \in Live
    /\ life' = [life EXCEPT ![w] = "dead"]
    /\ halted' = TRUE
    /\ UNCHANGED <<queues, promises, startup, alive, destroyed, initPeriod, records>>

\* The "exit" handler with any other code or a signal, destroy's included.
ProcessExit(w) ==
    /\ life[w] \in Live
    /\ ExitAndRespawn(w)
    /\ \E late \in SUBSET running[w] :
          DeactivateWorkerWithError(w, "WORKER_EXIT", [running EXCEPT ![w] = late])
    /\ SendErrors
    /\ UNCHANGED <<startup, destroyed>>

\* fork fails: "error" rejects createWorker's promise, and nothing handles
\* the rejection of spawnWorker, so the host ends whatever the limiter says.
ForkFails(w) ==
    /\ life[w] = "starting"
    /\ life' = [life EXCEPT ![w] = "dead"]
    /\ halted' = TRUE
    /\ UNCHANGED <<queues, promises, startup, alive, destroyed, initPeriod, records>>

ProcessStep ==
    \/ ProcessShared
    \/ InitPeriodEnds
    \/ HostEnds
    \/ \E w \in Worker :
          \/ ProcessExitZero(w)
          \/ ProcessExitFatal(w)
          \/ ProcessExit(w)
          \/ ForkFails(w)

ProcessNext ==
    /\ ~halted
    /\ ProcessStep

ProcessSpec == Init /\ [][ProcessNext]_vars

=============================================================================
