------------------------------- MODULE MCPools -------------------------------
(***************************************************************************)
(* The two kinds of pool for TLC: a behaviour is one of a pool of threads  *)
(* or one of a pool of child processes.  Workers are interchangeable.      *)
(***************************************************************************)
EXTENDS ThreadPool, ProcessPool, TLC

VARIABLE kind   \* what the workers of this behaviour are

poolVars == <<kind, vars>>

PoolInit ==
    /\ kind \in {"threads", "processes"}
    /\ Init

PoolNext ==
    /\ UNCHANGED kind
    /\ \/ kind = "threads" /\ ThreadNext
       \/ kind = "processes" /\ ProcessNext

PoolSpec == PoolInit /\ [][PoolNext]_poolVars

\* Timers fire.  Nothing says that a handler ever answers.
TimerOfThread(w) == kind = "threads" /\ ~halted /\ Timeout(w) /\ UNCHANGED <<kind, limiter>>
TimerOfProcess(w) ==
    kind = "processes" /\ ~halted /\ Timeout(w) /\ SendErrors /\ UNCHANGED kind

FairPoolSpec ==
    /\ PoolSpec
    /\ \A w \in Worker : WF_poolVars(TimerOfThread(w)) /\ WF_poolVars(TimerOfProcess(w))

Symmetry == Permutations(Worker)

=============================================================================
