----------------------------- MODULE MCLimiters -----------------------------
(***************************************************************************)
(* The two limiters for TLC: a behaviour is one of the handler's           *)
(* RateLimiter or one of the cluster's ErrorLimiter, each a window that    *)
(* slides with the same clock.                                             *)
(***************************************************************************)
EXTENDS RateLimiter, Sequences

CONSTANTS
    Threshold, WindowMs, InitPeriodMs, MaxErrors    \* those of ErrorLimiter

ASSUME ErrorAssumption ==
    /\ Threshold \in Nat \ {0}
    /\ WindowMs \in Nat
    /\ InitPeriodMs \in Nat
    /\ MaxErrors \in Nat

VARIABLES
    limiter,    \* which of them this behaviour is one of
    isInitPeriod, records, terminated, fed  \* those of ErrorLimiter

rates == <<limits, verdict, grants>>
errors == <<isInitPeriod, records, terminated, fed>>
limiterVars == <<limiter, now, rates, errors>>

Errors == INSTANCE ErrorLimiter

LimiterInit ==
    /\ limiter \in {"rate", "errors"}
    /\ Init
    /\ Errors!Init

LimiterNext ==
    /\ UNCHANGED limiter
    /\ \/ limiter = "rate" /\ Next /\ UNCHANGED errors
       \/ limiter = "errors" /\ Errors!Next /\ UNCHANGED rates

LimiterSpec == LimiterInit /\ [][LimiterNext]_limiterVars

\* Dropping records loses no burst of errors (ErrorLimiter).
TerminatesOnBurst == Errors!TerminatesOnBurst

\* The records that are kept are the latest errors (ErrorLimiter).
KeepsLatest == Errors!KeepsLatest

\* The limiter is what the pools take it for (ErrorLimiter).
CountsAsInPool == Errors!CountsAsInPool

=============================================================================
