---------------------------- MODULE RateLimiter ----------------------------
(***************************************************************************)
(* The request limiter of the handler package (RateLimiter.ts), which      *)
(* Handler asks before it does anything for a request.                     *)
(*                                                                         *)
(* A client's requests are counted in windows that begin with a request.   *)
(* The count of the window before is weighed against the count of this     *)
(* one by the age of the pivot.  The weights are fractions of the window   *)
(* span; here both sides are multiplied by it, which keeps to integers and *)
(* decides as the floating-point comparison does.                          *)
(***************************************************************************)
EXTENDS Integers

CONSTANTS
    Client,         \* the identifiers of clients
    Limit,          \* limit: security.maxRequestsPerMin
    WindowSize,     \* windowSize
    MaxTime,        \* bound: the clock
    MaxRequests     \* bound: the requests of a client within one window

ASSUME RateAssumption ==
    /\ Limit \in Nat
    /\ WindowSize \in Nat \ {0}
    /\ MaxTime \in Nat
    /\ MaxRequests \in Nat

WindowSpan == WindowSize * 2

\* previousWindow when the client has had no window before, and the state of
\* a client the map does not know.
NoWindow == -1
Unknown == [timePivot |-> NoWindow, previousWindow |-> NoWindow, currentWindow |-> 0]

VARIABLES
    now,            \* Date.now()
    limits,         \* limits
    verdict,        \* how the latest request of each client was answered
    grants          \* how many requests were granted in the client's window

vars == <<now, limits, verdict, grants>>

LimitData ==
    [timePivot : Nat \cup {NoWindow},
     previousWindow : Nat \cup {NoWindow},
     currentWindow : Nat]

Init ==
    /\ now = 0
    /\ limits = [c \in Client |-> Unknown]
    /\ verdict = [c \in Client |-> "none"]
    /\ grants = [c \in Client |-> 0]

\* The age of the client's pivot, which the weights keep using after it moved.
Delta(c) == IF limits[c] = Unknown THEN 0 ELSE now - limits[c].timePivot
Rolls(c) == Delta(c) > WindowSize

\* The client's entry with the request at hand counted.
Counted(c) ==
    IF limits[c] = Unknown
    THEN [timePivot |-> now, previousWindow |-> NoWindow, currentWindow |-> 1]
    ELSE IF Rolls(c)
         THEN [timePivot |-> now,
               previousWindow |->
                  IF Delta(c) <= WindowSpan THEN limits[c].currentWindow ELSE 0,
               currentWindow |-> 1]
         ELSE [limits[c] EXCEPT !.currentWindow = @ + 1]

\* previousWindow ?? currentWindow
Before(d) == IF d.previousWindow = NoWindow THEN d.currentWindow ELSE d.previousWindow

\* Mutant of WithinLimit: the limit itself is refused.
BelowLimit(d, delta) ==
    Before(d) * (WindowSpan - delta) + d.currentWindow * delta < Limit * WindowSpan

\* Mutant of WithinLimit: the window before counts in full.
WithinLimitInFull(d, delta) ==
    Before(d) * WindowSpan + d.currentWindow * delta <= Limit * WindowSpan

\* Mutant of WithinLimit: the window before is forgotten.
WithinLimitForgetful(d, delta) ==
    d.currentWindow * delta <= Limit * WindowSpan

\* weightedTotal <= limit
WithinLimit(d, delta) ==
    Before(d) * (WindowSpan - delta) + d.currentWindow * delta <= Limit * WindowSpan

Granted(c) == Limit = 0 \/ WithinLimit(Counted(c), Delta(c))

\* grantsAccess.  A limit of 0 switches the limiter off.
GrantsAccess(c) ==
    /\ limits[c].currentWindow < MaxRequests
    /\ limits' = [limits EXCEPT ![c] = IF Limit = 0 THEN @ ELSE Counted(c)]
    /\ verdict' = [verdict EXCEPT ![c] = IF Granted(c) THEN "granted" ELSE "refused"]
    /\ grants' = [grants EXCEPT ![c] =
                     IF Limit = 0 THEN @
                     ELSE (IF Rolls(c) THEN 0 ELSE @) + (IF Granted(c) THEN 1 ELSE 0)]
    /\ UNCHANGED now

Tick ==
    /\ now < MaxTime
    /\ now' = now + 1
    /\ UNCHANGED <<limits, verdict, grants>>

Next == Tick \/ \E c \in Client : GrantsAccess(c)

Spec == Init /\ [][Next]_vars

-----------------------------------------------------------------------------

\* Type invariant of the limiter's map; a pivot is never in the future.
TypeOK ==
    /\ now \in Nat
    /\ limits \in [Client -> LimitData]
    /\ \A c \in Client : limits[c].timePivot <= now
    /\ verdict \in [Client -> {"none", "granted", "refused"}]
    /\ grants \in [Client -> Nat]

Asks(c) == limits'[c] # limits[c]
Exceeds(count) == count > Limit

\* In a client's first window exactly the first requests up to the limit are
\* granted: with no window before, the two weights weigh the same count.
FirstWindowExact ==
    \A c \in Client :
        limits[c].previousWindow = NoWindow =>
           grants[c] = IF limits[c].currentWindow <= Limit
                       THEN limits[c].currentWindow ELSE Limit

\* While the pivot is no older than the span the total lies between the two
\* counts: a client that exceeds the limit in neither window is not refused.
NoFalseRefusal ==
    [][\A c \in Client :
          /\ Asks(c)
          /\ Delta(c) <= WindowSpan
          /\ verdict'[c] = "refused"
          => Exceeds(Before(limits'[c])) \/ Exceeds(limits'[c].currentWindow)]_vars

\* And one that exceeds it in both is not granted, at any moment of a window.
FloodRefused ==
    [][\A c \in Client :
          /\ Asks(c)
          /\ Delta(c) <= WindowSpan
          /\ Exceeds(Before(limits'[c]))
          /\ Exceeds(limits'[c].currentWindow)
          => verdict'[c] = "refused"]_vars

\* A client that exceeded twice the limit in one window is granted nothing
\* in the next, its first request apart: the weight of the window before
\* does not fall below one half.
HeavyClientWaits ==
    \A c \in Client :
        limits[c].previousWindow > 2 * Limit /\ Limit > 0 => grants[c] <= 1

=============================================================================
