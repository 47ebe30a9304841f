---------------------------- MODULE SecureContext ----------------------------
(***************************************************************************)
(* The renewal of the certificate that the server presents (Server.ts,     *)
(* writeSecureContext and updateSecureContext).                            *)
(*                                                                         *)
(* An update reads certificate and key from their files, sets them, sets   *)
(* them again after Retry for the case that the files were being written,  *)
(* and connects to the server itself to learn until when the certificate   *)
(* is valid, which is when the next update is due.  A connection that      *)
(* fails ends this for good.  It fails if the certificate is not issued by *)
(* an authority to localhost, or has expired, and like every connection it *)
(* may fail at any time.  The files are replaced by another program, one   *)
(* after the other.                                                        *)
(***************************************************************************)
EXTENDS Integers, Sequences, FiniteSets, FiniteSetsExt

CONSTANTS
    Retry,      \* 3000 ms
    Minimum,    \* 60000 ms, the least delay of an update
    MaxTimeout, \* 2^31 - 1 ms, the longest delay that setTimeout takes
    MaxTime,    \* bound: the time
    MaxIssued   \* bound: the number of certificates that are issued

ASSUME SecureContextAssumption ==
    /\ Retry \in Nat \ {0} /\ Minimum \in Nat /\ MaxTimeout \in Nat
    /\ Retry < Minimum /\ Minimum < MaxTimeout
    /\ MaxTime \in Nat /\ MaxIssued \in Nat \ {0}

Validity == {1, Minimum, MaxTimeout + 2}    \* what a new certificate is valid for
Never == MaxTime + MaxTimeout + 1           \* of a timer that is not set

VARIABLES
    now,
    issuedFor,  \* whom the certificates are issued for and by
    plain,      \* development: the server does not speak TLS
    validTo,    \* until when each certificate is valid
    certFile, keyFile,  \* the files: which certificate, the key of which
    served,     \* the certificate that is set, 0 for none
    connecting, \* the connection of an update is under way
    updateAt,   \* when the timer of the next update is due
    retryAt,    \* when the timer of the second write is due
    updatedAt,  \* ghost: when the last update was
    completeAt, \* ghost: when the files last came to match
    neglected,  \* ghost: an update met files that do not match, or an expired one
    broken      \* ghost: the connection failed for something else

files == <<validTo, certFile, keyFile>>
timers == <<updateAt, retryAt>>
environment == <<issuedFor, plain>>
ghosts == <<neglected, broken>>
contextVars == <<now, environment, files, served, connecting, timers, updatedAt, completeAt, ghosts>>

Ended == ~connecting /\ updateAt = Never

-----------------------------------------------------------------------------

\* What the two files hold now.
GetSecureContext == [cert |-> certFile, key |-> keyFile]

\* The context is set, unless that throws: on files that do not match, or in
\* development, where there is none to set.
WriteSecureContext ==
    LET context == GetSecureContext IN
    served' = IF context.cert = context.key /\ ~plain THEN context.cert ELSE served

ContextInit ==
    /\ now = 0
    /\ issuedFor \in {"localhost", "domain", "itself"}
    /\ plain \in BOOLEAN
    /\ \E v \in Validity : validTo = <<v>>
    /\ certFile = 1
    /\ keyFile \in {0, 1}
    /\ served = IF keyFile = 1 /\ ~plain THEN 1 ELSE 0
    /\ connecting = TRUE
    /\ updateAt = Never
    /\ retryAt = Retry
    /\ updatedAt = 0
    /\ completeAt = 0
    /\ neglected = (keyFile # 1)
    /\ broken = FALSE

Issued == DOMAIN validTo

\* The files are replaced, one after the other, by a certificate that is valid
\* for longer than the one before.
RenewCertificate ==
    /\ Cardinality(Issued) < MaxIssued
    /\ certFile = keyFile
    /\ \E v \in Validity :
          /\ now + v > validTo[certFile]
          /\ validTo' = Append(validTo, now + v)
    /\ certFile' = certFile + 1
    /\ UNCHANGED <<now, environment, keyFile, served, connecting, timers, updatedAt, completeAt, ghosts>>

RenewKey ==
    /\ keyFile # certFile
    /\ keyFile' = certFile
    /\ completeAt' = now
    /\ UNCHANGED <<now, environment, validTo, certFile, served, connecting, timers, updatedAt, ghosts>>

\* The timer of the next update.
Updates ==
    /\ updateAt <= now
    /\ WriteSecureContext
    /\ retryAt' = now + Retry
    /\ connecting' = TRUE
    /\ updateAt' = Never
    /\ updatedAt' = now
    /\ neglected' = (neglected \/ certFile # keyFile)
    /\ UNCHANGED <<now, environment, files, completeAt, broken>>

\* Mutant of Retries: there is nothing to write again.
RetriesNothing ==
    /\ retryAt <= now
    /\ retryAt' = Never
    /\ UNCHANGED <<now, environment, files, served, connecting, updateAt, updatedAt, completeAt, ghosts>>

Retries ==
    /\ retryAt <= now
    /\ WriteSecureContext
    /\ retryAt' = Never
    /\ UNCHANGED <<now, environment, files, connecting, updateAt, updatedAt, completeAt, ghosts>>

\* setTimeout takes longer delays for the shortest.
Timeout(delay) == IF delay > MaxTimeout THEN now + 1 ELSE now + delay

\* Mutant of DelayFor: the bound above and nothing else.
DelayConstant(left) == MaxTimeout

\* How long an update waits for a certificate that is valid for so long.
DelayFor(left) == Max({Min({MaxTimeout, left}), Minimum})

Verified == ~plain /\ served # 0 /\ issuedFor = "localhost" /\ validTo[served] > now

Connects ==
    /\ connecting
    /\ Verified
    /\ connecting' = FALSE
    /\ updateAt' = Timeout(DelayFor(validTo[served] - now))
    /\ UNCHANGED <<now, environment, files, served, retryAt, updatedAt, completeAt, ghosts>>

\* The event "error", for the certificate or for anything else: nothing is scheduled.
ConnectionFails ==
    /\ connecting
    /\ connecting' = FALSE
    /\ broken' = (broken \/ Verified)
    /\ UNCHANGED <<now, environment, files, served, timers, updatedAt, completeAt, neglected>>

\* Timers and the connection to the server itself are not late.
Tick ==
    /\ now < MaxTime
    /\ ~connecting /\ updateAt > now /\ retryAt > now
    /\ now' = now + 1
    /\ neglected' = (neglected \/ validTo[certFile] <= now')
    /\ UNCHANGED <<environment, files, served, connecting, timers, updatedAt, completeAt, broken>>

ContextNext ==
    \/ RenewCertificate \/ RenewKey
    \/ Updates \/ Retries
    \/ Connects \/ ConnectionFails
    \/ Tick

ContextSpec == ContextInit /\ [][ContextNext]_contextVars

-----------------------------------------------------------------------------
(* Properties.                                                             *)

\* Type invariant; there is one chain of updates: none is scheduled while one
\* connects, and at most one is (Server.ts:204-233).
ContextTypeOK ==
    /\ now \in 0 .. MaxTime
    /\ issuedFor \in {"localhost", "domain", "itself"}
    /\ plain \in BOOLEAN
    /\ Issued \subseteq 1 .. MaxIssued
    /\ certFile \in Issued
    /\ keyFile \in {certFile - 1, certFile}
    /\ served \in Issued \cup {0}
    /\ connecting \in BOOLEAN
    /\ updateAt \in 0 .. Never
    /\ retryAt \in 0 .. Never
    /\ updatedAt \in 0 .. MaxTime
    /\ completeAt \in 0 .. MaxTime
    /\ neglected \in BOOLEAN /\ broken \in BOOLEAN
    /\ connecting => updateAt = Never

\* If the files always hold a certificate that is valid, issued to localhost, and
\* matching when an update reads them, then updates end with a connection that
\* breaks off for something else and not without, and until then the one that is
\* presented has expired Minimum ago at most (Server.ts:214-237).
RenewalKeepsUp ==
    ~neglected /\ ~broken /\ ~plain /\ issuedFor = "localhost" =>
        /\ ~Ended
        /\ validTo[served] + Minimum >= now

\* Updates are never closer than Minimum, however long or short certificates are
\* valid (Server.ts:224-231).
UpdatesSpaced == [][updatedAt' # updatedAt => updatedAt' - updatedAt >= Minimum]_contextVars

\* Even if an update met files of which only one was replaced, the pair is
\* presented after the second write if it was complete by then
\* (Server.ts:197-207).
PairPresented ==
    /\ certFile = keyFile /\ ~plain
    /\ completeAt < updatedAt + Retry /\ updatedAt + Retry < now
    => served = certFile

=============================================================================
