----------------------------- MODULE Deployment -----------------------------
(***************************************************************************)
(* What webhooks do to the deployed directory: POSTHandlerContext.ts from  *)
(* an accepted payload on, and Tar.ts.                                     *)
(*                                                                         *)
(* A hook asks for the location of the archive of the repository and then  *)
(* for the archive, which holds the commit that is the head when the       *)
(* request is served and may arrive any time later.  From its arrival to   *)
(* the start of the extraction, and from the end of that to the removal of *)
(* the temporary directory, its worker does nothing else, but the other    *)
(* workers share the file system with it: the archives are .<i>.<name>, an *)
(* archive unpacks to a directory named for its commit, which is renamed   *)
(* to .<k>.<name>, and i and k are the least free numbers at the arrival.  *)
(* The response is given when the extraction has started: what fails later *)
(* is an unhandled rejection and ends the worker, while a tar process that *)
(* it started runs on.  Whatever is written may fail, as the disk is full  *)
(* or a file is where a directory was.  A worker may also be killed, and   *)
(* what its hooks made stays behind.                                       *)
(***************************************************************************)
EXTENDS Naturals, Sequences, FiniteSets, FiniteSetsExt

CONSTANTS
    Job,                \* the hooks that are accepted
    Worker,             \* the workers of the pool
    File,               \* the paths of an archive, as sequences of names
    deployPaths,        \* the paths that are deployed, {} for all
    MaxDirectoryDepth,  \* the bound of the walk up a path, 50 in the code
    MaxHead,            \* bound: the number of commits
    MaxKills            \* bound: how often a process is killed

ASSUME DeploymentAssumption ==
    /\ IsFiniteSet(Job)
    /\ "none" \notin Worker
    /\ File # {}
    /\ \A p \in File \cup deployPaths : p \in Seq(STRING) /\ p # <<>>
    /\ MaxDirectoryDepth \in Nat \ {0}
    /\ MaxHead \in Nat \ {0}
    /\ MaxKills \in Nat

Index == 0 .. Cardinality(Job)  \* bound: one more number than hooks
Version == 0 .. MaxHead         \* 0 for a file that is absent, or written in part
Absent == [f \in File |-> 0]

VARIABLES
    head,   \* the commit at the head of the branch
    tars,   \* the archives by number: their commit, 0 if absent
    tops,   \* the unpacked files by commit, in the directory named for it
    dirs,   \* the temporary directories by number: their files
    site,   \* the deployed files: the commit each is of
    job,    \* the hooks
    kills   \* how often a process was killed

vars == <<head, tars, tops, dirs, site, job, kills>>

NewJob == [
    phase |-> "new",        \* where its handling is
    worker |-> "none",      \* the worker it was given to
    commit |-> 0,           \* the commit of the archive it downloaded
    content |-> 0,          \* the commit that its tar process unpacks
    tar |-> 0, dir |-> 0,   \* the numbers it chose
    left |-> {},            \* what is still to unpack, or to copy
    rejected |-> FALSE,     \* the extraction was rejected
    orphaned |-> FALSE,     \* its worker is gone, its tar process is not
    overlapped |-> FALSE,   \* ghost: another one was under way with it
    failed |-> FALSE ]      \* ghost: its extraction failed, or the disk did

Init ==
    /\ head = 1
    /\ tars = [i \in Index |-> 0]
    /\ tops = [c \in 1 .. MaxHead |-> {}]
    /\ dirs = [i \in Index |-> Absent]
    /\ site = Absent
    /\ job = [j \in Job |-> NewJob]
    /\ kills = 0

-----------------------------------------------------------------------------
(* The turns of the workers.                                               *)

\* Phases in which the worker of a hook does nothing else.
Synchronous == {"chosen", "settled", "copying"}
UnderWay == Synchronous \cup {"downloading", "extracting", "unpacking"}
Handled == UnderWay \cup {"hooked"}

Idle(w) == \A j \in Job : job[j].worker = w => job[j].phase \notin Synchronous

\* A callback of the hook j is called.
Called(j, phase) ==
    /\ job[j].phase = phase
    /\ Idle(job[j].worker)

\* What is left of the hook k when its worker ends: a tar process runs on.
Abandoned(k) ==
    IF job[k].phase \in {"extracting", "unpacking"} THEN [job[k] EXCEPT !.orphaned = TRUE]
    ELSE IF job[k].phase \in Handled THEN [job[k] EXCEPT !.phase = "lost"]
    ELSE job[k]

\* The rejection that hook j ends with ends its worker.  The pool starts another.
EndsWorker(j, failed) ==
    job' = [k \in Job |->
        IF k = j THEN [job[k] EXCEPT !.phase = "crashed", !.failed = @ \/ failed]
        ELSE IF job[k].worker = job[j].worker THEN Abandoned(k)
        ELSE job[k]]

\* The process of w is killed, at any point of what it does.
Killed(w) ==
    /\ kills < MaxKills
    /\ kills' = kills + 1
    /\ job' = [k \in Job |-> IF job[k].worker = w THEN Abandoned(k) ELSE job[k]]
    /\ UNCHANGED <<head, tars, tops, dirs, site>>

-----------------------------------------------------------------------------
(* The download.                                                           *)

Push ==
    /\ head < MaxHead
    /\ head' = head + 1
    /\ UNCHANGED <<tars, tops, dirs, site, job, kills>>

Hook(j) ==
    /\ job[j].phase = "new"
    /\ \E w \in Worker :
          /\ Idle(w)
          /\ job' = [job EXCEPT ![j].phase = "hooked", ![j].worker = w]
    /\ UNCHANGED <<head, tars, tops, dirs, site, kills>>

\* The HEAD request for the location or the GET request fails: status 404.
RequestFails(j) ==
    /\ job[j].phase \in {"hooked", "downloading"}
    /\ Called(j, job[j].phase)
    /\ job' = [job EXCEPT ![j].phase = "refused"]
    /\ UNCHANGED <<head, tars, tops, dirs, site, kills>>

\* The commit c is what the hook j deploys.  From here on it is under way.
Begins(j, c) ==
    job' = [k \in Job |->
        IF k = j THEN
            [job[j] EXCEPT !.phase = "downloading", !.commit = c,
                           !.overlapped = \E q \in Job : job[q].phase \in UnderWay]
        ELSE IF job[k].phase \in UnderWay THEN [job[k] EXCEPT !.overlapped = TRUE]
        ELSE job[k]]

\* Mutant of Served: the location is one that an earlier hook was given.
ServedBefore(j) ==
    /\ job[j].phase = "hooked"
    /\ \E c \in 1 .. head : Begins(j, c)
    /\ UNCHANGED <<head, tars, tops, dirs, site, kills>>

\* The location has been answered, and the request for the archive is served.
Served(j) ==
    /\ job[j].phase = "hooked"
    /\ Begins(j, head)
    /\ UNCHANGED <<head, tars, tops, dirs, site, kills>>

\* Mutant of HiddenIndex: the number is not incremented.
HiddenIndexFirst(taken) == 0

\* The least number that no path in the directory has.
HiddenIndex(taken) == Min(Index \ taken)

\* The archive is there and the numbers are chosen.
Downloaded(j) ==
    /\ Called(j, "downloading")
    /\ job' = [job EXCEPT
          ![j].phase = "chosen",
          ![j].tar = HiddenIndex({i \in Index : tars[i] # 0}),
          ![j].dir = HiddenIndex({i \in Index : dirs[i] # Absent})]
    /\ UNCHANGED <<head, tars, tops, dirs, site, kills>>

-----------------------------------------------------------------------------
(* The extraction.                                                         *)

\* The extraction is started, unless the directory is there by now or the archive
\* is not readable.
Extracts(j) ==
    \/ /\ dirs[job[j].dir] = Absent
       /\ job' = [job EXCEPT ![j].phase = "extracting"]
    \/ job' = [job EXCEPT ![j].phase = "settled", ![j].rejected = TRUE,
                          ![j].failed = dirs[job[j].dir] = Absent]

\* The archive is written, or that throws, which is answered with 404 and may
\* leave a part of it.
Starts(j) ==
    /\ job[j].phase = "chosen"
    /\ LET written == [tars EXCEPT ![job[j].tar] = job[j].commit] IN
          \/ tars' = written /\ Extracts(j)
          \/ tars' \in {tars, written} /\ job' = [job EXCEPT ![j].phase = "refused"]
    /\ UNCHANGED <<head, tops, dirs, site, kills>>

\* tar opens the archive that has the name now.
Opens(j) ==
    /\ job[j].phase = "extracting"
    /\ tars[job[j].tar] # 0
    /\ job' = [job EXCEPT ![j].phase = "unpacking", ![j].content = tars[job[j].tar],
                          ![j].left = File]
    /\ UNCHANGED <<head, tars, tops, dirs, site, kills>>

\* A directory that was renamed under it is made again.
Unpacks(j) ==
    /\ job[j].phase = "unpacking"
    /\ \E f \in job[j].left :
          /\ tops' = [tops EXCEPT ![job[j].content] = @ \cup {f}]
          /\ job' = [job EXCEPT ![j].left = @ \ {f}]
    /\ UNCHANGED <<head, tars, dirs, site, kills>>

Renamable(j) == tops[job[j].commit] # {} /\ dirs[job[j].dir] = Absent

\* Mutant of Extracted: exec does not await the process.
ExtractedEarly(j) ==
    /\ Called(j, "unpacking")
    /\ ~job[j].orphaned
    /\ IF Renamable(j)
       THEN /\ dirs' = [dirs EXCEPT ![job[j].dir] =
                  [f \in File |-> IF f \in tops[job[j].commit] THEN job[j].commit ELSE 0]]
            /\ tops' = [tops EXCEPT ![job[j].commit] = {}]
       ELSE UNCHANGED <<tops, dirs, kills>>
    /\ job' = [job EXCEPT ![j].phase = "settled"]
    /\ UNCHANGED <<head, tars, site, kills>>

\* tar has ended: the directory is renamed, if that can be done.
Extracted(j) ==
    /\ Called(j, "unpacking")
    /\ ~job[j].orphaned
    /\ job[j].left = {}
    /\ IF Renamable(j)
       THEN /\ dirs' = [dirs EXCEPT ![job[j].dir] =
                  [f \in File |-> IF f \in tops[job[j].commit] THEN job[j].commit ELSE 0]]
            /\ tops' = [tops EXCEPT ![job[j].commit] = {}]
       ELSE UNCHANGED <<tops, dirs, kills>>
    /\ job' = [job EXCEPT ![j].phase = "settled"]
    /\ UNCHANGED <<head, tars, site, kills>>

\* tar fails: there is no archive any more, or it cannot unpack it.
ExtractionFails(j) ==
    /\ job[j].phase \in {"extracting", "unpacking"}
    /\ Called(j, job[j].phase)
    /\ ~job[j].orphaned
    /\ job' = [job EXCEPT ![j].phase = "settled", ![j].rejected = TRUE, ![j].failed = TRUE]
    /\ UNCHANGED <<head, tars, tops, dirs, site, kills>>

\* The tar process of a worker that is gone ends.
OrphanEnds(j) ==
    /\ job[j].orphaned
    /\ job[j].phase \in {"extracting", "unpacking"}
    /\ job' = [job EXCEPT ![j].phase = "lost"]
    /\ UNCHANGED <<head, tars, tops, dirs, site, kills>>

-----------------------------------------------------------------------------
(* The finally callback: it is called whether the extraction was rejected  *)
(* or not.                                                                 *)

\* The path or one that it is below of is deployed, up to a depth.
Whitelisted(p) ==
    \/ deployPaths = {}
    \/ \E i \in 1 .. Len(p) : i + MaxDirectoryDepth > Len(p) /\ SubSeq(p, 1, i) \in deployPaths

\* The archive is removed, which may throw, and the directory listed, which does
\* if it is missing.
Lists(j) ==
    /\ job[j].phase = "settled"
    /\ \/ EndsWorker(j, TRUE) /\ UNCHANGED tars
       \/ /\ tars' = [tars EXCEPT ![job[j].tar] = 0]
          /\ IF dirs[job[j].dir] = Absent
             THEN EndsWorker(j, FALSE)
             ELSE job' = [job EXCEPT
                     ![j].phase = "copying",
                     ![j].left = {f \in File : dirs[job[j].dir][f] # 0 /\ Whitelisted(f)}]
    /\ UNCHANGED <<head, tops, dirs, site, kills>>

\* A file that is listed and gone throws.  So does one that cannot be written, as
\* the disk is full or what has its path is of another kind: it stays or is torn.
Copies(j) ==
    /\ job[j].phase = "copying"
    /\ \E f \in job[j].left :
          \/ /\ dirs[job[j].dir][f] = 0
             /\ EndsWorker(j, FALSE)
             /\ UNCHANGED site
          \/ /\ dirs[job[j].dir][f] # 0
             /\ site' = [site EXCEPT ![f] = dirs[job[j].dir][f]]
             /\ job' = [job EXCEPT ![j].left = @ \ {f}]
          \/ /\ dirs[job[j].dir][f] # 0
             /\ site' \in {site, [site EXCEPT ![f] = 0]}
             /\ EndsWorker(j, TRUE)
    /\ UNCHANGED <<head, tars, tops, dirs, kills>>

Part(files, part) == [f \in File |-> IF f \in part THEN files[f] ELSE 0]

\* The directory is removed, which may throw and leave a part of it; a rejection
\* of the extraction is passed on.
Removes(j) ==
    /\ job[j].phase = "copying"
    /\ job[j].left = {}
    /\ \/ /\ \E part \in SUBSET File :
                dirs' = [dirs EXCEPT ![job[j].dir] = Part(@, part)]
          /\ EndsWorker(j, TRUE)
       \/ /\ dirs' = [dirs EXCEPT ![job[j].dir] = Absent]
          /\ IF job[j].rejected
             THEN EndsWorker(j, FALSE)
             ELSE job' = [job EXCEPT ![j].phase = "deployed"]
    /\ UNCHANGED <<head, tars, tops, site, kills>>

Next ==
    \/ Push
    \/ \E w \in Worker : Killed(w)
    \/ \E j \in Job :
          \/ Hook(j) \/ RequestFails(j) \/ Served(j) \/ Downloaded(j)
          \/ Starts(j) \/ Opens(j) \/ Unpacks(j)
          \/ Extracted(j) \/ ExtractionFails(j) \/ OrphanEnds(j)
          \/ Lists(j) \/ Copies(j) \/ Removes(j)

Spec == Init /\ [][Next]_vars

-----------------------------------------------------------------------------
(* Properties.                                                             *)

\* A hook that no other one overlaps deploys all of its commit, whatever earlier
\* hooks have left behind, and leaves nothing itself
\* (POSTHandlerContext.ts:211-229, 230-286, Tar.ts:13-51).
SoloDeploys ==
    [][\A j \in Job :
          /\ job[j].phase # "deployed" /\ job'[j].phase = "deployed"
          /\ ~job[j].overlapped
          => /\ \A f \in File : Whitelisted(f) => site'[f] = job[j].commit
             /\ tars'[job[j].tar] = 0
             /\ dirs'[job[j].dir] = Absent
             /\ tops'[job[j].commit] = {}]_vars

\* A file is put back to an earlier commit only by hooks that overlap, from the
\* time their archives were made on: a hook whose archive is made after another
\* has ended deploys what is at least as new (POSTHandlerContext.ts:181-229).
BackOnlyByOverlap ==
    [][\A f \in File : site'[f] # 0 /\ site'[f] < site[f] =>
          \E j \in Job : job[j].phase = "copying" /\ job[j].overlapped]_vars

\* A hook ends its worker only if its extraction or the disk failed, or another one
\* overlapped it: the archives and directories that hooks before it have left, in
\* whatever state, do not (POSTHandlerContext.ts:211-236, 268-286).
CrashOnlyByOverlapOrFailure ==
    \A j \in Job : job[j].phase = "crashed" => job[j].overlapped \/ job[j].failed
=============================================================================
