------------------------------- MODULE Plugin -------------------------------
(***************************************************************************)
(* A plugin of the build package (Plugin.ts): the memory of its last       *)
(* application, while the files of its directory change and requests apply *)
(* it concurrently.                                                        *)
(*                                                                         *)
(* apply scans the directory in one go.  An application then reads folder  *)
(* by folder, with other events in between, calls the build function, and  *)
(* may have to await what that returns.  What a plugin makes of its files  *)
(* is the version of each file it was given.  A folder is scanned with its *)
(* own time of modification, the plugin's directory itself is not.         *)
(***************************************************************************)
EXTENDS Integers

CONSTANTS
    File,       \* the files of the plugin's directory
    Nested,     \* those that lie in a folder of it
    Caller,     \* the callers of apply
    Dev,        \* dev
    MaxTime,    \* bound: the clock
    MaxEdits    \* bound: the modifications and removals of files

ASSUME PluginAssumption ==
    /\ Nested \subseteq File
    /\ Dev \in BOOLEAN
    /\ MaxTime \in Nat
    /\ MaxEdits \in Nat

Absent == 0     \* the version of a file that does not exist
Unread == -1    \* of one that an application has not read yet
Never == -1     \* the timestamp before the first application; no mtime

NoResult == [f \in File |-> Unread]

VARIABLES
    now,                    \* Date.now()
    edits,                  \* how often files were modified
    version,                \* the edit that made each file what it is
    mtime,                  \* mtimeMs of each file, or of the folder it was removed from
    lastApplyTimestamp,     \* lastApplyTimestamp
    lastApplyResult,        \* lastApplyResult
    phase,                  \* how far the application of each caller is
    seen,                   \* the versions it has read
    ended,                  \* the process is gone
    raced                   \* the files last modified when an application had read them

files == <<edits, version, mtime, raced>>
memory == <<lastApplyTimestamp, lastApplyResult>>
callers == <<phase, seen>>
vars == <<now, files, memory, callers, ended>>

Init ==
    /\ now = 0
    /\ edits = 0
    /\ version \in [File -> {Absent, 1}]
    /\ mtime = [f \in File |-> IF version[f] = Absent THEN Never ELSE 0]
    /\ raced = {}
    /\ lastApplyTimestamp = Never
    /\ lastApplyResult = NoResult
    /\ phase = [c \in Caller |-> "idle"]
    /\ seen = [c \in Caller |-> NoResult]
    /\ ended = FALSE

-----------------------------------------------------------------------------
(* The directory.                                                          *)

Edits(f) ==
    /\ edits < MaxEdits
    /\ edits' = edits + 1
    /\ raced' = IF \E c \in Caller : seen[c][f] # Unread
                THEN raced \cup {f} ELSE raced \ {f}
    /\ UNCHANGED <<now, memory, callers, ended>>

\* A file is written or created.
Modify(f) ==
    /\ Edits(f)
    /\ version' = [version EXCEPT ![f] = edits + 2]
    /\ mtime' = [mtime EXCEPT ![f] = now]

\* A file is removed, which modifies its folder.
Remove(f) ==
    /\ version[f] # Absent
    /\ Edits(f)
    /\ version' = [version EXCEPT ![f] = Absent]
    /\ mtime' = [mtime EXCEPT ![f] = IF f \in Nested THEN now ELSE Never]

Tick ==
    /\ now < MaxTime
    /\ now' = now + 1
    /\ UNCHANGED <<files, memory, callers, ended>>

-----------------------------------------------------------------------------
(* apply.                                                                  *)

\* Mutant of Outdated: a file modified in the millisecond of the timestamp
\* counts as applied.
OutdatedStrictly == \E f \in File : mtime[f] # Never /\ lastApplyTimestamp < mtime[f]

\* The scan finds a file or folder that is not older than the last application.
Outdated == \E f \in File : mtime[f] # Never /\ lastApplyTimestamp <= mtime[f]

\* apply answers with the last result, or with nothing if there is none.
FromMemory == (~Dev /\ lastApplyResult # NoResult) \/ ~Outdated

ApplyFromMemory(c) ==
    /\ phase[c] = "idle"
    /\ FromMemory
    /\ UNCHANGED vars

ApplyAnew(c) ==
    /\ phase[c] = "idle"
    /\ ~FromMemory
    /\ phase' = [phase EXCEPT ![c] = "importing"]
    /\ UNCHANGED <<now, files, memory, seen, ended>>

\* fetchBuildInterface
Imports(c) ==
    /\ phase[c] = "importing"
    /\ phase' = [phase EXCEPT ![c] = "reading"]
    /\ UNCHANGED <<now, files, memory, seen, ended>>

\* fetchDirectory, one file or absence of it.
Reads(c, f) ==
    /\ phase[c] = "reading"
    /\ seen[c][f] = Unread
    /\ seen' = [seen EXCEPT ![c][f] = version[f]]
    /\ UNCHANGED <<now, files, memory, phase, ended>>

\* The result is stored, and answered.
Stores(c) ==
    /\ lastApplyResult' = seen[c]
    /\ seen' = [seen EXCEPT ![c] = NoResult]
    /\ phase' = [phase EXCEPT ![c] = "idle"]

\* Mutant of Called: the application that awaits forgets to be awaited.
CalledUnawaited(c) ==
    /\ phase[c] = "reading"
    /\ \A f \in File : seen[c][f] # Unread
    /\ lastApplyTimestamp' = now
    /\ \/ Stores(c)
       \/ /\ phase' = [phase EXCEPT ![c] = "idle"]
          /\ seen' = [seen EXCEPT ![c] = NoResult]
          /\ UNCHANGED lastApplyResult
    /\ UNCHANGED <<now, files, ended>>

\* The build function is called.  The timestamp is taken before its result
\* is awaited, if that is a promise.
Called(c) ==
    /\ phase[c] = "reading"
    /\ \A f \in File : seen[c][f] # Unread
    /\ lastApplyTimestamp' = now
    /\ \/ Stores(c)
       \/ /\ phase' = [phase EXCEPT ![c] = "building"]
          /\ UNCHANGED <<lastApplyResult, seen>>
    /\ UNCHANGED <<now, files, ended>>

Built(c) ==
    /\ phase[c] = "building"
    /\ Stores(c)
    /\ UNCHANGED <<now, files, lastApplyTimestamp, ended>>

\* The module, a file or the function fails: the executor's promise is handled
\* nowhere, which ends the process.
Fails(c) ==
    /\ phase[c] # "idle"
    /\ ended' = TRUE
    /\ UNCHANGED <<now, files, memory, callers>>

Next ==
    /\ ~ended
    /\ \/ Tick
       \/ \E f \in File : Modify(f) \/ Remove(f)
       \/ \E c \in Caller :
             \/ ApplyFromMemory(c)
             \/ ApplyAnew(c)
             \/ Imports(c)
             \/ \E f \in File : Reads(c, f)
             \/ Called(c)
             \/ Built(c)
             \/ Fails(c)

Spec == Init /\ [][Next]_vars

-----------------------------------------------------------------------------
(* Properties.                                                             *)

Phase == {"idle", "importing", "reading", "building"}

\* Type invariant; what an application has read it holds until it is stored,
\* and no time lies in the future (Plugin.ts:161-188).
TypeOK ==
    /\ now \in Nat
    /\ edits \in Nat
    /\ version \in [File -> Nat]
    /\ mtime \in [File -> Nat \cup {Never}]
    /\ raced \subseteq File
    /\ lastApplyTimestamp \in Nat \cup {Never}
    /\ lastApplyResult \in [File -> Nat \cup {Unread}]
    /\ phase \in [Caller -> Phase]
    /\ seen \in [Caller -> [File -> Nat \cup {Unread}]]
    /\ ended \in BOOLEAN
    /\ lastApplyTimestamp <= now
    /\ \A f \in File : mtime[f] <= now

Building == \E c \in Caller : phase[c] = "building"

\* In development apply answers with the current version of every file, once
\* no application awaits its result: the memory is outdated only for a file
\* that was modified between the reading of it and the end of the application,
\* whatever else overlaps.  That includes files removed from a folder; one
\* removed from the plugin's own directory leaves nothing to be scanned, and
\* goes unnoticed (Plugin.ts:179-184, 194-207).
FreshUnlessRaced ==
    Dev /\ FromMemory /\ ~Building =>
        \A f \in File \ raced :
            mtime[f] # Never => lastApplyResult[f] = version[f]

\* apply answers with nothing for a plugin that has files only while the
\* result of the first application is awaited (Plugin.ts:179-184, 207).
NothingOnlyWhileBuilding ==
    /\ \E f \in File : version[f] # Absent
    /\ FromMemory
    /\ lastApplyResult = NoResult
    => Building
=============================================================================
