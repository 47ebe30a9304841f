------------------------- MODULE VirtualFileSystem -------------------------
(***************************************************************************)
(* GET requests (GETHandlerContext.ts) over the virtual file system        *)
(* (VirtualFileSystem.ts, Cache.ts), while files change under them.        *)
(*                                                                         *)
(* A read looks into the cache, then for a public file, then for a built   *)
(* one.  The page that is asked for is path 0; the 404 pages of the folders*)
(* above it, the nearest first, are 1 .. Depth.  A file is the number of   *)
(* the edit that wrote it.  In development the build interface answers     *)
(* with a file as it was at some moment of the retrieval, or, if a plugin  *)
(* answers from memory, with an older one or with none (module Build).     *)
(***************************************************************************)
EXTENDS Integers

CONSTANTS
    Client,     \* the clients, one request at a time each
    Depth,      \* the number of folders above the page
    MaxEdits    \* bound: the edits of files

ASSUME FileSystemAssumption ==
    /\ Depth \in Nat
    /\ MaxEdits \in Nat

Path == 0 .. Depth
Absent == 0     \* no file
Folder == -1    \* exists, but cannot be read

VARIABLES
    dev,            \* dev
    edits,          \* how often files were edited
    public,         \* the public file of each path
    built,          \* what the plugins make of each path, as they stand
    past,           \* all that they ever made of it
    missed,         \* the paths that the build interface may have an old file of
    preretrieval,   \* it is settled
    privateFiles,   \* what they made of it then, in production
    cache,          \* the filestamp stored of each path, in production
    phase,          \* how far the request of each client is
    path,           \* the path it reads
    fallback,       \* it is for a page, for which there are 404 pages
    during,         \* what the plugins made of the path since its retrieval began
    doubtful,       \* the clients whose retrieval may be answered from memory
    answer,         \* the status and the file it is answered with
    held,           \* what the path held since the read of it began
    gone,           \* the paths that had no public, or built, file in its course
    misled,         \* the paths it was answered from memory for
    ended           \* the process is gone

source == <<edits, public, built, past, missed>>
startup == <<preretrieval, privateFiles>>
retrieval == <<during, doubtful>>
request == <<phase, path, fallback, retrieval, answer>>
ghosts == <<held, gone, misled>>
vars == <<dev, source, startup, cache, request, ghosts, ended>>

Init ==
    /\ dev \in BOOLEAN
    /\ edits = 1
    /\ public \in [Path -> {Folder, Absent, 1}]
    /\ built \in [Path -> {Absent, 1}]
    /\ past = [p \in Path |-> {built[p]}]
    /\ missed = {}
    /\ preretrieval = dev
    /\ privateFiles = [p \in Path |-> Absent]
    /\ cache = [p \in Path |-> Absent]
    /\ phase = [c \in Client |-> "idle"]
    /\ path = [c \in Client |-> 0]
    /\ fallback = [c \in Client |-> FALSE]
    /\ during = [c \in Client |-> {}]
    /\ doubtful = {}
    /\ answer = [c \in Client |-> [status |-> 0, file |-> Absent]]
    /\ held = [c \in Client |-> {}]
    /\ gone = [c \in Client |-> {}]
    /\ misled = [c \in Client |-> {}]
    /\ ended = FALSE

-----------------------------------------------------------------------------
(* The files.                                                              *)

\* What the plugins offer: in production what was retrieved at the start, once
\* it was.
Offered == IF dev THEN built ELSE privateFiles

\* The paths with no public and with no built file, and what a path holds.
Missing ==
    {<<"public", p>> : p \in {p \in Path : public[p] = Absent}}
    \cup {<<"built", p>> : p \in {p \in Path : preretrieval /\ Offered[p] = Absent}}
Holds(p) ==
    ({public[p]} \cup IF preretrieval THEN {Offered[p]} ELSE {}) \ {Absent, Folder}

\* What clients may see of the files after a change of them.
Shows ==
    /\ held' = [c \in Client |-> held[c] \cup Holds(path[c])']
    /\ gone' = [c \in Client |-> gone[c] \cup Missing']
    /\ UNCHANGED misled

\* The clients whose request the build interface is asked for.
Retrieving == {c \in Client : dev /\ phase[c] = "retrieve"}

Edits ==
    /\ edits <= MaxEdits
    /\ edits' = edits + 1
    /\ UNCHANGED <<dev, startup, cache, phase, path, fallback, answer, ended>>
    /\ Shows

EditPublic(p) ==
    /\ \E v \in {Absent, edits + 1} : public' = [public EXCEPT ![p] = v]
    /\ UNCHANGED <<built, past, missed, retrieval>>
    /\ Edits

\* The next scan of the plugin sees the edit and the map names that plugin, or
\* not (module Build).  Even if so, what is remembered of a retrieval in whose
\* course it is made is not up to date.
EditSource(p) ==
    /\ dev \/ ~preretrieval
    /\ \E v \in {Absent, edits + 1} :
          /\ built' = [built EXCEPT ![p] = v]
          /\ past' = [past EXCEPT ![p] = @ \cup {v}]
          /\ during' = [c \in Client |->
                IF c \in Retrieving /\ path[c] = p THEN during[c] \cup {v} ELSE during[c]]
    /\ \E noticed \in BOOLEAN :
          /\ missed' = IF noticed /\ Retrieving = {} THEN missed \ {p} ELSE missed \cup {p}
          /\ doubtful' = doubtful \cup {c \in Retrieving : path[c] = p /\ ~noticed}
    /\ UNCHANGED public
    /\ Edits

\* retrieveAll of the constructor, which read each file at some moment before;
\* if it is rejected nobody handles that.
Preretrieves ==
    /\ ~preretrieval
    /\ UNCHANGED <<dev, source, cache, request>>
    /\ \/ /\ preretrieval' = TRUE
          /\ privateFiles' \in {files \in [Path -> UNION {past[p] : p \in Path}] :
                                   \A p \in Path : files[p] \in past[p]}
          /\ Shows
          /\ UNCHANGED ended
       \/ /\ ended' = TRUE
          /\ UNCHANGED <<startup, ghosts>>

-----------------------------------------------------------------------------
(* Cache.                                                                  *)

\* keyStoreTimestamps, which nothing is ever written to.
keyStoreTimestamps == [p \in {} |-> 0]

\* Mutant of Has: set stores a timestamp, and entries last for a while.
HasStored(p) == cache[p] # Absent

\* has: without a timestamp there is no entry.
Has(p) == p \in DOMAIN keyStoreTimestamps /\ ~dev

-----------------------------------------------------------------------------
(* A request.                                                              *)

\* The client asks for the page again; redirects are answered before.
Asks(c) ==
    /\ phase[c] = "idle"
    /\ phase' = [phase EXCEPT ![c] = "read"]
    /\ \E html \in BOOLEAN : fallback' = [fallback EXCEPT ![c] = html]
    /\ held' = [held EXCEPT ![c] = Holds(0)]
    /\ gone' = [gone EXCEPT ![c] = Missing]
    /\ UNCHANGED <<dev, source, startup, cache, path, retrieval, answer, misled, ended>>

\* The response is given with a file, or with no body.  A client may send the
\* tag the file has: that is made of the time of the load, to the millisecond.
Respond(c, file) ==
    /\ phase' = [phase EXCEPT ![c] = "answered"]
    /\ \E noneMatch \in BOOLEAN :
          answer' = [answer EXCEPT ![c] =
              [status |-> IF file # Absent /\ ~noneMatch THEN 304
                          ELSE IF file # Absent /\ path[c] = 0 THEN 200 ELSE 404,
               file |-> file]]
    /\ UNCHANGED <<path, held>>

\* Mutant of Found: the last level, the root, is not read.
FoundBelowRoot(c, file) ==
    IF file = Absent /\ fallback[c] /\ path[c] < Depth - 1
    THEN /\ phase' = [phase EXCEPT ![c] = "read"]
         /\ path' = [path EXCEPT ![c] = @ + 1]
         /\ held' = [held EXCEPT ![c] = Holds(path'[c])]
         /\ UNCHANGED answer
    ELSE Respond(c, file)

\* Mutant of Found: the levels of the path are not popped.
FoundForever(c, file) ==
    IF file = Absent /\ fallback[c] /\ path[c] <= Depth
    THEN /\ phase' = [phase EXCEPT ![c] = "read"]
         /\ UNCHANGED <<path, held, answer>>
    ELSE Respond(c, file)

\* read was resolved: with a file, or with none, and then for a page the next
\* folder's 404 page is read.
Found(c, file) ==
    IF file = Absent /\ fallback[c] /\ path[c] < Depth
    THEN /\ phase' = [phase EXCEPT ![c] = "read"]
         /\ path' = [path EXCEPT ![c] = @ + 1]
         /\ held' = [held EXCEPT ![c] = Holds(path'[c])]
         /\ UNCHANGED answer
    ELSE Respond(c, file)

\* The rest of a read that loads the version v of the path, or no file.  What is
\* stored in development, for no time at all, is left out.
Loads(c, v) ==
    /\ cache' = [cache EXCEPT ![path[c]] = IF v = Absent \/ dev THEN @ ELSE v]
    /\ Found(c, v)

\* The retrieval of a path begins.  Its plugin may answer from memory if another
\* caller has it applied meanwhile.
Retrieves(c) ==
    /\ during' = [during EXCEPT ![c] = {built[path[c]]}]
    /\ doubtful' = doubtful
          \cup (IF Retrieving = {} THEN {} ELSE Retrieving \cup {c})
          \cup (IF path[c] \in missed THEN {c} ELSE {})

\* read: the cache, whether there is a public file, else the built files.
Reads(c) ==
    /\ phase[c] = "read"
    /\ \/ /\ Has(path[c])
          /\ Found(c, cache[path[c]])
          /\ UNCHANGED retrieval
       \/ /\ ~Has(path[c])
          /\ public[path[c]] # Absent
          /\ phase' = [phase EXCEPT ![c] = "load"]
          /\ UNCHANGED <<path, held, answer, retrieval>>
       \/ /\ ~Has(path[c])
          /\ public[path[c]] = Absent
          /\ phase' = [phase EXCEPT ![c] = "retrieve"]
          /\ IF dev THEN Retrieves(c) ELSE UNCHANGED retrieval
          /\ UNCHANGED <<path, held, answer>>
    /\ UNCHANGED <<dev, source, startup, cache, fallback, gone, misled, ended>>

\* readFile of a file that was there.  That it fails is handled nowhere.
LoadsPublic(c) ==
    /\ phase[c] = "load"
    /\ IF public[path[c]] \in {Absent, Folder}
       THEN ended' = TRUE /\ UNCHANGED <<cache, phase, path, answer, held>>
       ELSE Loads(c, public[path[c]]) /\ UNCHANGED ended
    /\ UNCHANGED <<dev, source, startup, fallback, retrieval, gone, misled>>

\* In production the files that were retrieved at the start are searched.
LoadsPrivate(c) ==
    /\ ~dev
    /\ preretrieval
    /\ phase[c] = "retrieve"
    /\ Loads(c, privateFiles[path[c]])
    /\ UNCHANGED <<dev, source, startup, fallback, retrieval, gone, misled, ended>>

\* In development the build interface is asked, which may be misled.
LoadsBuilt(c) ==
    /\ dev
    /\ phase[c] = "retrieve"
    /\ \E v \in during[c] \cup (IF c \in doubtful THEN past[path[c]] \cup {Absent} ELSE {}) :
          Loads(c, v)
    /\ during' = [during EXCEPT ![c] = {}]
    /\ doubtful' = doubtful \ {c}
    /\ misled' = [misled EXCEPT ![c] = IF c \in doubtful THEN @ \cup {path[c]} ELSE @]
    /\ UNCHANGED <<dev, source, startup, fallback, gone, ended>>

\* A plugin fails, which nobody handles.
RetrievalFails(c) ==
    /\ dev
    /\ phase[c] = "retrieve"
    /\ ended' = TRUE
    /\ UNCHANGED <<dev, source, startup, cache, request, ghosts>>

\* The client has the answer.
Leaves(c) ==
    /\ phase[c] = "answered"
    /\ phase' = [phase EXCEPT ![c] = "idle"]
    /\ answer' = [answer EXCEPT ![c] = [status |-> 0, file |-> Absent]]
    /\ held' = [held EXCEPT ![c] = {}]
    /\ gone' = [gone EXCEPT ![c] = {}]
    /\ misled' = [misled EXCEPT ![c] = {}]
    /\ path' = [path EXCEPT ![c] = 0]
    /\ fallback' = [fallback EXCEPT ![c] = FALSE]
    /\ UNCHANGED <<dev, source, startup, cache, retrieval, ended>>

Handles(c) ==
    Reads(c) \/ LoadsPublic(c) \/ LoadsPrivate(c) \/ LoadsBuilt(c) \/ RetrievalFails(c)

Next ==
    /\ ~ended
    /\ \/ Preretrieves
       \/ \E p \in Path : EditPublic(p) \/ EditSource(p)
       \/ \E c \in Client : Asks(c) \/ Handles(c) \/ Leaves(c)

Spec == Init /\ [][Next]_vars

\* The event loop takes every request on, and the start is settled.
FairSpec ==
    /\ Spec
    /\ WF_vars(Preretrieves)
    /\ \A c \in Client : WF_vars(Handles(c))

-----------------------------------------------------------------------------
(* Properties.                                                             *)

Answered(c) == phase[c] = "answered"

\* No request is answered with a file that was gone or replaced before the
\* read of it began: nothing of a request before it is left in the way.  The
\* exception is in development, of a path whose last edit the build interface
\* missed or that two requests retrieve at a time
\* (VirtualFileSystem.ts:69-107, Cache.ts:13-29, Plugin.ts:190-208).
NothingStaleServed ==
    \A c \in Client :
        Answered(c) /\ answer[c].file # Absent =>
            answer[c].file \in held[c] \/ path[c] \in misled[c]

\* 404 is answered only for a page that had no public file and no built one,
\* each at some moment of the request, and the same is true of each 404 page
\* that was passed over for the one that is the body, and of them all if there
\* is no body.  A file that moves from one to the other may be missed, and so
\* may, in development, a built one with the same exception
\* (VirtualFileSystem.ts:77-106, GETHandlerContext.ts:113-132).
MissedOnlyIfGone ==
    \A c \in Client :
        Answered(c) /\ answer[c].status = 404 =>
            \A p \in 0 .. (IF fallback[c] /\ answer[c].file = Absent THEN Depth ELSE path[c]) :
                p < path[c] \/ answer[c].file = Absent =>
                    /\ <<"public", p>> \in gone[c]
                    /\ <<"built", p>> \in gone[c] \/ p \in misled[c]

\* Every request is answered, if plugins settle, unless a plugin or a read
\* fails, which ends the process (VirtualFileSystem.ts:69-107, GETHandlerContext.ts:112-125).
EveryRequestAnswered ==
    \A c \in Client : phase[c] = "read" ~> Answered(c) \/ ended
=============================================================================
