------------------------------- MODULE Build --------------------------------
(***************************************************************************)
(* The build interface (Build.ts): plugins found in a directory, and the   *)
(* map from the paths they build to the plugin that did, in development.   *)
(*                                                                         *)
(* retrieveAll starts the application of every plugin at once and enters   *)
(* what each one builds into the map when its application ends, so that    *)
(* the last to end has the path.  A plugin object may answer from memory   *)
(* (Plugin.ts): if its scan finds no newer file, or while a result that    *)
(* another caller's application awaits is missing from it.                 *)
(***************************************************************************)
EXTENDS Naturals

CONSTANTS
    PluginDir,  \* the plugins that may exist
    Path,       \* the paths they may build
    Caller,     \* the callers of retrieve
    None,       \* no plugin
    MaxChanges  \* bound: changes of what plugins build, and of the directory

\* A Plugin object, by its directory and the changes before it was created.
Object == PluginDir \X (0 .. MaxChanges)

VARIABLES
    dirs,       \* the directories of plugins that exist
    builds,     \* the paths each of them builds, as its files stand
    changes,    \* how often either changed
    plugins,    \* plugins; in what order it has them no answer depends on
    outpathMap, \* outpathMap
    scan,       \* what the files of each object are to its lastApplyTimestamp
    remembered, \* the paths of its lastApplyResult
    phase,      \* how far the retrieval of each caller is
    asked,      \* relativePath
    stage,      \* how far each application that it awaits is
    made,       \* what the application makes of the files
    related,    \* relatedPlugin
    answer,     \* the object its file was built by, None for no file
    unnoticed,  \* the objects whose files last changed unnoticed, or while read
    steady,     \* the plugins that built the path, and did not change in the call
    excused,    \* the objects that answered from a memory not up to date
    ended       \* a retrieval was rejected, or an application failed

disk == <<dirs, builds, changes>>
memory == <<scan, remembered, unnoticed>>
mapping == <<plugins, outpathMap>>
calls == <<phase, asked, stage, made, related, answer>>
vars == <<disk, memory, mapping, calls, steady, excused, ended>>

Init ==
    /\ dirs \in SUBSET PluginDir
    /\ builds \in [PluginDir -> SUBSET Path]
    /\ \A p \in PluginDir \ dirs : builds[p] = {}
    /\ changes = 0
    /\ plugins = {}
    /\ outpathMap = [q \in Path |-> None]
    /\ scan = [o \in Object |-> "never"]
    /\ remembered = [o \in Object |-> {}]
    /\ phase = [c \in Caller |-> "idle"]
    /\ asked = [c \in Caller |-> CHOOSE q \in Path : TRUE]
    /\ stage = [c \in Caller |-> [o \in Object |-> "none"]]
    /\ made = [c \in Caller |-> [o \in Object |-> {}]]
    /\ related = [c \in Caller |-> None]
    /\ answer = [c \in Caller |-> None]
    /\ unnoticed = {}
    /\ steady = [c \in Caller |-> {}]
    /\ excused = [c \in Caller |-> {}]
    /\ ended = FALSE

-----------------------------------------------------------------------------
(* The plugins on disk.                                                    *)

Begun(o) == \E c \in Caller : stage[c][o] \in {"reading", "building"}
Awaited(o) == \E c \in Caller : stage[c][o] = "building"

Readers(p) == {c \in Caller : \E o \in Object : o[1] = p /\ stage[c][o] = "reading"}

\* The files of p change.  To the next scan of an object that has been applied
\* some of them are newer than its timestamp (noticed) or none is, as when the
\* newest is gone.  An application that reads them gets some from before.
Changes(p) ==
    /\ changes < MaxChanges
    /\ changes' = changes + 1
    /\ \E noticed \in SUBSET {o \in Object : o[1] = p /\ scan[o] # "never"} :
          /\ scan' = [o \in Object |->
                IF o[1] # p \/ scan[o] = "never" THEN scan[o]
                ELSE IF o \in noticed THEN "outdated" ELSE "current"]
          /\ unnoticed' = {o \in Object :
                IF o[1] # p THEN o \in unnoticed
                ELSE Begun(o) \/ (scan[o] # "never" /\ o \notin noticed)}
    /\ \E mixed \in [Readers(p) -> SUBSET Path] :
          made' = [c \in Caller |-> [o \in Object |->
                IF o[1] = p /\ stage[c][o] = "reading" THEN mixed[c] ELSE made[c][o]]]
    /\ steady' = [c \in Caller |-> steady[c] \ {p}]
    /\ UNCHANGED <<remembered, mapping, phase, asked, stage, related, answer, excused, ended>>

Rebuild(p) ==
    /\ p \in dirs
    /\ \E paths \in SUBSET Path : builds' = [builds EXCEPT ![p] = paths]
    /\ UNCHANGED dirs
    /\ Changes(p)

AddPlugin(p) ==
    /\ p \notin dirs
    /\ dirs' = dirs \cup {p}
    /\ \E paths \in SUBSET Path : builds' = [builds EXCEPT ![p] = paths]
    /\ Changes(p)

RemovePlugin(p) ==
    /\ p \in dirs
    /\ dirs' = dirs \ {p}
    /\ builds' = [builds EXCEPT ![p] = {}]
    /\ Changes(p)

-----------------------------------------------------------------------------
(* The applications of the objects.                                        *)

\* apply: an object whose scan finds no newer file answers what it remembers,
\* which is nothing before its first result.
FromMemory(o) == scan[o] = "current"

\* Applications of the objects os begin.  Each scans its directory first.
Apply(c, os) ==
    /\ stage' = [stage EXCEPT ![c] = [o \in Object |->
          IF o \notin os THEN "none" ELSE IF FromMemory(o) THEN "ready" ELSE "reading"]]
    /\ made' = [made EXCEPT ![c] = [o \in Object |->
          IF o \notin os THEN {} ELSE IF FromMemory(o) THEN remembered[o] ELSE builds[o[1]]]]
    /\ excused' = [excused EXCEPT ![c] = @ \cup
          {o \in os : FromMemory(o) /\ (o \in unnoticed \/ Awaited(o))}]
    /\ ended' = (\E o \in os : o[1] \notin dirs)

\* The result is stored, and answered.
Stores(c, o) ==
    /\ remembered' = [remembered EXCEPT ![o] = made[c][o]]
    /\ stage' = [stage EXCEPT ![c][o] = "ready"]

\* The files are read and the build function is called, and the timestamp is
\* taken, which a file changed in its millisecond is not older than.
Called(c, o) ==
    /\ stage[c][o] = "reading"
    /\ \/ scan' = [scan EXCEPT ![o] = "current"]
       \/ scan[o] # "current" /\ scan' = [scan EXCEPT ![o] = "outdated"]
    /\ \/ Stores(c, o)
       \/ /\ stage' = [stage EXCEPT ![c][o] = "building"]
          /\ UNCHANGED remembered
    /\ UNCHANGED <<disk, unnoticed, mapping, phase, asked, made, related, answer,
                   steady, excused, ended>>

\* What the function returned was awaited.
Built(c, o) ==
    /\ stage[c][o] = "building"
    /\ Stores(c, o)
    /\ UNCHANGED <<disk, scan, unnoticed, mapping, phase, asked, made, related, answer,
                   steady, excused, ended>>

\* The directory is gone, or the module or its function fails, which nothing
\* handles.
Fails(c, o) ==
    /\ stage[c][o] \in {"reading", "building"}
    /\ ended' = TRUE
    /\ UNCHANGED <<disk, memory, mapping, calls, steady, excused>>

-----------------------------------------------------------------------------
(* retrieve.                                                               *)

NewPlugins(known) == {<<p, changes>> : p \in dirs \ {o[1] : o \in known}}

\* Mutant of FetchPlugins: what is known is not read again.
FetchPluginsOnce ==
    plugins' = IF plugins = {} THEN NewPlugins({}) ELSE {o \in plugins : o[1] \in dirs}

\* fetchPlugins: objects for new directories are added, and then those whose
\* directory is gone are deleted.  The map is left alone.
FetchPlugins == plugins' = {o \in plugins : o[1] \in dirs} \cup NewPlugins(plugins)

Begins(c, path) ==
    /\ phase[c] = "idle"
    /\ asked' = [asked EXCEPT ![c] = path]
    /\ steady' = [steady EXCEPT ![c] = {p \in dirs : path \in builds[p]}]

\* retrieve for a path the map has not: retrieveAll.
RetrieveUnmapped(c, path) ==
    /\ outpathMap[path] = None
    /\ Begins(c, path)
    /\ FetchPlugins
    /\ Apply(c, plugins')
    /\ phase' = [phase EXCEPT ![c] = "retrieving"]
    /\ UNCHANGED <<disk, memory, outpathMap, related, answer>>

\* The related plugin is applied, whether or not it is one of plugins still.
AppliesRelated(c, o) ==
    /\ related' = [related EXCEPT ![c] = o]
    /\ Apply(c, {o})
    /\ phase' = [phase EXCEPT ![c] = "applying"]
    /\ UNCHANGED answer

RetrieveMapped(c, path) ==
    /\ outpathMap[path] # None
    /\ Begins(c, path)
    /\ AppliesRelated(c, outpathMap[path])
    /\ UNCHANGED <<disk, memory, mapping>>

\* The answer of the application of o is taken.
Takes(c, o) ==
    /\ stage[c][o] = "ready"
    /\ stage' = [stage EXCEPT ![c][o] = "none"]
    /\ made' = [made EXCEPT ![c][o] = {}]

\* An application of retrieveAll ends, and its paths are entered.
Applied(c, o) ==
    /\ phase[c] = "retrieving"
    /\ Takes(c, o)
    /\ outpathMap' = [q \in Path |-> IF q \in made[c][o] THEN o ELSE outpathMap[q]]
    /\ UNCHANGED <<disk, memory, plugins, phase, asked, related, answer, steady, excused, ended>>

\* retrieveAll has ended, and the map is consulted again.
Retrieved(c) ==
    /\ phase[c] = "retrieving"
    /\ \A o \in Object : stage[c][o] = "none"
    /\ \/ /\ outpathMap[asked[c]] # None
          /\ AppliesRelated(c, outpathMap[asked[c]])
       \/ /\ outpathMap[asked[c]] = None
          /\ phase' = [phase EXCEPT ![c] = "answered"]
          /\ UNCHANGED <<stage, made, related, answer, excused, ended>>
    /\ UNCHANGED <<disk, memory, mapping, asked, steady>>

\* The application of the related plugin ends: the file is its, or none.
Answered(c) ==
    /\ phase[c] = "applying"
    /\ Takes(c, related[c])
    /\ answer' = [answer EXCEPT ![c] =
          IF asked[c] \in made[c][related[c]] THEN related[c] ELSE None]
    /\ phase' = [phase EXCEPT ![c] = "answered"]
    /\ UNCHANGED <<disk, memory, mapping, asked, related, steady, excused, ended>>

\* The caller is done with the answer.
Leaves(c) ==
    /\ phase[c] = "answered"
    /\ phase' = [phase EXCEPT ![c] = "idle"]
    /\ related' = [related EXCEPT ![c] = None]
    /\ answer' = [answer EXCEPT ![c] = None]
    /\ steady' = [steady EXCEPT ![c] = {}]
    /\ excused' = [excused EXCEPT ![c] = {}]
    /\ UNCHANGED <<disk, memory, mapping, asked, stage, made, ended>>

Steps(c) ==
    \/ \E o \in Object : Called(c, o) \/ Built(c, o) \/ Fails(c, o) \/ Applied(c, o)
    \/ Retrieved(c)
    \/ Answered(c)

\* What is ready goes on before the next event is handled.
Ready(c) == \E o \in Object : stage[c][o] = "ready"

Next ==
    /\ ~ended
    /\ \/ \E p \in PluginDir : Rebuild(p) \/ AddPlugin(p) \/ RemovePlugin(p)
       \/ \E c \in Caller :
             /\ \A d \in Caller \ {c} : ~Ready(d)
             /\ \/ \E q \in Path : RetrieveUnmapped(c, q) \/ RetrieveMapped(c, q)
                \/ Steps(c)
                \/ Leaves(c)

Spec == Init /\ [][Next]_vars

-----------------------------------------------------------------------------
(* Properties.                                                             *)

\* A file that some plugin builds, and that does not change in the course of a
\* retrieval, is found however the applications end, with two exceptions: the
\* map names another plugin, which did not build it all that time, or the plugin
\* answered from a memory that a change was not noticed for, or that a result
\* was awaited for (Build.ts:71-95, 111-119, Plugin.ts:179-184, 194-207).
LostOnlyToAnother ==
    \A c \in Caller :
        phase[c] = "answered" /\ answer[c] = None /\ steady[c] # {} =>
            \/ related[c] # None /\ (related[c][1] \notin steady[c] \/ related[c] \in excused[c])
            \/ related[c] = None /\ steady[c] \subseteq {o[1] : o \in excused[c]}

=============================================================================
