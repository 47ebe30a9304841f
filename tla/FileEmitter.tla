----------------------------- MODULE FileEmitter -----------------------------
(***************************************************************************)
(* The emission of all built files to the public directory                 *)
(* (FileEmitter.ts, with Directory.ts).                                    *)
(*                                                                         *)
(* emit removes the directory at once, awaits the build, and then, one     *)
(* after the other, makes the directory of each file and writes it.  Of    *)
(* directories among the nodes, files are written but no directories.      *)
(* Nothing keeps a second emission from starting before one has ended, and *)
(* each change of the disk may fail.  What a build answers, which is not   *)
(* always all that the sources have, is the matter of Build and Plugin:    *)
(* here it is any of Builds.                                               *)
(***************************************************************************)
EXTENDS Naturals, Sequences, FiniteSets, SequencesExt

CONSTANTS
    Emission,   \* the calls of emit
    File,       \* the files that may be built: their paths, as sequences of names
    Depth,      \* in how many nodes of type Directory each is
    Builds      \* what retrieveAll may answer: the version of each file, 0 for none

ASSUME FileEmitterAssumption ==
    /\ IsFiniteSet(File)
    /\ \A f \in File : f \in Seq(STRING) /\ f # <<>>
    /\ Depth \in [File -> Nat]
    /\ Builds \subseteq [File -> Nat \ {1}]

VARIABLES
    disk,       \* the files in the public directory: their version, 0 for none
    parents,    \* the directories there, the public directory itself is <<>>
    phase,      \* where each emission is
    publicFiles,    \* what its build has answered
    left,       \* the files that it has yet to write, in order
    overlapped, \* ghost: another one was under way with it
    followed,   \* ghost: another one was started when it was under way
    failed      \* ghost: its build failed, or the disk did

public == <<disk, parents>>
emissions == <<phase, publicFiles, left>>
overlaps == <<overlapped, followed>>
vars == <<public, emissions, overlaps, failed>>

Nothing == [f \in File |-> 0]
Torn == 1   \* the version of a file of which a part is written

\* The directories that a path is in.
Above(path) == {SubSeq(path, 1, n) : n \in 0 .. Len(path) - 1}

Init ==
    /\ disk = Nothing
    /\ parents = {}
    /\ phase = [e \in Emission |-> "idle"]
    /\ publicFiles = [e \in Emission |-> Nothing]
    /\ left = [e \in Emission |-> <<>>]
    /\ overlapped = {}
    /\ followed = {}
    /\ failed = {}

UnderWay == {e \in Emission : phase[e] \in {"building", "rendering", "writing"}}

Rejects(e) == phase' = [phase EXCEPT ![e] = "rejected"]

-----------------------------------------------------------------------------
(* The removal.                                                            *)

\* An emission is started, and overlaps those that are under way.
Starts(e) ==
    /\ phase[e] = "idle"
    /\ overlapped' = IF UnderWay = {} THEN overlapped ELSE overlapped \cup UnderWay \cup {e}
    /\ followed' = followed \cup UnderWay

\* Mutant of Emit: the directory is not removed.
EmitOver(e) ==
    /\ Starts(e)
    /\ phase' = [phase EXCEPT ![e] = "building"]
    /\ UNCHANGED <<public, publicFiles, left, failed>>

\* The directory is removed with all that is in it.
Emit(e) ==
    /\ Starts(e)
    /\ phase' = [phase EXCEPT ![e] = "building"]
    /\ disk' = Nothing
    /\ parents' = {}
    /\ UNCHANGED <<publicFiles, left, failed>>

\* That throws in the middle: the disk fails, or a directory is not empty as another
\* emission has put something in since it was listed.
RemovalFails(e) ==
    /\ Starts(e)
    /\ Rejects(e)
    /\ \/ failed' = failed \cup {e}
       \/ failed' = failed /\ \E d \in UnderWay : phase[d] \in {"rendering", "writing"}
    /\ \E kept \in SUBSET {f \in File : disk[f] # 0}, directories \in SUBSET parents :
          /\ \A path \in kept \cup directories : Above(path) \subseteq directories
          /\ disk' = [f \in File |-> IF f \in kept THEN disk[f] ELSE 0]
          /\ parents' = directories
    /\ UNCHANGED <<publicFiles, left>>

-----------------------------------------------------------------------------
(* The build.                                                              *)

\* The files that renderFileNode comes to: traverse is not recursive.
Rendered(built) == {f \in File : built[f] # 0 /\ Depth[f] <= 1}

\* retrieveAll has answered with built.
Answered(e, built) ==
    /\ phase[e] = "building"
    /\ phase' = [phase EXCEPT ![e] = "rendering"]
    /\ publicFiles' = [publicFiles EXCEPT ![e] = built]
    /\ left' = [left EXCEPT ![e] = SetToSeq(Rendered(built))]
    /\ UNCHANGED <<overlaps, failed>>

\* Mutant of Built: the directory is removed when there is something to write.
BuiltThenRemoved(e) ==
    /\ \E built \in Builds : Answered(e, built)
    /\ disk' = Nothing
    /\ parents' = {}

Built(e) ==
    /\ \E built \in Builds : Answered(e, built)
    /\ UNCHANGED public

BuildFails(e) ==
    /\ phase[e] = "building"
    /\ Rejects(e)
    /\ failed' = failed \cup {e}
    /\ UNCHANGED <<public, publicFiles, left, overlaps>>

-----------------------------------------------------------------------------
(* The files.                                                              *)

\* The directory of the next file is made, with those it is in.  It is not if one of
\* them is a file, or if the disk fails.
MakesDirectory(e) ==
    /\ phase[e] = "rendering"
    /\ left[e] # <<>>
    /\ LET f == Head(left[e]) IN
          \/ /\ \A g \in File \cap Above(f) : disk[g] = 0
             /\ parents' = parents \cup Above(f)
             /\ phase' = [phase EXCEPT ![e] = "writing"]
             /\ UNCHANGED failed
          \/ /\ \E g \in File \cap Above(f) : disk[g] # 0
             /\ Rejects(e)
             /\ UNCHANGED <<parents, failed>>
          \/ /\ \E n \in 0 .. Len(f) - 1 : parents' = parents \cup Above(SubSeq(f, 1, n))
             /\ \A g \in File \cap parents' : disk[g] = 0
             /\ Rejects(e)
             /\ failed' = failed \cup {e}
    /\ UNCHANGED <<disk, publicFiles, left, overlaps>>

\* It is written.  It is not if its directory is gone again, if it is a directory, or
\* if the disk fails, which may leave a part of it.
Writes(e) ==
    /\ phase[e] = "writing"
    /\ LET f == Head(left[e])
           writable == Front(f) \in parents /\ f \notin parents
       IN \/ /\ writable
             /\ disk' = [disk EXCEPT ![f] = publicFiles[e][f]]
             /\ left' = [left EXCEPT ![e] = Tail(@)]
             /\ phase' = [phase EXCEPT ![e] = "rendering"]
             /\ UNCHANGED failed
          \/ /\ ~writable
             /\ Rejects(e)
             /\ UNCHANGED <<disk, left, failed>>
          \/ /\ writable
             /\ disk' \in {disk, [disk EXCEPT ![f] = Torn]}
             /\ Rejects(e)
             /\ failed' = failed \cup {e}
             /\ UNCHANGED left
    /\ UNCHANGED <<parents, publicFiles, overlaps>>

Emitted(e) ==
    /\ phase[e] = "rendering"
    /\ left[e] = <<>>
    /\ phase' = [phase EXCEPT ![e] = "emitted"]
    /\ UNCHANGED <<public, publicFiles, left, overlaps, failed>>

Next ==
    \E e \in Emission :
        \/ Emit(e) \/ RemovalFails(e) \/ Built(e) \/ BuildFails(e)
        \/ MakesDirectory(e) \/ Writes(e) \/ Emitted(e)

Spec == Init /\ [][Next]_vars

-----------------------------------------------------------------------------
(* Properties.                                                             *)

\* An emission that no other one overlapped leaves exactly what its build has
\* answered, and nothing that emissions before it have left in whatever state,
\* except for files that are in directories of directories
\* (FileEmitter.ts:73-103, Directory.ts:34-43).
SoloIsExact ==
    [][\A e \in Emission :
          phase[e] = "rendering" /\ phase'[e] = "emitted" /\ e \notin overlapped =>
             disk = [f \in File |-> IF Depth[f] <= 1 THEN publicFiles[e][f] ELSE 0]]_vars

\* An emission that none was started after has all of its files there when it
\* ends, in spite of those it overlapped, which may have put in others, older ones
\* or parts of them (FileEmitter.ts:90-103).
LastIsComplete ==
    [][\A e \in Emission :
          phase[e] = "rendering" /\ phase'[e] = "emitted" /\ e \notin followed =>
             \A f \in Rendered(publicFiles[e]) : disk[f] # 0]_vars

\* No file of a build has the path of a directory that another one is in.
Consistent(built) == \A f, g \in Rendered(built) : f \notin Above(g)

\* An emission fails only if its build or the disk does, if another one overlaps it,
\* or for a path that its own build has as a file and as a directory: what emissions
\* have left that were over when it started, as a file where it needs a directory or
\* a directory where it needs a file, is never in the way
\* (FileEmitter.ts:51-71, 90-103).
FailsForOverlapOnly ==
    \A e \in Emission : phase[e] = "rejected" =>
        e \in failed \cup overlapped \/ ~Consistent(publicFiles[e])
=============================================================================
