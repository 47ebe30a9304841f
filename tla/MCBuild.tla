------------------------------ MODULE MCBuild ------------------------------
(***************************************************************************)
(* The build package for TLC: a behaviour is one of a Plugin whose files   *)
(* change, or one of a Build whose plugins do.                             *)
(***************************************************************************)
EXTENDS Plugin, TLC

CONSTANTS PluginDir, Path, None, MaxChanges     \* those of Build

VARIABLES
    object,     \* what this behaviour is one of
    dirs, builds, changes, plugins, outpathMap, scan, remembered, \* those of
    asked, stage, made, related, answer, unnoticed, steady, excused \* Build, which has
                                                  \* a phase and an end too

OfPlugin == <<now, files, memory, seen>>
OfBuild == <<dirs, builds, changes, plugins, outpathMap, scan, remembered,
             asked, stage, made, related, answer, unnoticed, steady, excused>>
packageVars == <<object, OfPlugin, OfBuild, phase, ended>>

Builds == INSTANCE Build

ASSUME BuildAssumption ==
    /\ None \notin Builds!Object
    /\ MaxChanges \in Nat

PackageInit ==
    \/ object = "plugin" /\ Init /\ Builds!Init /\ dirs = {} /\ builds = [p \in PluginDir |-> {}]
    \/ object = "build" /\ Builds!Init /\ Init /\ version = [f \in File |-> Absent]

PackageNext ==
    /\ UNCHANGED object
    /\ \/ object = "plugin" /\ Next /\ UNCHANGED OfBuild
       \/ object = "build" /\ Builds!Next /\ UNCHANGED OfPlugin

\* Callers are interchangeable, and so are plugins.
Symmetry == Permutations(Caller) \cup Permutations(PluginDir)

PackageSpec == PackageInit /\ [][PackageNext]_packageVars

\* A file that is built all the time is found, or lost to another plugin (Build).
LostOnlyToAnother == object = "build" => Builds!LostOnlyToAnother

=============================================================================
