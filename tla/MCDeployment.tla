---------------------------- MODULE MCDeployment ----------------------------
(***************************************************************************)
(* Deployment for TLC.  MCFile: a file that is named for deployment, and   *)
(* one below a directory of which another part is.  MCManyFiles: also one  *)
(* that is deployed with its directory, and one that is too deep for that. *)
(***************************************************************************)
EXTENDS Deployment, TLC

MCFile == {<<"dist">>, <<"lib", "b">>}
MCDeployPaths == {<<"dist">>, <<"lib", "a">>}

MCManyFiles == MCFile \cup {<<"app", "a">>, <<"app", "b", "c">>}
MCManyPaths == MCDeployPaths \cup {<<"app">>}

Symmetry == Permutations(Job) \cup Permutations(Worker)
=============================================================================
