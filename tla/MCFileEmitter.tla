--------------------------- MODULE MCFileEmitter ----------------------------
(***************************************************************************)
(* FileEmitter for TLC: a path that is a file in some builds and in others *)
(* a directory, with a file in it and one in a directory of it, a build    *)
(* that has it as both, and one of nothing.                                *)
(***************************************************************************)
EXTENDS FileEmitter, TLC

MCFile == {<<"dir">>, <<"dir", "b">>, <<"dir", "sub", "c">>}
MCDepth == [f \in MCFile |-> Len(f) - 1]

Versions(dir, b, c) ==
    [f \in MCFile |-> IF f = <<"dir">> THEN dir ELSE IF f = <<"dir", "b">> THEN b ELSE c]
MCBuilds ==
    {Versions(0, 0, 0), Versions(2, 0, 0), Versions(0, 2, 2), Versions(0, 3, 0), Versions(2, 2, 0)}

Symmetry == Permutations(Emission)
=============================================================================
