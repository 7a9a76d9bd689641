------------------------------ MODULE MCDotDot ------------------------------
(***************************************************************************)
(* The directory tree for TLC, under paths that start at the current       *)
(* directory and go up.                                                    *)
(***************************************************************************)
EXTENDS Inode

SC(name, path) == [call |-> name, path |-> path, new |-> <<>>, relative |-> FALSE]
SysCalls ==
  {SC("mkdir", path) : path \in {<<"a">>, <<"a", "b">>}}
    \cup {SC("unlink", path) : path \in {<<"a">>, <<"a", "b">>}}
    \cup {SC("chdir", <<"a", "b">>), [SC("chdir", <<"..">>) EXCEPT !.relative = TRUE]}
=============================================================================
