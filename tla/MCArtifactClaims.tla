-------------------------- MODULE MCArtifactClaims --------------------------
(***************************************************************************)
(* ArtifactClaims on a source tree and two files of it: each file          *)
(* overlaps the tree, not the other.                                       *)
(***************************************************************************)
EXTENDS ScopePatterns

Tree == Path(<<"src", "**">>)
FileA == Path(<<"src", "a">>)
FileB == Path(<<"src", "b">>)

MCScope == {Tree, FileA, FileB}
MCAsk == {[mode |-> "write", scopes |-> {Tree}], [mode |-> "write", scopes |-> {FileA}],
          [mode |-> "write", scopes |-> {FileB}]}

Symmetry == Permutations(Session)
=============================================================================
