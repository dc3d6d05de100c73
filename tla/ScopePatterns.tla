--------------------------- MODULE ScopePatterns ---------------------------
(***************************************************************************)
(* What pathsOverlap promises of two path scopes, over the patterns up to  *)
(* a given depth.                                                          *)
(***************************************************************************)
EXTENDS ArtifactClaims

CONSTANT MaxDepth   \* longest pattern

ASSUME DepthIsNatural == MaxDepth \in Nat

\* A scope of the code layer that names a path and nothing else.
Path(p) == [layer |-> "code", task_id |-> Absent, ref |-> Absent, path |-> p, description |-> Absent]

Pattern == {p \in BoundedSeq(Segment \cup {"", "*"}, MaxDepth) : IsPrefixPattern(p)}

\* Files up to one level deeper than any pattern, so that every glob covers a file
\* of its own.
File == {f \in BoundedSeq(Segment \cup {""}, MaxDepth + 1) : IsFile(f)}

\* For patterns that are a literal prefix with at most a wildcard at the end, two
\* path scopes overlap exactly when some file is covered by both, whichever comes
\* first: no shared file is missed, and no pair without one is reported
\* (pathsOverlap, claims.ts).  Asked of the empty queue file, for it says nothing of
\* the state.
OverlapIffSharedFile ==
    file = EmptyFile =>
        \A left, right \in Pattern :
            scopesOverlap(Path(left), Path(right)) <=> ShareFile(left, right, File)
=============================================================================
