---------------------------- MODULE ScopeOverlap ----------------------------
(***************************************************************************)
(* Scopes of the artifact-status queue and the relation "these two scopes  *)
(* touch the same artifact" that every conflict, blocker and resume check  *)
(* of application/claims.ts is built on.                                   *)
(*                                                                         *)
(* A path is the sequence of its "/"-separated segments after              *)
(* normalizePathLike: "src/**" is <<"src", "**">>, "/" is <<"", "">>, and  *)
(* an absent path is <<>>.  Only the first or last segment can be "".      *)
(***************************************************************************)
EXTENDS SequencesExt

CONSTANTS
    Segment,    \* path segments; may contain the special "", "*" and "**"
    Name,       \* task ids, refs and descriptions
    Absent      \* an optional field that is not given

ASSUME AbsentIsNoName == Absent \notin Name

Layer == {"knowledge", "roadmap", "code", "build", "validation", "graph", "source"}

\* ChangeClaimScope: every field but the layer is optional, one of them is given.
ScopeRecord ==
    {s \in [layer : Layer, task_id : Name \cup {Absent}, ref : Name \cup {Absent},
            path : Seq(Segment), description : Name \cup {Absent}] :
        \/ s.task_id # Absent
        \/ s.ref # Absent
        \/ s.path # <<>>
        \/ s.description # Absent}

-----------------------------------------------------------------------------
\* pathBase's .replace(/\/$/, ""): a trailing "/" is an empty last segment.
DropTrailingSlash(p) ==
    IF Len(p) > 1 /\ Last(p) = "" THEN Front(p) ELSE p

IsGlob(p) == Len(p) > 1 /\ Last(p) \in {"*", "**"}

\* A final "/*" is as deep as a final "/**"; a wildcard anywhere else is a
\* literal segment, and so is a bare "*" or "**".
pathBase(p) ==
    [base |-> DropTrailingSlash(IF IsGlob(p) THEN Front(p) ELSE p),
     glob |-> IsGlob(p)]

\* `base.startsWith(dir + "/")`.
Beneath(dir, base) == Len(dir) < Len(base) /\ IsPrefix(dir, base)

IsEmptyBase(base) == base \in {<<>>, <<"">>}

\* Mutant: a directory claimed without a glob covers what lies beneath it.
PlainDirectoryCovers(leftPath, rightPath) ==
    LET left == pathBase(leftPath)
        right == pathBase(rightPath)
    IN  /\ ~IsEmptyBase(left.base)
        /\ ~IsEmptyBase(right.base)
        /\ \/ left.base = right.base
           \/ Beneath(left.base, right.base)
           \/ Beneath(right.base, left.base)

pathsOverlap(leftPath, rightPath) ==
    LET left == pathBase(leftPath)
        right == pathBase(rightPath)
    IN  /\ ~IsEmptyBase(left.base)
        /\ ~IsEmptyBase(right.base)
        /\ \/ left.base = right.base
           \/ left.glob /\ Beneath(left.base, right.base)
           \/ right.glob /\ Beneath(right.base, left.base)

\* The first kind of anchor either scope carries decides alone: task id, then
\* ref, then path, then description.
scopesOverlap(left, right) ==
    /\ left.layer = right.layer
    /\ IF {left.task_id, right.task_id} # {Absent} THEN left.task_id = right.task_id
       ELSE IF {left.ref, right.ref} # {Absent} THEN left.ref = right.ref
       ELSE IF {left.path, right.path} # {<<>>} THEN pathsOverlap(left.path, right.path)
       ELSE left.description = right.description /\ left.description # Absent

-----------------------------------------------------------------------------
(***************************************************************************)
(* The reference: what a shell would match.  "*" is one segment, "**" any  *)
(* number, wherever they stand.                                            *)
(***************************************************************************)
Matches(pattern, file) ==
    LET reach[i \in 0..Len(pattern)] ==   \* how far the first i segments may get
            IF i = 0 THEN {0}
            ELSE LET before == reach[i - 1]
                 IN  {j \in 0..Len(file) :
                         IF pattern[i] = "**" THEN \E k \in before : k <= j
                         ELSE j > 0 /\ j - 1 \in before /\ pattern[i] \in {"*", file[j]}}
    IN  Len(file) \in reach[Len(pattern)]

\* A final "/*" read as deep as "/**".
Deepened(p) ==
    LET q == DropTrailingSlash(p)
    IN  IF IsGlob(q) THEN Append(Front(q), "**") ELSE q

ShareFile(leftPath, rightPath, files) ==
    \E f \in files : Matches(Deepened(leftPath), f) /\ Matches(Deepened(rightPath), f)

\* A path that normalizePathLike leaves: only its first and last segment can be empty.
IsPath(p) == p \notin {<<>>, <<"">>} /\ \A i \in DOMAIN p : p[i] = "" => i \in {1, Len(p)}

\* The patterns on which the code promises anything: a non-empty literal prefix
\* with at most a wildcard at its end ("glob-like prefix", schemas.ts).
IsPrefixPattern(p) ==
    LET base == pathBase(p).base
    IN  IsPath(p) /\ ~IsEmptyBase(base) /\ \A i \in DOMAIN base : base[i] \notin {"*", "**"}

\* A file has no wildcard and no trailing "/".
IsFile(f) ==
    f # <<>> /\ \A i \in DOMAIN f : f[i] \notin {"*", "**"} /\ (f[i] = "" => i = 1)
=============================================================================
