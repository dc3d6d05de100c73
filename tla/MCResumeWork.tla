---------------------------- MODULE MCResumeWork ----------------------------
(***************************************************************************)
(* ResumeWork on two tasks, one for a source tree and one for a file of    *)
(* it, which therefore exclude each other; each also claims itself. The    *)
(* claims of the tools are to write the file.                              *)
(***************************************************************************)
EXTENDS ResumeWork

Path(p) == [layer |-> "code", task_id |-> Absent, ref |-> Absent, path |-> p, description |-> Absent]
Self(name) == [layer |-> "roadmap", task_id |-> name, ref |-> Absent, path |-> <<>>, description |-> Absent]

Tree == Path(<<"src", "**">>)
FileA == Path(<<"src", "a">>)

MCScope == {Tree, FileA, Self("TASK-001"), Self("TASK-002")}
MCAsk == {[mode |-> "write", scopes |-> {FileA}]}
MCScopesOf == <<{Tree, Self("TASK-001")}, {FileA, Self("TASK-002")}>>
MCExecutable == {1, 2}

Symmetry == Permutations(Session)
=============================================================================
