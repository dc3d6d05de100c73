---------------------------- MODULE MCClaimsStore ----------------------------
(***************************************************************************)
(* ClaimsStore on two sessions, in one process or in two, that ask for a   *)
(* source tree and a file of it.                                           *)
(***************************************************************************)
EXTENDS ClaimsStore

CONSTANTS s1, s2, p1, p2

Path(p) == [layer |-> "code", task_id |-> Absent, ref |-> Absent, path |-> p, description |-> Absent]

Tree == Path(<<"src", "**">>)
FileA == Path(<<"src", "a">>)

MCScope == {Tree, FileA}
WriteTree == [mode |-> "write", scopes |-> {Tree}]
WriteFile == [mode |-> "write", scopes |-> {FileA}]
ReadTree == [mode |-> "read", scopes |-> {Tree}]
MCAsk == {WriteTree, WriteFile, ReadTree}

claimOf(ask, force) == [action |-> "claim", ask |-> ask, ttl |-> 2, force |-> force]

MCCall ==
    {claimOf(WriteTree, FALSE), claimOf(WriteFile, FALSE), claimOf(WriteFile, TRUE), claimOf(ReadTree, FALSE),
     [action |-> "wait", ask |-> WriteFile, ttl |-> 2],
     [action |-> "release", target |-> OwnRecords],
     [action |-> "release", target |-> [kind |-> "claim", id |-> 1]],
     [action |-> "heartbeat", target |-> OwnRecords, ttl |-> 2],
     [action |-> "list"]}

OneProcess == [s \in {s1, s2} |-> p1]
Symmetry == Permutations({s1, s2})

TwoProcesses == [s \in {s1, s2} |-> IF s = s1 THEN p1 ELSE p2]
=============================================================================
