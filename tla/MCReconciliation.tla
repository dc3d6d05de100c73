-------------------------- MODULE MCReconciliation --------------------------
(* One chain of compiler builds for one task, half way and published, with   *)
(* the calls that continue, revise or judge it.                              *)
EXTENDS Reconciliation

BuildFile(loop, n) == <<".codewiki", "builds", loop, n>>
F1 == BuildFile("feedback", "f1")
F2 == BuildFile("feedback", "f2")
D1 == BuildFile("documentation", "d1")
P1 == BuildFile("planning", "p1")
I1 == BuildFile("implementation", "i1")
I2 == BuildFile("implementation", "i2")
Code == <<"src", "a.ts">>
Doc  == <<".codewiki", "kb", "system", "a.md">>
T1   == "TASK-001"

Input(kind, path, state, source) ==
  [kind |-> kind, path |-> path, state |-> state, source |-> source,
   approved |-> TRUE, decisions |-> TRUE, delta |-> TRUE, tasks |-> {T1},
   knowledge |-> {Doc}, code |-> {Code}, tests |-> {<<"tests", "a.ts">>},
   validation |-> {}, closure |-> "full", ready |-> TRUE, supersedes |-> {},
   semantic |-> TRUE, safe |-> FALSE, reviews |-> TRUE, commit |-> FALSE]

Feedback  == Input("feedback", F1, "accepted", {})
Documents == [Input("documentation", D1, "accepted", {F1}) EXCEPT !.tasks = {}]
Plan      == Input("planning", P1, "accepted", {D1})
Implement == Input("implementation", I1, "accepted", {P1})
Published == [Implement EXCEPT !.safe = TRUE]
Revised   == [Implement EXCEPT !.path = I2, !.supersedes = {I1}]
Shelved   == [Plan EXCEPT !.state = "proposed"]
Unapproved == [Feedback EXCEPT !.path = F2, !.approved = FALSE, !.supersedes = {F1}]

MCBuildInputs == {Revised, Shelved, Unapproved}

Fresh == [given |-> TRUE, fresh |-> TRUE, clean |-> "yes", immutable |-> TRUE, worktree |-> FALSE]
Report(profile, verdict, source) ==
  [profile |-> profile, verdict |-> verdict, task |-> T1, source |-> source,
   isolation |-> Fresh, audits |-> RequiredAudits[profile]]
MCReportInputs ==
  {Report("implementation", "pass", {I1}),
   Report("implementation", "fail", {I1}),
   [Report("implementation", "pass", {I1}) EXCEPT !.isolation.fresh = FALSE]}

Empty ==
  [builds |-> [p \in {} |-> 0], reports |-> [p \in {} |-> 0],
   tasks |-> (T1 :> [status |-> "in_progress", specs |-> {Doc}, code |-> {Code},
                       kind |-> "implementation", labels |-> {},
                       wording |-> FALSE, delegated |-> 0, acceptance |-> 1]),
   archived |-> {}, sprints |-> ("SPR-1" :> [status |-> "planned", tasks |-> {T1}]),
   docs |-> (Doc :> {Code}), lint |-> {[kind |-> "missing-code-path", path |-> Doc]}]
World(f) ==
  [builds |-> f.builds, reports |-> f.reports, tasks |-> f.tasks, archived |-> f.archived,
   dirty |-> {}, docs |-> f.docs, sprints |-> f.sprints, lint |-> f.lint, files |-> {Code, Doc}]
After(f, ins) ==
  FoldLeft(LAMBDA g, in : [g EXCEPT !.builds = Put(@, in.path, NewBuild(World(g), in))], f, ins)
Judged(f, in) ==
  LET r == NewReport(World(f), in) IN [f EXCEPT !.reports = Put(@, ReportPath(r), r)]

HalfWay == After(Empty, <<Feedback, Documents, Plan, Implement>>)
Done    == Judged(After(Empty, <<Feedback, Documents, Plan, Published>>),
                  Report("task-close", "pass", {I1}))
MCSeeds   == {[files |-> HalfWay, committed |-> {}],
              [files |-> Done, committed |-> DOMAIN Done.builds \cup DOMAIN Done.reports]}
MCTaskIds == <<T1>>
MCAgencyInputs ==
  [mode : {"", "observe", "work", "maintain"}, trigger : Triggers,
   scope : {<<"roadmap", "">>, <<"task", T1>>, <<"sprint", "SPR-1">>}, sessions : {1, 2}]
MCSymmetry == Permutations(Handlers) \cup Permutations(LedgerNames)
MCSources == {Code, Doc}

\* git sorts by the bytes of a path.  The order is worked out once.
Segments ==
  <<".codewiki", "TASK-001", "a.md", "a.ts", "block", "builds", "d1", "documentation",
    "f1", "f2", "fail", "feedback", "i1", "i2", "implementation", "kb", "p1", "pass",
    "planning", "queue.json", "roadmap", "src", "system", "task-close", "validation">>
Rank == [s \in Range(Segments) |-> SelectInSeq(Segments, LAMBDA x : x = s)]
Files ==
  {F1, F2, D1, P1, I1, I2, Code, Doc, Queue}
    \cup {ReportPath(in) : in \in MCReportInputs \cup {Report("task-close", "pass", {I1})}}
GitOrder ==
  {pq \in Files \X Files :
     \E i \in DOMAIN pq[1] \cap DOMAIN pq[2] :
       /\ Rank[pq[1][i]] < Rank[pq[2][i]]
       /\ \A j \in 1 .. i - 1 : pq[1][j] = pq[2][j]}
MCPrecedes(p, q) == <<p, q>> \in GitOrder
MCWritable == {Doc}

=============================================================================
