--------------------------- MODULE CompilerBuilds ---------------------------
(* What src/src/application/builds.ts writes: the four compiler builds and   *)
(* the validation report, as operators from a tool input to the record that  *)
(* lands in the file, with the reasons for which a call is refused or a      *)
(* verdict is turned into a block.  w is the workspace of AlignmentGraph.    *)
(* An input has                                                              *)
(*   kind, state, source   the loop, lifecycle.state, the upstream builds    *)
(*   approved, decisions   feedback: approved diff rows, explicit decisions  *)
(*   delta, tasks          what it asks of, or does to, roadmap and code     *)
(*   knowledge, code, tests, validation   the paths it records               *)
(*   closure               implementation: "none", "partial" or "full"       *)
(*   ready                 acceptance mapping and checks are given           *)
(*   supersedes, semantic  cycle.supersedes; no exemption is claimed         *)
(*   safe, reviews, commit publication: flag, the three reviews, commit_sha  *)
(* and a report input profile, verdict, task, source, isolation, audits.     *)
EXTENDS AlignmentGraph

UpstreamLoop ==
  [feedback |-> "none", documentation |-> "feedback",
   planning |-> "documentation", implementation |-> "planning"]

KindOf == [feedback |-> "feedback_build", documentation |-> "documentation_build",
           planning |-> "planning_build", implementation |-> "implementation_build"]
LoopOf(b) == CHOOSE l \in DOMAIN KindOf : KindOf[l] = b.kind

-----------------------------------------------------------------------------
(* The writers *)

Refused(in) ==
  CASE in.kind = "feedback" ->
         \/ in.state = "accepted" /\ ~in.approved
         \/ ~in.decisions /\ ~in.approved
    [] in.kind = "implementation" ->
         \/ in.tasks = {}
         \/ in.state = "accepted" /\ in.closure = "none"
         \/ in.closure = "partial"
    [] OTHER -> in.source = {}

BlankBuild(in) ==
  [kind |-> KindOf[in.kind], state |-> in.state,
   feedback |-> {}, documentation |-> {}, planning |-> {},
   tasks |-> {}, roadmap |-> {}, changes |-> FALSE, delta |-> FALSE,
   knowledge |-> {}, code |-> {}, tests |-> {}, validation |-> {},
   semantic |-> in.semantic, supersedes |-> in.supersedes, verdict |-> "",
   ready |-> FALSE, archive_ref |-> FALSE, digests |-> FALSE,
   safe |-> FALSE, published |-> FALSE, commit |-> FALSE]

FeedbackBuild(in) == [BlankBuild(in) EXCEPT !.delta = in.delta]

DocumentationBuild(in) ==
  [BlankBuild(in) EXCEPT !.feedback = in.source, !.knowledge = in.knowledge,
                         !.tasks = in.tasks, !.roadmap = in.tasks,
                         !.changes = in.tasks # {}]

PlanningBuild(in) ==
  [BlankBuild(in) EXCEPT !.documentation = in.source, !.tasks = in.tasks,
                         !.roadmap = in.tasks, !.code = in.code, !.tests = in.tests,
                         !.ready = in.ready]

\* buildArtifactDigests skips what it cannot read: one readable file is enough.
DigestedFiles(w, in) ==
  (in.source \cap DOMAIN w.builds) \cup (in.validation \cap DOMAIN w.reports)
    \cup ((in.code \cup in.tests) \cap w.files)

\* publicationDefaults: the archive ref has a default and is always there.
SafePublication(in) == in.safe /\ in.reviews

ImplementationBuild(w, in) ==
  [BlankBuild(in) EXCEPT !.planning = in.source, !.tasks = in.tasks,
                         !.code = in.code, !.tests = in.tests,
                         !.validation = in.validation,
                         !.ready = in.ready /\ in.closure = "full",
                         !.archive_ref = TRUE,
                         !.digests = DigestedFiles(w, in) # {},
                         !.safe = SafePublication(in), !.commit = in.commit]

NewBuild(w, in) ==
  CASE in.kind = "feedback"       -> FeedbackBuild(in)
    [] in.kind = "documentation"  -> DocumentationBuild(in)
    [] in.kind = "planning"       -> PlanningBuild(in)
    [] in.kind = "implementation" -> ImplementationBuild(w, in)

-----------------------------------------------------------------------------
(* The upstream a build rests on: one loop up and no further *)

UpstreamRefs(b) ==
  LET up == UpstreamLoop[LoopOf(b)]
  IN  IF up = "none" THEN {} ELSE b[up]

Readable(w, p) == p \in DOMAIN w.builds

\* Mutant: it is enough that the builds are there.
ReadableRefGaps(w, refs) ==
  IF refs = {} THEN {"missing"}
  ELSE {"unreadable" : p \in {q \in refs : ~Readable(w, q)}}
AcceptedRefGaps(w, refs) ==
  IF refs = {} THEN {"missing"}
  ELSE {IF Readable(w, p) THEN "not_accepted" ELSE "unreadable" :
          p \in {q \in refs : ~Readable(w, q) \/ w.builds[q].state \notin AcceptedStates}}

SemanticGaps(w, b) ==
  IF b.semantic /\ UpstreamLoop[LoopOf(b)] # "none"
  THEN AcceptedRefGaps(w, UpstreamRefs(b)) ELSE {}

-----------------------------------------------------------------------------
(* The validation gateway's report *)

ImmutableProfiles == {"task-close", "publication", "publish", "release"}
TracedProfiles    == ImmutableProfiles \cup {"implementation"}

RequiredAudits ==
  [feedback |-> {"alignment"}, documentation |-> {"alignment", "stale-reference"},
   planning |-> {"alignment"}, implementation |-> {"alignment", "changed"},
   publication |-> {"alignment", "package", "security"},
   publish |-> {"alignment", "package", "security"},
   release |-> {"alignment", "package", "security", "stale-reference"}]
    @@ ("task-close" :> {"alignment", "changed", "task", "generated-parity"})
    @@ ("drift-audit" :> {"alignment", "generated-parity"})
    @@ ("graph-audit" :> {"alignment", "generated-parity"})

\* validationIsolationGaps; isolation.clean is "yes", "no" or "unknown".
IsolationGaps(in) ==
  LET i == in.isolation
      proof == i.immutable \/ i.worktree
      fresh == IF i.fresh THEN {} ELSE {"fresh_context"}
  IN CASE in.profile \in ImmutableProfiles ->
            fresh \cup (IF i.clean = "yes" THEN {} ELSE {"clean"})
                  \cup (IF i.immutable THEN {} ELSE {"immutable_content_proof"})
       [] in.profile = "implementation" ->
            fresh \cup (IF i.clean = "unknown" THEN {"clean"} ELSE {})
                  \cup (IF proof THEN {} ELSE {"checked_content_proof"})
                  \cup (IF i.clean = "no" /\ ~i.worktree THEN {"working_tree_digest"} ELSE {})
       [] OTHER -> {}

SourceOf(in) == CHOOSE p \in in.source : TRUE

\* validationCommitReadinessGaps: not looked at once the isolation is lacking.
ReadinessGaps(w, in) ==
  IF in.profile # "implementation" \/ in.verdict # "pass" \/ IsolationGaps(in) # {} THEN {}
  ELSE IF in.source = {} THEN {"source"}
  ELSE IF ~Readable(w, SourceOf(in)) THEN {"source_readable"}
  ELSE LET b == w.builds[SourceOf(in)] IN
       (IF b.kind = "implementation_build" THEN {} ELSE {"source_kind"})
         \cup (IF b.tasks = {} THEN {"task_id"} ELSE {})
         \cup AcceptedRefGaps(w, b.planning) \cup SemanticGaps(w, b)
         \cup (IF b.code = {} THEN {"code_files"} ELSE {})
         \cup (IF b.tests = {} THEN {"test_files"} ELSE {})
         \cup (IF b.ready THEN {} ELSE {"closure_brief"})

\* validationSemanticTraceability: a report without a source is only warned.
TraceabilityGaps(w, in) ==
  IF in.verdict # "pass" \/ in.profile \notin TracedProfiles \/ in.source = {} THEN {}
  ELSE IF ~Readable(w, SourceOf(in)) THEN {"unreadable"}
  ELSE LET b == w.builds[SourceOf(in)] IN
       (IF b.kind = "implementation_build" THEN {} ELSE {"source_kind"})
         \cup (IF in.task = "" \/ b.tasks = {} \/ in.task \in b.tasks THEN {} ELSE {"task_mismatch"})
         \cup (IF b.state \in AcceptedStates THEN {} ELSE {"source_accepted"})
         \cup SemanticGaps(w, b)

AuditGaps(in) ==
  IF in.verdict = "pass" /\ in.profile \in DOMAIN RequiredAudits
  THEN RequiredAudits[in.profile] \ in.audits ELSE {}

PolicyGaps(w, in) ==
  IsolationGaps(in) \cup ReadinessGaps(w, in) \cup TraceabilityGaps(w, in) \cup AuditGaps(in)

ReportVerdict(w, in) == IF PolicyGaps(w, in) = {} THEN in.verdict ELSE "block"

\* The role of isolation in a report, as the graph summarises it.
IsolationStatus(in) ==
  LET i == in.isolation IN
  IF ~i.given THEN "legacy"
  ELSE IF i.fresh /\ (IF in.profile \in ImmutableProfiles
                      THEN i.clean = "yes" /\ i.immutable
                      ELSE i.clean # "unknown" /\ (i.immutable \/ i.worktree))
       THEN "isolated" ELSE "partial"

NewReport(w, in) ==
  [profile |-> in.profile, verdict |-> ReportVerdict(w, in), task |-> in.task,
   source |-> in.source, isolation |-> IsolationStatus(in)]

\* The file name is the day with profile, verdict and task; not the source.
ReportPath(r) == <<".codewiki", "validation", r.profile, r.verdict, r.task>>

=============================================================================
