--------------------------- MODULE AlignmentGraph ---------------------------
(* The derived graph of src/src/application/graph.ts as operators over a     *)
(* workspace w, the record of what a rebuild reads:                          *)
(*   builds   path -> build artifact        (.codewiki/builds/<loop>/)       *)
(*   reports  path -> validation report     (.codewiki/validation/)          *)
(*   tasks    id -> [status, specs, code]   (roadmap/queue.json)             *)
(*   sprints  id -> [status, tasks]         (roadmap/queue.json)             *)
(*   archived the ids in roadmap/archive.jsonl                               *)
(*   dirty    the modified paths, as the code makes them of git's list       *)
(*   docs     path -> the code paths the document maps                       *)
(*   lint     the issues [kind, path] of the lint report                     *)
(* A path is the sequence of its segments.  Nothing here changes state: the  *)
(* module Reconciliation has the handlers that write these files.            *)
EXTENDS Naturals, Sequences, FiniteSets, SequencesExt

CONSTANT Generated      \* the scopes configured as generated (read-only) paths

-----------------------------------------------------------------------------
(* Vocabulary *)

OpenStatuses == {"todo", "in_progress", "blocked"}

Loops == <<"feedback", "documentation", "planning", "implementation",
           "validation", "observe">>

\* The lifecycle states a downstream reader takes as accepted intent.
AcceptedStates == {"accepted", "applied", "validated", "consumed", "archived"}
CompleteStates == {"consumed", "validated", "archived", "purged"}

IsOpen(w, t)        == t \in DOMAIN w.tasks /\ w.tasks[t].status \in OpenStatuses
PathsOverlap(p, q)  == IsPrefix(p, q) \/ IsPrefix(q, p)
\* normalizeScopePath: with and without its dot, the data directory is the same.
Normal(p)           == IF IsPrefix(<<".codewiki">>, p) THEN [p EXCEPT ![1] = "codewiki"] ELSE p
IsGenerated(p)      == \E g \in Generated : IsPrefix(Normal(g), Normal(p))
IsData(p)           == IsPrefix(<<".codewiki">>, p) \/ IsPrefix(<<"codewiki">>, p)
SourceDirty(w)      == {p \in w.dirty : ~IsGenerated(p) /\ ~IsData(p)}
IsPathDirty(w, p)   == ~IsGenerated(p) /\ \E d \in SourceDirty(w) : PathsOverlap(d, p)
Superseded(w, p)    == \E q \in DOMAIN w.builds : p \in w.builds[q].supersedes

SemanticRoots ==
  << [root |-> <<".codewiki", "kb", "product">>,        type |-> "product"],
     [root |-> <<".codewiki", "kb", "system">>,         type |-> "system"],
     [root |-> <<".codewiki", "kb", "lexicon.md">>,     type |-> "system"],
     [root |-> <<".codewiki", "roadmap", "queue.json">>, type |-> "task"],
     [root |-> <<"package.json">>,                      type |-> "system"],
     [root |-> <<"package-lock.json">>,                 type |-> "system"],
     [root |-> <<"skills", "codewiki">>,                type |-> "system"],
     [root |-> <<"src", "application", "tools", "audit.ts">>, type |-> "system"],
     [root |-> <<"scripts", "check-architecture.mjs">>, type |-> "system"],
     [root |-> <<"tests">>,                             type |-> "code"],
     [root |-> <<"src">>,                               type |-> "code"],
     [root |-> <<"scripts">>,                           type |-> "code"],
     [root |-> <<"README.md">>,                         type |-> "system"],
     [root |-> <<"docs">>,                              type |-> "system"] >>

\* "none" for everything under .codewiki that is generated, runtime or evidence.
SemanticType(p) ==
  LET i == SelectInSeq(SemanticRoots, LAMBDA r : IsPrefix(r.root, p))
  IN  IF IsGenerated(p) \/ i = 0 THEN "none" ELSE SemanticRoots[i].type

-----------------------------------------------------------------------------
(* What one build says of itself *)

HasLedger(b)         == b.tasks # {} /\ b.archive_ref
HasDigests(b)        == b.digests
SafeToPush(b)        == b.safe
HasRoadmapChanges(b) == b.changes \/ b.roadmap # {}
HasDelta(b)          == b.delta \/ b.roadmap # {} \/ b.code # {} \/ b.tests # {}
PublicationClaims(b) == b.published \/ SafeToPush(b)
HasContentProof(b)   == HasDigests(b) \/ b.archive_ref \/ b.commit
Covered(b)           == b.code \cup b.tests \cup b.knowledge

\* buildCoversSemanticPath: an accepted semantic build that cites the path, or
\* for the queue any roadmap task.
Covers(b, p) ==
  /\ b.state \in AcceptedStates
  /\ b.semantic
  /\ \/ \E r \in Covered(b) : PathsOverlap(r, p)
     \/ p = <<".codewiki", "roadmap", "queue.json">> /\ b.roadmap \cup b.tasks # {}

-----------------------------------------------------------------------------
(* Downstream of a build: the three indexes of buildGraph *)

OfKind(w, kind) == {p \in DOMAIN w.builds : w.builds[p].kind = kind}

DocumentationOf(w, f) ==
  {p \in OfKind(w, "documentation_build") : f \in w.builds[p].feedback}
PlanningOf(w, d) ==
  {p \in OfKind(w, "planning_build") : d \in w.builds[p].documentation}
ImplementationOf(w, u) ==
  {p \in OfKind(w, "implementation_build") :
     u \in w.builds[p].planning \cup w.builds[p].documentation \cup w.builds[p].feedback}

\* hasPassingValidationForBuild
Validated(w, p) ==
  LET b == w.builds[p] IN
  \/ b.verdict = "pass"
  \/ HasLedger(b) /\ SafeToPush(b)
  \/ /\ b.kind = "implementation_build"
     /\ b.tasks # {}
     /\ \A t \in b.tasks : t \in w.archived \/ ~IsOpen(w, t)
  \/ \E v \in DOMAIN w.reports :
       LET r == w.reports[v] IN
       /\ r.verdict = "pass"
       /\ \/ p \in r.source
          \/ v \in b.validation
          \/ /\ r.source = {}
             /\ r.task \in b.tasks
             /\ r.profile \in {"implementation", "task-close"}

Consumed(w, p) ==
  LET b == w.builds[p] IN
  CASE b.kind = "feedback_build" ->
         \/ DocumentationOf(w, p) # {}
         \/ ImplementationOf(w, p) # {}
         \/ Validated(w, p)
    [] b.kind = "documentation_build" ->
         \/ PlanningOf(w, p) # {}
         \/ HasRoadmapChanges(b)
         \/ ImplementationOf(w, p) # {}
         \/ Validated(w, p)
         \/ ~ \E f \in b.feedback \cap DOMAIN w.builds : HasDelta(w.builds[f])
    [] b.kind = "planning_build" ->
         \/ HasRoadmapChanges(b)
         \/ ImplementationOf(w, p) # {}
         \/ Validated(w, p)
    [] OTHER -> FALSE

LinkedToOpenTask(w, p) ==
  \/ \E t \in w.builds[p].tasks : IsOpen(w, t)
  \/ \E t \in DOMAIN w.tasks :
       IsOpen(w, t) /\ p \in w.tasks[t].specs \cup w.tasks[t].code

\* normalizeCodewikiRef
Ref(d) ==
  IF IsPrefix(<<"codewiki">>, d) THEN [d EXCEPT ![1] = ".codewiki"]
  ELSE IF IsPrefix(<<"builds">>, d) \/ IsPrefix(<<"validation">>, d) THEN <<".codewiki">> \o d
  ELSE d

BuildDirty(w, p) == \E d \in w.dirty : Ref(d) = p

\* Once anything is archived, a clean build without open work is history.
HistoricalCold(w, p) ==
  /\ w.archived # {}
  /\ ~BuildDirty(w, p)
  /\ ~LinkedToOpenTask(w, p)
  /\ w.builds[p].state \in {"accepted", "applied", "validated", "archived"}

-----------------------------------------------------------------------------
(* Reconciliation items: what is out of step, and the loop that repairs it.  *)
(* kind and about make the item's id; layers are those it marks as drifting. *)

Item(kind, about, loop, state, layers) ==
  [kind |-> kind, about |-> about, loop |-> loop, state |-> state, layers |-> layers]

\* Mutant: implementation builds are left to the task items.
BuildLoopOpen(w, p) ==
  LET b == w.builds[p] IN
  CASE b.kind = "feedback_build" /\ b.state = "proposed" -> "feedback"
    [] b.kind = "feedback_build" /\ b.state = "accepted" /\ ~Consumed(w, p) -> "documentation"
    [] b.kind # "feedback_build" /\ b.state = "accepted" /\ ~Consumed(w, p)
         /\ b.kind # "implementation_build" -> "planning"
    [] OTHER -> "observe"

BuildLoop(w, p) ==
  LET b == w.builds[p] IN
  CASE b.kind = "feedback_build" /\ b.state = "proposed" -> "feedback"
    [] b.kind = "feedback_build" /\ b.state = "accepted" /\ ~Consumed(w, p) -> "documentation"
    [] b.kind = "documentation_build" /\ b.state = "accepted" /\ ~Consumed(w, p) -> "planning"
    [] b.kind = "planning_build" /\ b.state = "accepted" /\ ~Consumed(w, p) -> "planning"
    [] b.kind = "implementation_build" /\ b.state = "accepted" /\ ~Validated(w, p) -> "validation"
    [] b.kind # "feedback_build" /\ b.state = "applied" /\ ~Validated(w, p) -> "validation"
    [] OTHER -> "observe"

BuildLayers(w, p) ==
  IF BuildLoop(w, p) = "validation" THEN {"build", "validation"}
  ELSE [feedback_build |-> {"intent", "knowledge"},
        documentation_build |-> {"knowledge", "roadmap"},
        planning_build |-> {"roadmap", "code"}][w.builds[p].kind]

Routable(w, p) == ~Superseded(w, p) /\ ~HistoricalCold(w, p)

BuildItems(w) ==
  {Item("build", p, BuildLoop(w, p), "drift", BuildLayers(w, p)) :
     p \in {q \in DOMAIN w.builds : Routable(w, q) /\ BuildLoop(w, q) # "observe"}}

PublicationItems(w) ==
  {Item("publication-proof", p, "validation", "drift", {"publication", "content_proof"}) :
     p \in {q \in DOMAIN w.builds :
              /\ Routable(w, q)
              /\ w.builds[q].state \notin CompleteStates
              /\ PublicationClaims(w.builds[q])
              /\ ~HasContentProof(w.builds[q])}}

SemanticLoop ==
  [product |-> "feedback", system |-> "feedback", task |-> "planning", code |-> "implementation"]

SemanticItems(w) ==
  {Item("semantic-build", p, SemanticLoop[SemanticType(p)], "drift",
        {IF SemanticType(p) = "code" THEN "code"
         ELSE IF SemanticType(p) = "task" THEN "roadmap" ELSE "knowledge", "build"}) :
     p \in {q \in w.dirty : /\ SemanticType(q) # "none"
                            /\ ~ \E b \in DOMAIN w.builds : Covers(w.builds[b], q)}}

-----------------------------------------------------------------------------
(* Traceability: what of the chain below a feedback build is missing *)

Union(S, F(_)) == UNION {F(x) : x \in S}

PlanningBelow(w, f)  == Union(DocumentationOf(w, f), LAMBDA d : PlanningOf(w, d))
TasksBelow(w, f)     ==
  Union(DocumentationOf(w, f), LAMBDA d : w.builds[d].roadmap)
    \cup Union(PlanningBelow(w, f), LAMBDA q : w.builds[q].tasks)
ImplementedBelow(w, f) ==
  LET plans == PlanningBelow(w, f)
      docs  == DocumentationOf(w, f)
  IN {p \in OfKind(w, "implementation_build") :
        \/ w.builds[p].planning \cap plans # {}
        \/ w.builds[p].documentation \cap docs # {}}

Traced(w, f) ==
  /\ Routable(w, f)
  /\ \/ ~Consumed(w, f)
     \/ LinkedToOpenTask(w, f)
     \/ BuildDirty(w, f)
     \/ \E t \in TasksBelow(w, f) : IsOpen(w, t)
     \/ HasDelta(w.builds[f]) /\ \E d \in DocumentationOf(w, f) : ~Consumed(w, d)

TraceGaps(w, f) ==
  LET impl  == ImplementedBelow(w, f)
      tasks == TasksBelow(w, f)
      reported == \E p \in impl :
                    \/ w.builds[p].validation # {}
                    \/ w.builds[p].verdict = "pass"
                    \/ \E v \in DOMAIN w.reports : p \in w.reports[v].source
  IN {g \in {"documentation_build", "planning_build", "implementation_build",
             "test_evidence", "validation_evidence", "publication_content_proof"} :
      CASE g = "documentation_build" -> DocumentationOf(w, f) = {}
        [] g = "planning_build" ->
             HasDelta(w.builds[f]) /\ tasks = {} /\ PlanningBelow(w, f) = {}
        [] g = "implementation_build" -> tasks # {} /\ impl = {}
        [] g = "test_evidence" -> impl # {} /\ \A p \in impl : w.builds[p].tests = {}
        [] g = "validation_evidence" -> impl # {} /\ ~reported
        [] g = "publication_content_proof" ->
             /\ \E p \in impl : PublicationClaims(w.builds[p])
             /\ ~ \E p \in impl : HasContentProof(w.builds[p])}

TraceLoop(gaps) ==
  IF "documentation_build" \in gaps THEN "documentation"
  ELSE IF "planning_build" \in gaps THEN "planning"
  ELSE IF gaps \cap {"validation_evidence", "publication_content_proof"} # {} THEN "validation"
  ELSE "implementation"

TraceItem(f, gaps) ==
  Item("traceability", f, TraceLoop(gaps), "drift",
       {"intent",
        IF "publication_content_proof" \in gaps THEN "content_proof"
        ELSE IF "validation_evidence" \in gaps THEN "validation"
        ELSE IF gaps \cap {"implementation_build", "test_evidence"} # {} THEN "code"
        ELSE "knowledge"})

TraceItems(w) ==
  {TraceItem(f, TraceGaps(w, f)) :
     f \in {p \in OfKind(w, "feedback_build") : Traced(w, p) /\ TraceGaps(w, p) # {}}}

-----------------------------------------------------------------------------
(* Reports, lint, roadmap and code *)

\* A pass for the same task, profile and source answers a failed or blocked
\* report, whichever of the two came first.
Answered(w, v) ==
  \E u \in DOMAIN w.reports \ {v} :
    LET r == w.reports[v]
        s == w.reports[u]
    IN  /\ s.verdict = "pass"
        /\ s.task = r.task
        /\ s.profile = r.profile
        /\ s.source = r.source

ReportRoutes(w, v) ==
  LET r == w.reports[v] IN
  /\ r.verdict \in {"fail", "block"}
  /\ r.task # "" => IsOpen(w, r.task)
  /\ ~(r.verdict = "block" /\ r.task = "")
  /\ ~Answered(w, v)

ReportItems(w) ==
  {IF w.reports[v].verdict = "block"
   THEN Item("validation", v, "feedback", "blocked", {"validation", "feedback"})
   ELSE Item("validation", v, "documentation", "drift", {"validation", "documentation"}) :
     v \in {u \in DOMAIN w.reports : ReportRoutes(w, u)}}

LintItems(w) ==
  {Item("lint", i.path, "documentation", "drift", {"knowledge", "roadmap"}) :
     i \in {j \in w.lint : /\ j.kind # "large-doc"
                           /\ ~ \E t \in DOMAIN w.tasks :
                                  IsOpen(w, t) /\ j.path \in w.tasks[t].specs}}

AwaitsGateway(w, t) ==
  \E p \in OfKind(w, "implementation_build") :
    /\ t \in w.builds[p].tasks
    /\ w.builds[p].state \in {"accepted", "applied"}
    /\ ~Validated(w, p)

TaskItems(w) ==
  {Item("task", <<t>>, "implementation",
        IF w.tasks[t].status = "blocked" THEN "blocked" ELSE "drift", {"roadmap", "code"}) :
     t \in {u \in DOMAIN w.tasks : IsOpen(w, u) /\ ~AwaitsGateway(w, u)}}

MappedCode(w) == Union(DOMAIN w.docs, LAMBDA d : w.docs[d])

CodeItems(w) ==
  {Item("code", c, "documentation", "drift", {"code", "knowledge"}) :
     c \in {p \in MappedCode(w) :
       /\ IsPathDirty(w, p)
       /\ ~ \E b \in OfKind(w, "implementation_build") :
              /\ Validated(w, b)
              /\ \E r \in w.builds[b].code \cup w.builds[b].tests : PathsOverlap(r, p)
       /\ ~ \E t \in DOMAIN w.tasks :
              /\ IsOpen(w, t)
              /\ \/ \E d \in w.tasks[t].specs \cap DOMAIN w.docs : p \in w.docs[d]
                 \/ \E s \in w.tasks[t].code : PathsOverlap(s, p)}}

Items(w) ==
  BuildItems(w) \cup PublicationItems(w) \cup SemanticItems(w) \cup TraceItems(w)
    \cup ReportItems(w) \cup LintItems(w) \cup TaskItems(w) \cup CodeItems(w)

-----------------------------------------------------------------------------
(* The views other components read *)

\* The first loop in order of priority that has an item; which of its items is
\* named is a matter of the ids' alphabetical order and left open.
NextLoop(w) ==
  LET needed == {it.loop : it \in Items(w)}
      i == SelectInSeq(Loops, LAMBDA l : l \in needed)
  IN  IF i = 0 THEN "observe" ELSE Loops[i]
NextItems(w) == {it \in Items(w) : it.loop = NextLoop(w)}

Drifting(w) ==
  {"intent", "knowledge", "roadmap", "code", "validation"} \cap Union(Items(w), LAMBDA it : it.layers)

CompactCold(w, p) ==
  /\ w.builds[p].kind = "implementation_build"
  /\ HasLedger(w.builds[p])
  /\ Validated(w, p) \/ w.builds[p].state \in CompleteStates

\* Mutant: a digested ledger is proof enough, validated or not.
LedgerPurgeable(w, p) == HasLedger(w.builds[p]) /\ HasDigests(w.builds[p])
ArchivePurgeable(w, p) ==
  CompactCold(w, p) /\ HasDigests(w.builds[p]) /\ SafeToPush(w.builds[p])

HotBuilds(w) ==
  {p \in DOMAIN w.builds :
     Routable(w, p) /\ w.builds[p].state \notin CompleteStates
       /\ ~Validated(w, p) /\ ~Consumed(w, p)}
HotReports(w) ==
  {v \in DOMAIN w.reports :
     /\ w.reports[v].verdict \in {"fail", "block"}
     /\ w.reports[v].task # "" => IsOpen(w, w.reports[v].task)}

PurgeableBuilds(w) ==
  {p \in DOMAIN w.builds : w.builds[p].state = "purged" \/ ArchivePurgeable(w, p)}
PurgeableReports(w) ==
  LET archivedTasks == Union({p \in DOMAIN w.builds : HasLedger(w.builds[p]) /\ SafeToPush(w.builds[p])},
                             LAMBDA p : w.builds[p].tasks)
      gone == PurgeableBuilds(w)
  IN {v \in DOMAIN w.reports :
        /\ w.reports[v].verdict = "pass"
        /\ \/ w.reports[v].task \in archivedTasks
           \/ w.reports[v].source \cap gone # {}}
BlockedPurge(w) == {p \in DOMAIN w.builds : CompactCold(w, p) /\ ~ArchivePurgeable(w, p)}
WarmBuilds(w) ==
  {p \in DOMAIN w.builds : w.builds[p].state = "accepted"}
    \ (HotBuilds(w) \cup PurgeableBuilds(w))
ColdBuilds(w) ==
  {p \in DOMAIN w.builds : w.builds[p].state \in CompleteStates \/ Validated(w, p)}

ActiveSprints(w) ==
  {s \in DOMAIN w.sprints :
     /\ w.sprints[s].status \notin {"closed", "cancelled"}
     /\ w.sprints[s].status = "active" \/ \E t \in w.sprints[s].tasks : IsOpen(w, t)}

\* workflow_cursor: the loop to run, in a sprint, else a task, else the roadmap.
CursorScopes(w) ==
  IF ActiveSprints(w) # {} THEN {<<"sprint", s>> : s \in ActiveSprints(w)}
  ELSE IF \E t \in DOMAIN w.tasks : IsOpen(w, t)
       THEN {<<"task", t>> : t \in {u \in DOMAIN w.tasks : IsOpen(w, u)}}
  ELSE {<<"roadmap", "">>}
CursorOutput ==
  [feedback |-> "feedback_build", documentation |-> "documentation_build",
   planning |-> "planning_build", implementation |-> "implementation_build",
   validation |-> "validation_report", observe |-> "observation"]
FreshContext(loop) == loop # "observe"

=============================================================================
