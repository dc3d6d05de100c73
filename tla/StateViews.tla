----------------------------- MODULE StateViews -----------------------------
(* The status and roadmap lenses of src/src/application/state-builders.ts,   *)
(* and what the tools make of them: the next action of codewiki_state and    *)
(* the plan of codewiki_agency.  w is the workspace of AlignmentGraph, a     *)
(* lens v what StatusLens makes of it and a rebuild stores.                  *)
(* A rebuild hands the builders an empty list of events, so the parts that   *)
(* only events fill (persisted focus, parallel sessions, loop evidence) are  *)
(* empty here too.  The revision anchors of the agency lanes are left out:   *)
(* PanelViews takes the lanes whose anchor moved as a parameter.             *)
EXTENDS CompilerBuilds

CONSTANT TaskIds      \* every task id there may be, in alphabetical order

\* Ids are not empty: "" stands for no task.
ASSUME TaskIdList ==
  /\ TaskIds \in Seq(Range(TaskIds)) /\ "" \notin Range(TaskIds)
  /\ \A i, j \in 1 .. Len(TaskIds) : TaskIds[i] = TaskIds[j] => i = j

Statuses == OpenStatuses \cup {"done", "cancelled"}

KnowledgeRoot == <<".codewiki", "kb">>
SystemRoot    == Append(KnowledgeRoot, "system")
ProductRoot   == Append(KnowledgeRoot, "product")
UxRoot        == Append(KnowledgeRoot, "ux")

\* Array.filter: what is in S, in the order of the list.
Kept(list, S) ==
  LET upTo[i \in 0 .. Len(list)] ==
        IF i = 0 THEN <<>>
        ELSE IF list[i] \in S THEN Append(upTo[i - 1], list[i])
        ELSE upTo[i - 1]
  IN  upTo[Len(list)]

-----------------------------------------------------------------------------
(* Tasks *)

\* assessRoadmapTaskBoundary: a container groups other tasks.  wording stands
\* for the nine text patterns, delegated for the acceptance criteria that cite
\* the closing of other tasks.
ContainerNames == {"umbrella", "container", "epic", "sprint"}
IsContainer(t) ==
  \/ t.labels \cap ContainerNames # {}
  \/ t.kind \in ContainerNames
  \/ t.wording
  \/ t.delegated >= 2 /\ 2 * t.delegated >= t.acceptance

Stage(status) == IF status \in {"todo", "done"} THEN status ELSE "implement"

\* Tasks are sorted by status, in progress, blocked, todo, and then by id.
OfStatus(w, status) == Kept(TaskIds, {t \in DOMAIN w.tasks : w.tasks[t].status = status})
ActiveTasks(w) == OfStatus(w, "in_progress") \o OfStatus(w, "blocked")
OpenTasks(w)   == ActiveTasks(w) \o OfStatus(w, "todo")

Executable(w)     == {t \in DOMAIN w.tasks : ~IsContainer(w.tasks[t])}
RunnableActive(w) == Kept(ActiveTasks(w), Executable(w))
RunnableTodo(w)   == Kept(OfStatus(w, "todo"), Executable(w))

\* Without a persisted focus: the first runnable task, active ones before todo.
ResumeTask(w) == Append(RunnableActive(w) \o RunnableTodo(w), "")[1]

\* The board: cancelled tasks are on none of its columns.
Column(w, stage) ==
  {t \in DOMAIN w.tasks : w.tasks[t].status # "cancelled" /\ Stage(w.tasks[t].status) = stage}

-----------------------------------------------------------------------------
(* Specifications *)

RequiresMapping(d) ==
  /\ IsStrictPrefix(SystemRoot, d)
  /\ ~IsStrictPrefix(Append(SystemRoot, "diagrams"), d)
  /\ d # Append(SystemRoot, "overview.md")

SpecTasks(w, d, statuses) ==
  {t \in DOMAIN w.tasks : d \in w.tasks[t].specs /\ w.tasks[t].status \in statuses}

SpecIssues(w, d) == {i \in w.lint : i.path = d /\ i.kind # "large-doc"}

SpecDrift(w, d) ==
  LET open == SpecTasks(w, d, {"todo", "in_progress"}) IN
  CASE open = {} /\ SpecTasks(w, d, {"blocked"}) # {} -> "blocked"
    [] open # {} -> "tracked"
    [] OTHER -> IF w.docs[d] = {} /\ RequiresMapping(d) THEN "unmapped"
                ELSE IF SpecIssues(w, d) # {} THEN "untracked"
                ELSE "aligned"

Specs(w, drift) == {d \in DOMAIN w.docs : SpecDrift(w, d) = drift}

\* Agency lanes: the specs of a lane, and the open tasks that touch them.
Lanes == [product_system    |-> {ProductRoot, SystemRoot},
          system_code       |-> {SystemRoot},
          product_system_ux |-> {ProductRoot, SystemRoot, UxRoot}]
LaneSpecs(w, lane) == {d \in DOMAIN w.docs : \E r \in Lanes[lane] : IsStrictPrefix(r, d)}
LaneTasks(w, lane) ==
  {t \in DOMAIN w.tasks :
     /\ IsOpen(w, t)
     /\ \/ w.tasks[t].specs \cap LaneSpecs(w, lane) # {}
        \/ \E d \in LaneSpecs(w, lane) : w.docs[d] \cap w.tasks[t].code # {}}

-----------------------------------------------------------------------------
(* The status lens *)

Step(kind, task) == [kind |-> kind, task |-> task]

NextStep(w) ==
  CASE NextLoop(w) # "observe" -> Step("reconciliation", "")
    [] OTHER ->
         IF Specs(w, "untracked") # {} THEN Step("status", "")
         ELSE IF Specs(w, "blocked") # {} \/ OfStatus(w, "blocked") # <<>>
              THEN Step("status", "")
         ELSE IF RunnableActive(w) # <<>> THEN Step("code", RunnableActive(w)[1])
         ELSE IF RunnableTodo(w) # <<>> THEN Step("code", RunnableTodo(w)[1])
         ELSE Step("observe", "")

StatusLens(w) ==
  [step |-> NextStep(w), resume |-> ResumeTask(w), open |-> OpenTasks(w),
   active |-> ActiveTasks(w), status |-> [t \in DOMAIN w.tasks |-> w.tasks[t].status],
   untracked |-> Specs(w, "untracked"), blocked |-> Specs(w, "blocked"),
   unmapped |-> Specs(w, "unmapped"), issues |-> w.lint,
   todo |-> Column(w, "todo"), implement |-> Column(w, "implement"), done |-> Column(w, "done"),
   lanes |-> [l \in DOMAIN Lanes |->
                [tasks |-> LaneTasks(w, l), risky |-> LaneSpecs(w, l) \ Specs(w, "aligned")]],
   sprints |-> [s \in DOMAIN w.sprints |-> {t \in w.sprints[s].tasks : IsOpen(w, t)}]]

-----------------------------------------------------------------------------
(* What the tools answer from the stored lens *)

\* Mutant: the session's focus is taken without asking whether it is open.
NextActionOfLink(v, link) ==
  LET open == Range(v.open) IN
  CASE link # "" -> Step("resume", link)
    [] link = "" /\ v.resume \in open -> Step("resume", v.resume)
    [] OTHER -> IF v.step.kind = "reconciliation" THEN Step("reconciliation", "")
                ELSE IF v.open # <<>> THEN Step("next_task", v.open[1])
                ELSE IF v.untracked # {} THEN Step("wiki_drift", "")
                ELSE Step("none", "")

\* codewiki_state; link is the task of the session's latest link, or "".
NextAction(v, link) ==
  LET open == Range(v.open) IN
  CASE link \in open -> Step("resume", link)
    [] link \notin open /\ v.resume \in open -> Step("resume", v.resume)
    [] OTHER -> IF v.step.kind = "reconciliation" THEN Step("reconciliation", "")
                ELSE IF v.open # <<>> THEN Step("next_task", v.open[1])
                ELSE IF v.untracked # {} THEN Step("wiki_drift", "")
                ELSE Step("none", "")

\* codewiki_agency; in is [mode, trigger, scope, sessions]: the scope is <<kind, id>>,
\* sessions what budget and configuration allow a sprint.
Triggers == {"manual", "task_end", "sprint_end", "roadmap_end", "budget_end"}
Mode(in) ==
  IF in.mode # "" THEN in.mode
  ELSE CASE in.trigger \in {"task_end", "sprint_end"} -> "work"
         [] in.trigger = "roadmap_end" -> "maintain"
         [] OTHER -> "observe"

ScopeTasks(v, scope) ==
  CASE scope[1] = "task" /\ scope[2] # "" -> Kept(v.open, {scope[2]})
    [] scope[1] = "sprint" /\ scope[2] # "" ->
         IF scope[2] \in DOMAIN v.sprints
         THEN Kept(v.open, v.sprints[scope[2]]) ELSE <<>>
    [] OTHER -> v.open

\* Sessions it proposes to spawn, one per task, and only for a sprint.
Spawned(in, tasks) ==
  IF in.scope[1] = "sprint" /\ in.scope[2] # "" /\ in.sessions > 1
  THEN SubSeq(tasks, 1, IF Len(tasks) < in.sessions THEN Len(tasks) ELSE in.sessions) ELSE <<>>

Cycle(action, task, spawn) == [action |-> action, task |-> task, spawn |-> spawn]
AgencyPlan(v, in) ==
  LET tasks == ScopeTasks(v, in.scope)
      next  == Append(tasks, "")[1]
  IN CASE Mode(in) = "observe" -> Cycle("report", next, <<>>)
       [] Mode(in) = "maintain" ->
            Cycle(IF v.issues # {} \/ v.unmapped # {} THEN "refresh_views"
                 ELSE IF in.trigger = "roadmap_end" THEN "audit_roadmap" ELSE "audit_graph",
                 "", <<>>)
       [] OTHER -> IF tasks = <<>> THEN Cycle("report", "", <<>>)
                   ELSE Cycle(IF in.trigger = "sprint_end" THEN "sprint_review" ELSE "task_advance",
                             next, Spawned(in, tasks))

=============================================================================
