----------------------------- MODULE PanelViews -----------------------------
(* What people read: the status text, the status panel and the control room. *)
(* src/src/adapters/pi/ui/manager.ts and src/src/ui/web/control-room.ts each *)
(* make their own picture of the stored views, beside the answers the tools  *)
(* give (NextAction, AgencyPlan).  v is a stored lens, w a workspace, link   *)
(* the task of the session's latest link or "".  moved are the agency lanes  *)
(* whose revision anchor changed since the rebuild before, aged those whose  *)
(* last check is older than their maximum.                                   *)
EXTENDS StateViews

Focus(source, about) == [source |-> source, about |-> about]
Least(a, b) == IF a < b THEN a ELSE b
Or(seq, default) == IF seq = <<>> THEN default ELSE seq[1]

-----------------------------------------------------------------------------
(* Agency lanes *)

LaneOrder == <<"product_system", "system_code", "product_system_ux">>
LaneWork(v, lane) == v.lanes[lane].tasks # {} \/ v.lanes[lane].risky # {}

\* agencyLaneFreshness: why a lane is stale, or "fresh".
LaneBasis(v, lane, moved, aged) ==
  CASE lane \in moved -> "revision"
    [] lane \notin moved /\ LaneWork(v, lane) -> "work"
    [] OTHER -> IF lane \in aged THEN "time" ELSE "fresh"

\* The lane a panel would resume: one with work first, then any stale one.
ResumeLane(v, moved, aged) ==
  LET Basis(l) == LaneBasis(v, l, moved, aged)
  IN  Or(Kept(LaneOrder, {l \in DOMAIN Lanes : Basis(l) = "work"})
           \o Kept(LaneOrder, {l \in DOMAIN Lanes : Basis(l) # "fresh"}), "")

LaneCounts(v, moved, aged) ==
  [b \in {"revision", "work", "time", "fresh"} |->
     Cardinality({l \in DOMAIN Lanes : LaneBasis(v, l, moved, aged) = b})]

-----------------------------------------------------------------------------
(* Where the session stands *)

\* The part of the lens that says what to resume, as the rebuild stored it.
ResumeState(v, moved) ==
  LET stale == Kept(LaneOrder, {l \in DOMAIN Lanes : l \in moved \/ LaneWork(v, l)}) IN
  IF v.resume # "" THEN Focus("task", v.resume)
  ELSE IF stale # <<>> THEN Focus("agency", stale[1])
  ELSE Focus("next_step", "")

LinkedTask(v, link) == IF link \in Range(v.open) THEN link ELSE ""

\* buildResumeSnapshot.  Its two last branches, for a lens without a resume
\* part, are never taken: every rebuild stores one.
Snapshot(v, link, moved) ==
  IF LinkedTask(v, link) # "" THEN Focus("task", link) ELSE ResumeState(v, moved)

\* The status line names the linked task, else the command of the snapshot.
StatusSummary(v, link, moved) == Snapshot(v, link, moved).about

Todo(v) == Kept(v.open, {t \in DOMAIN v.status : v.status[t] = "todo"})

\* The linked task first, then those in progress or blocked, then the rest.
WorkingSet(v, link) ==
  LET linked == IF LinkedTask(v, link) # "" THEN <<link>> ELSE <<>>
  IN  linked \o Kept(v.active \o Todo(v), DOMAIN v.status \ Range(linked))

WorkingLine(v, link, t, i) ==
  CASE t = LinkedTask(v, link) -> "Focused"
    [] OTHER -> IF v.status[t] = "blocked" THEN "Blocked"
                ELSE IF Stage(v.status[t]) = "implement" THEN "Implement"
                ELSE IF i = 1 THEN "Next" ELSE "Todo"

WorkingLines(v, link, limit) ==
  LET ids == WorkingSet(v, link)
      shown == SubSeq(ids, 1, Least(Len(ids), limit))
  IN  IF ids = <<>> THEN << <<IF v.done # {} THEN "clear" ELSE "none", "">> >>
      ELSE [i \in 1 .. Len(shown) |-> <<WorkingLine(v, link, shown[i], i), shown[i]>>]

-----------------------------------------------------------------------------
(* The panel's sections *)

Blocked(v) == Kept(v.active, {t \in DOMAIN v.status : v.status[t] = "blocked"})

\* buildHomeIssues: four at most.  No task has evidence and there are no
\* parallel sessions, since a rebuild sees no events.
HomeIssues(v, link) ==
  LET found ==
        [i \in 1 .. Len(Blocked(v)) |-> <<"blocker", Blocked(v)[i]>>]
          \o (IF v.issues = {} THEN <<>> ELSE << <<"knowledge", "">> >>)
          \o (IF LinkedTask(v, link) = "" THEN <<>> ELSE << <<"warning", link>> >>)
  IN  IF found = <<>> THEN << <<"info", "">> >>
      ELSE SubSeq(found, 1, Least(Len(found), 4))

HomePath(v, link) ==
  <<IF v.untracked # {} \/ v.blocked # {} THEN "attention" ELSE "ready",
    IF LinkedTask(v, link) # "" THEN "task" ELSE IF v.open # <<>> THEN "open" ELSE "ready",
    "waiting">>

\* liveRoadmapColumns: tasks in the order of the file, by stage.
LiveColumn(v, stage) ==
  Kept(TaskIds, {t \in DOMAIN v.status : v.status[t] # "cancelled" /\ Stage(v.status[t]) = stage})

Clamp(i, n) == IF n = 0 \/ i < 1 THEN 1 ELSE IF i > n THEN n ELSE i

\* The row under the cursor and the five rows drawn around it.
Selected(v, stage, row) ==
  LET ids == LiveColumn(v, stage)
      at  == Clamp(row, Len(ids))
      top == IF at > 5 THEN at - 4 ELSE 1
  IN  [task |-> IF ids = <<>> THEN "" ELSE ids[at],
       drawn |-> SubSeq(ids, top, Least(top + 4, Len(ids)))]

\* readGraphPanelData: what comes next, and eight of the items.
GraphRows(w) ==
  [loop |-> NextLoop(w), items |-> Cardinality(Items(w)), drawn |-> Least(8, Cardinality(Items(w)))]

-----------------------------------------------------------------------------
(* The control room *)

\* Open is read off the status, with a list of its own: anything but done,
\* cancelled and closed.
ControlOpen(v) == {t \in DOMAIN v.status : v.status[t] \notin {"done", "cancelled", "closed"}}

\* The linked task plays no part: focused is the lens's first active task.
Overview(v, w) ==
  [open |-> Len(v.open), done |-> Cardinality(v.done),
   gated |-> Cardinality({t \in ControlOpen(v) : v.status[t] = "blocked"}),
   next |-> IF v.resume # "" THEN v.resume ELSE Or(Todo(v), ""),
   drift |-> Cardinality(Items(w)), loop |-> NextLoop(w)]

\* Twelve cards by id: nothing the rebuild stores says which task is in front.
Board(v, w) ==
  LET ids == Kept(TaskIds, ControlOpen(v))
  IN  [tasks |-> SubSeq(ids, 1, Least(12, Len(ids))),
       sprints |-> {s \in DOMAIN w.sprints : w.sprints[s].status \in {"active", "planned", "in_progress"}}]

\* What /api/graph returns of the graph without being asked for more.
Visible(w) ==
  [evidence |-> {p \in DOMAIN w.builds : ~CompactCold(w, p) /\ ~Superseded(w, p)}
                  \cup {v \in DOMAIN w.reports : w.reports[v].verdict # "pass"},
   tasks    |-> {t \in DOMAIN w.tasks : w.tasks[t].status \notin {"done", "cancelled", "closed"}}]

\* drawGraphMap, in the scope it opens with: of the work nodes among them, in the
\* order of the graph, the first seventy.
MapLimit     == 70
Drawn(nodes) == SubSeq(nodes, 1, Least(Len(nodes), MapLimit))

=============================================================================
