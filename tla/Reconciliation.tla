--------------------------- MODULE Reconciliation ---------------------------
(* The files a rebuild reads, the graph it stores, and everyone who touches  *)
(* them at the same time:                                                    *)
(*  - the tool handlers of one pi process (builds, validation reports, task  *)
(*    updates).  A handler computes what it will write from the files as     *)
(*    they are when it is called, then truncates, fills and rebuilds, with   *)
(*    an await between each two of these steps;                              *)
(*  - codewiki_gc in the same process: candidates from the stored graph, a   *)
(*    restore ledger truncated and filled, then one deletion at a time;      *)
(*  - the gateway command line, a process of its own, which applies the      *)
(*    operations of a transaction one by one and rebuilds at the end;        *)
(*  - the user: edits, commits, and the death of the pi process.             *)
(* What is derived from the files is in AlignmentGraph, StateViews and     *)
(* PanelViews, what the handlers write in CompilerBuilds.                    *)
EXTENDS PanelViews

CONSTANTS
  Handlers,          \* tool calls of the pi process that may overlap
  BuildInputs,       \* the codewiki_build inputs tried, with their file .path
  ReportInputs,      \* the codewiki_validation inputs tried
  AgencyInputs,      \* the codewiki_agency inputs tried
  Seeds,             \* [files, committed]: workspaces the behaviours start from
  Sources,           \* code and knowledge files, in git from the start
  Writable,          \* those of them the gateway lets a transaction patch
  Precedes(_, _),    \* the order in which git lists paths
  LedgerNames,       \* names of restore ledgers: the caller's, or the second's
  MaxOps,            \* operations of one transaction
  MaxDeletes,        \* max_deletes of the purge
  MaxCalls,          \* handler calls in a behaviour
  MaxOutside         \* transactions, edits, commits and crashes in a behaviour

ASSUME Bounds == MaxCalls \in Nat /\ MaxOutside \in Nat

IsPath(p)     == Len(p) \in Nat \ {0}
Under(p, dir) == Len(p) \in Nat \ {0, 1} /\ p[1] = ".codewiki" /\ p[2] = dir

\* A seed has every file there is, and builds of the four loops in their place.
\* No tool writes the state "purged", which only readers know.
ASSUME SeedFiles ==
  \A s \in Seeds :
    /\ DOMAIN s.files = {"builds", "reports", "tasks", "archived", "sprints", "docs", "lint"}
    /\ \A p \in DOMAIN s.files.builds :
         /\ Under(p, "builds")
         /\ s.files.builds[p].kind \in Range(KindOf)
         /\ s.files.builds[p].state # "purged"
    /\ \A p \in DOMAIN s.files.reports : Under(p, "validation")
    /\ \A p \in s.committed : IsPath(p)

\* Its tasks are as the tools write them, with an id and one of five statuses.
ASSUME SeedTasks ==
  \A s \in Seeds :
    /\ DOMAIN s.files.tasks \subseteq Range(TaskIds)
    /\ \A t \in DOMAIN s.files.tasks :
         "status" \in DOMAIN s.files.tasks[t] /\ s.files.tasks[t].status \in Statuses

\* A directory holds finitely many files, a document maps finitely many paths, a
\* lint report has finitely many issues.
ASSUME SeedsAreFinite ==
  \A s \in Seeds :
    /\ IsFiniteSet(DOMAIN s.files.builds) /\ IsFiniteSet(DOMAIN s.files.reports)
    /\ IsFiniteSet(DOMAIN s.files.docs) /\ IsFiniteSet(s.files.lint)
    /\ \A d \in DOMAIN s.files.docs : IsFiniteSet(s.files.docs[d])

\* A budget is a number of sessions.
ASSUME AgencyFields == \A in \in AgencyInputs : in.sessions \in Nat

ASSUME SourcePaths == \A p \in Sources : IsPath(p)

ASSUME BuildFields ==
  \A in \in BuildInputs :
    in.kind \in DOMAIN KindOf /\ in.state # "purged" /\ Under(in.path, "builds")

\* A report that says nothing of its isolation does not claim a fresh context.
ASSUME ReportFields ==
  \A in \in ReportInputs :
    in.verdict \in {"pass", "fail", "block"} /\ (in.isolation.fresh => in.isolation.given)

VARIABLES
  files,       \* [builds, reports, tasks, archived]: what the files hold
  torn,        \* files truncated and not yet filled: they do not parse
  tracked,     \* files of HEAD
  dirty,       \* files git status lists: tracked, and changed or gone, unstaged
  stored,      \* the views of index_graph.json that others read
  call,        \* handler -> what it is doing
  gc,          \* the purge in progress
  ledger,      \* name -> the paths its ledger lists, none if there is none
  cli,         \* the transaction in progress
  calls,       \* handler calls so far
  outside,     \* other events so far
  purged,      \* history: name -> evidence removed since its ledger was opened
  behind       \* history: the stored graph is known to be older than the files

vars == <<files, torn, tracked, dirty, stored, call, gc, ledger, cli, calls, outside, purged, behind>>
others == <<tracked, stored, gc, ledger, cli, purged>>

Queue == <<".codewiki", "roadmap", "queue.json">>
Idle  == [phase |-> "idle"]

\* GitCache.getDirtyPaths of an unstaged change is " M path" cut after the third
\* character, but the blank that the first line starts with is trimmed before:
\* the first path of the list loses its first character.
Clipped(p) == [p EXCEPT ![1] = Tail(@)]
Seen(changed) ==
  {IF \A q \in changed \ {p} : Precedes(p, q) THEN Clipped(p) ELSE p : p \in changed}

\* The workspace as the files, the list of changes and the fixed part of the seed
\* have it.
W == [builds |-> files.builds, reports |-> files.reports, tasks |-> files.tasks,
      archived |-> files.archived, dirty |-> Seen(dirty), docs |-> files.docs,
      sprints |-> files.sprints, lint |-> files.lint, files |-> Sources]

View(w) ==
  LET loop == NextLoop(w) IN
  [loop |-> loop, hot |-> HotBuilds(w) \cup HotReports(w),
   warm |-> WarmBuilds(w), cold |-> ColdBuilds(w),
   builds |-> PurgeableBuilds(w), reports |-> PurgeableReports(w),
   blocked |-> BlockedPurge(w),
   cursor |-> [scopes |-> CursorScopes(w), output |-> CursorOutput[loop], fresh |-> FreshContext(loop)],
   layers |-> Drifting(w),
   status |-> StatusLens(w)]

Evidence == DOMAIN files.builds \cup DOMAIN files.reports

\* Mutant: files git does not track are listed too.
TouchUntracked(p) == dirty' = dirty \cup {p}
Touch(p) == dirty' = IF p \in tracked THEN dirty \cup {p} ELSE dirty
Put(f, p, v) == [q \in DOMAIN f \cup {p} |-> IF q = p THEN v ELSE f[q]]

Happens == outside < MaxOutside /\ outside' = outside + 1

\* A file changed while the command line holds what it read before.
Outdate == behind' = (behind \/ cli.phase = "store")

Init ==
  /\ \E s \in Seeds : files = s.files /\ tracked = Sources \cup {Queue} \cup s.committed
  /\ torn = {} /\ dirty = {}
  /\ stored = View(W)
  /\ call = [h \in Handlers |-> Idle]
  /\ gc = Idle /\ cli = Idle
  /\ ledger = [n \in LedgerNames |-> {}] /\ purged = [n \in LedgerNames |-> {}]
  /\ calls = 0 /\ outside = 0 /\ behind = FALSE

-----------------------------------------------------------------------------
(* The handlers *)

\* The synchronous part of a call: checks and the record to be written.
Begin(h, kind, path, data) ==
  /\ call[h] = Idle
  /\ calls < MaxCalls
  /\ calls' = calls + 1
  /\ call' = [call EXCEPT ![h] = [phase |-> "open", kind |-> kind, path |-> path, data |-> data]]
  /\ UNCHANGED <<files, torn, dirty, behind, outside, others>>

WriteBuild(h) ==
  \E in \in BuildInputs :
    /\ Begin(h, "builds", in.path, NewBuild(W, in))
    /\ ~Refused(in)

\* A source that is torn is as unreadable as one that is missing.
ParsedW == [W EXCEPT !.builds = [p \in DOMAIN @ \ torn |-> @[p]]]

WriteReport(h) ==
  \E in \in ReportInputs :
    LET r == NewReport(ParsedW, in) IN Begin(h, "reports", ReportPath(r), r)

\* Task updates take the queue's lock, so one is under way at a time.
TaskCall(h, data) ==
  /\ \A g \in Handlers : call[g].phase \in {"open", "fill"} => call[g].kind # "tasks"
  /\ Queue \notin torn
  /\ Begin(h, "tasks", Queue, data)

MoveTask(h) ==
  \E t \in DOMAIN files.tasks, s \in {"in_progress", "blocked"} :
    /\ files.tasks[t].status # s
    /\ TaskCall(h, [files EXCEPT !.tasks[t].status = s])

CloseTask(h) ==
  \E t \in DOMAIN files.tasks :
    /\ IsOpen(W, t)
    /\ \E v \in DOMAIN files.reports \ torn :
         LET r == files.reports[v] IN r.verdict = "pass" /\ r.profile = "task-close" /\ r.task = t
    /\ TaskCall(h, [files EXCEPT !.tasks[t].status = "done"])

ArchiveTask(h) ==
  \E t \in DOMAIN files.tasks :
    /\ files.tasks[t].status = "done"
    /\ TaskCall(h, [files EXCEPT !.archived = @ \cup {t},
                                 !.tasks = [u \in DOMAIN @ \ {t} |-> @[u]]])

\* codewiki_state and codewiki_agency with a refresh: a rebuild, then a look.
Consult(h) ==
  /\ call[h] = Idle
  /\ calls < MaxCalls
  /\ calls' = calls + 1
  /\ call' = [call EXCEPT ![h] = [phase |-> "rebuild"]]
  /\ UNCHANGED <<files, torn, dirty, behind, outside, others>>

\* writeFile truncates, and fills in a later turn of the event loop.
Truncate(h) ==
  /\ call[h].phase = "open"
  /\ torn' = torn \cup {call[h].path}
  /\ call' = [call EXCEPT ![h].phase = "fill"]
  /\ Touch(call[h].path)
  /\ Outdate
  /\ UNCHANGED <<files, calls, outside, others>>

Landed(c) ==
  IF c.kind = "tasks" THEN [files EXCEPT !.tasks = c.data.tasks, !.archived = c.data.archived]
  ELSE IF c.kind = "builds" THEN [files EXCEPT !.builds = Put(@, c.path, c.data)]
  ELSE [files EXCEPT !.reports = Put(@, c.path, c.data)]

\* Mutant: the handler returns without the rebuild.
FillOnly(h) ==
  /\ call[h].phase = "fill"
  /\ files' = Landed(call[h])
  /\ torn' = torn \ {call[h].path}
  /\ call' = [call EXCEPT ![h] = Idle]
  /\ UNCHANGED <<dirty, calls, outside, behind, others>>

\* refresh=false leaves the graph as it is.
Fill(h) ==
  /\ call[h].phase = "fill"
  /\ files' = Landed(call[h])
  /\ torn' = torn \ {call[h].path}
  /\ \/ /\ call' = [call EXCEPT ![h] = [phase |-> "rebuild"]]
        /\ Outdate
     \/ /\ call' = [call EXCEPT ![h] = Idle]
        /\ behind' = TRUE
  /\ UNCHANGED <<dirty, calls, outside, others>>

\* A rebuild is synchronous, and fails on the first file that does not parse.
Rebuilt ==
  IF torn = {} THEN stored' = View(W) /\ behind' = (behind /\ cli.phase = "store")
  ELSE UNCHANGED <<stored, behind>>

Rebuild(h) ==
  /\ call[h].phase = "rebuild"
  /\ Rebuilt
  /\ call' = [call EXCEPT ![h] = Idle]
  /\ UNCHANGED <<files, torn, tracked, dirty, gc, ledger, cli, calls, outside, purged>>

-----------------------------------------------------------------------------
(* codewiki_gc action="purge" *)

Candidates ==
  (stored.builds \cap (DOMAIN files.builds \cup torn))
    \cup {v \in stored.reports \cap DOMAIN files.reports :
            v \notin torn /\ files.reports[v].verdict = "pass"}

\* Mutant: deletions start before the restore ledger is written.
PurgeUnlogged ==
  /\ gc = Idle
  /\ Candidates # {}
  /\ Cardinality(Candidates) <= MaxDeletes
  /\ \E n \in LedgerNames : gc' = [phase |-> "delete", todo |-> Candidates, name |-> n]
  /\ UNCHANGED <<files, torn, tracked, dirty, stored, call, ledger, cli, calls, outside, purged, behind>>

\* verifyArchiveProof asks for a commit and its tree, which HEAD always has.
PurgeStart ==
  /\ gc = Idle
  /\ Candidates # {}
  /\ Cardinality(Candidates) <= MaxDeletes
  /\ \E n \in LedgerNames : gc' = [phase |-> "open", todo |-> Candidates, name |-> n]
  /\ UNCHANGED <<files, torn, tracked, dirty, stored, call, ledger, cli, calls, outside, purged, behind>>

\* A ledger that had the name is gone from here on, with what it listed.
PurgeOpen ==
  /\ gc.phase = "open"
  /\ ledger' = [ledger EXCEPT ![gc.name] = {}]
  /\ purged' = [purged EXCEPT ![gc.name] = {}]
  /\ gc' = [gc EXCEPT !.phase = "ledger"]
  /\ UNCHANGED <<files, torn, tracked, dirty, stored, call, cli, calls, outside, behind>>

PurgeLedger ==
  /\ gc.phase = "ledger"
  /\ ledger' = [ledger EXCEPT ![gc.name] = gc.todo]
  /\ gc' = [gc EXCEPT !.phase = "delete"]
  /\ UNCHANGED <<files, torn, tracked, dirty, stored, call, cli, calls, outside, purged, behind>>

Without(f, p) == [q \in DOMAIN f \ {p} |-> f[q]]

\* A file opened before it is unlinked is filled where nobody finds it.
PurgeDelete ==
  /\ gc.phase = "delete"
  /\ \E p \in gc.todo :
       /\ gc' = [gc EXCEPT !.todo = @ \ {p}]
       /\ files' = [files EXCEPT !.builds = Without(@, p), !.reports = Without(@, p)]
       /\ torn' = torn \ {p}
       /\ purged' = [purged EXCEPT ![gc.name] = @ \cup ({p} \cap (Evidence \cup torn))]
       /\ call' = [h \in Handlers |->
                     IF call[h].phase = "fill" /\ call[h].path = p
                     THEN [phase |-> "rebuild"] ELSE call[h]]
       /\ Touch(p)
       /\ Outdate
  /\ UNCHANGED <<tracked, stored, ledger, cli, calls, outside>>

\* With refresh=false the graph stays as it is.
PurgeEnd ==
  /\ gc.phase = "delete" /\ gc.todo = {}
  /\ gc' = Idle
  /\ Rebuilt \/ (behind' = TRUE /\ UNCHANGED stored)
  /\ UNCHANGED <<files, torn, tracked, dirty, call, ledger, cli, calls, outside, purged>>

-----------------------------------------------------------------------------
(* A gateway transaction, in a process of its own *)

ApplyOp ==
  /\ cli.phase \in {"idle", "ops"}
  /\ LET done == IF cli = Idle THEN 0 ELSE cli.done IN
     /\ done < MaxOps
     /\ cli' = [phase |-> "ops", done |-> done + 1]
     /\ IF done = 0 THEN Happens ELSE UNCHANGED outside
  /\ \E p \in Writable : Touch(p)
  /\ UNCHANGED <<files, torn, tracked, stored, call, gc, ledger, purged, behind, calls>>

\* A failing operation ends the transaction: no rollback, and no rebuild.
FailOp ==
  /\ cli.phase = "ops"
  /\ cli' = Idle
  /\ behind' = TRUE
  /\ UNCHANGED <<files, torn, tracked, dirty, stored, call, gc, ledger, calls, outside, purged>>

\* The rebuild of another process: nothing keeps the two writers apart.
CliRead ==
  /\ cli.phase = "ops"
  /\ IF torn = {} THEN cli' = [phase |-> "store", view |-> View(W)] /\ behind' = FALSE
     ELSE cli' = Idle /\ behind' = TRUE
  /\ UNCHANGED <<files, torn, tracked, dirty, stored, call, gc, ledger, calls, outside, purged>>

CliStore ==
  /\ cli.phase = "store"
  /\ stored' = cli.view
  /\ cli' = Idle
  /\ UNCHANGED <<files, torn, tracked, dirty, call, gc, ledger, calls, outside, purged, behind>>

-----------------------------------------------------------------------------
(* The user and the process *)

\* What a transaction may touch is left to the transaction.
Edit ==
  /\ Happens
  /\ \E p \in Sources \ (Writable \cup dirty) : dirty' = dirty \cup {p}
  /\ behind' = TRUE
  /\ UNCHANGED <<files, torn, call, others, calls>>

Commit ==
  /\ Happens
  /\ torn = {}
  /\ tracked' = Sources \cup {Queue} \cup Evidence
  /\ tracked' # tracked \/ dirty # {}
  /\ dirty' = {}
  /\ behind' = TRUE
  /\ UNCHANGED <<files, torn, stored, call, gc, ledger, cli, purged, calls>>

\* What was truncated stays so until somebody writes the file again.
Crash ==
  /\ Happens
  /\ gc # Idle \/ \E h \in Handlers : call[h] # Idle
  /\ call' = [h \in Handlers |-> Idle]
  /\ gc' = Idle
  /\ behind' = TRUE
  /\ UNCHANGED <<files, torn, tracked, dirty, stored, ledger, cli, purged, calls>>

Next ==
  \/ \E h \in Handlers :
       \/ WriteBuild(h) \/ WriteReport(h)
       \/ MoveTask(h) \/ CloseTask(h) \/ ArchiveTask(h) \/ Consult(h)
       \/ Truncate(h) \/ Fill(h) \/ Rebuild(h)
  \/ PurgeStart \/ PurgeOpen \/ PurgeLedger \/ PurgeDelete \/ PurgeEnd
  \/ ApplyOp \/ FailOp \/ CliRead \/ CliStore
  \/ Edit \/ Commit \/ Crash

Spec == Init /\ [][Next]_vars

-----------------------------------------------------------------------------
(* Properties *)

\* The files a call may write.
Paths ==
  {Queue} \cup {in.path : in \in BuildInputs}
    \cup {ReportPath([profile |-> in.profile, verdict |-> v, task |-> in.task]) :
           in \in ReportInputs, v \in {"pass", "fail", "block"}}

TypeOK ==
  /\ DOMAIN files = {"builds", "reports", "tasks", "archived", "sprints", "docs", "lint"}
  /\ torn \subseteq Paths
  /\ dirty \subseteq tracked
  /\ stored.loop \in Range(Loops)
  /\ \A h \in Handlers : call[h].phase \in {"idle", "open", "fill", "rebuild"}
  /\ gc.phase \in {"idle", "open", "ledger", "delete"}
  /\ cli.phase \in {"idle", "ops", "store"}
  /\ calls \in 0 .. MaxCalls /\ outside \in 0 .. MaxOutside
  /\ behind \in BOOLEAN

Quiet == gc = Idle /\ cli = Idle /\ \A h \in Handlers : call[h] = Idle

\* Once every call has returned, the stored graph is what a rebuild would now
\* make of the files and of git's list, and every file parses, unless something
\* outside the handlers came between: a crash, an edit or commit, refresh=false,
\* a failed transaction, or the other process storing what it had read before a
\* change.  The overlapping rebuilds of one process never leave an older graph
\* behind.  What either rebuild makes of the change git lists first is Seen.
GraphCurrent == Quiet /\ ~behind => torn = {} /\ stored = View(W)

\* A tracked file that a purge has removed its own restore ledger on disk names,
\* also when the process died between two deletions, for as long as no later
\* purge is given the same ledger: that one replaces it, and what the first one
\* removed is then named nowhere.
LedgerCovers == \A n \in LedgerNames : purged[n] \subseteq ledger[n]

\* The two views of open work agree: a build in the hot class that is accepted
\* or applied is one that some reconciliation item asks to move on.
HotIsRouted ==
  LET routed == {i.about : i \in Items(W)}
  IN  \A p \in HotBuilds(W) : files.builds[p].state \in {"accepted", "applied"} => p \in routed

\* Nothing that still routes work is offered to the purge.  A lint issue about a
\* build is left aside: it goes with the build.
DriftNotPurgeable ==
  LET routed == {i.about : i \in {j \in Items(W) : j.kind # "lint"}}
  IN  \A p \in PurgeableBuilds(W) \cup PurgeableReports(W) : p \notin routed

\* The state tool says there is nothing to do exactly when no task is open and
\* no reconciliation item is: the drift its lens finds by itself, the issues no
\* open task names, is never more than what the graph routes.
NothingToDoAgrees ==
  NextAction(StatusLens(W), "").kind = "none"
    <=> NextLoop(W) = "observe" /\ ~ \E t \in DOMAIN files.tasks : IsOpen(W, t)

\* A task that a tool names from the stored lens, for any focus of the session
\* and any scope of the agency, is open in the file.
AdviceIsOpen(v) ==
  /\ \A link \in {""} \cup Range(TaskIds) :
       LET t == NextAction(v, link).task IN t # "" => IsOpen(W, t)
  /\ \A in \in AgencyInputs :
       LET plan == AgencyPlan(v, in)
       IN  \A t \in ({plan.task} \cup Range(plan.spawn)) \ {""} : IsOpen(W, t)

\* The panel offers to resume the task the state tool names, and no other; what
\* it lists is open and what its board shows is in the file; its home page says
\* that nothing blocks only if the lens sends nobody to look at the status.
PanelAgrees(v) ==
  \A link \in {""} \cup Range(TaskIds), moved \in SUBSET DOMAIN Lanes :
    LET tool == NextAction(v, link)
        seen == Snapshot(v, link, moved)
    IN  /\ tool.kind = "resume" <=> seen.source = "task"
        /\ seen.source = "task" => seen.about = tool.task
        /\ Range(WorkingSet(v, link)) = {t \in DOMAIN files.tasks : IsOpen(W, t)}
        /\ HomeIssues(v, link) = << <<"info", "">> >> => v.step.kind # "status"

\* The row under the panel's cursor is one of the rows drawn; its home page asks
\* for attention only if the next step is to look; a lane is offered exactly if
\* one is stale; the open tasks are all listed, one line each; and the graph tab
\* shows drift exactly if the next step is to reconcile.
PagesAgree(v) ==
  /\ \A stage \in {"todo", "implement", "done"}, row \in 0 .. Len(TaskIds) :
       LET s == Selected(v, stage, row) IN s.task # "" => s.task \in Range(s.drawn)
  /\ HomePath(v, "")[1] = "attention" => v.step.kind \in {"status", "reconciliation"}
  /\ \A moved \in SUBSET DOMAIN Lanes, aged \in {{}, DOMAIN Lanes} :
       ResumeLane(v, moved, aged) = "" <=> LaneCounts(v, moved, aged).fresh = Len(LaneOrder)
  /\ \A link \in {""} \cup Range(TaskIds) :
       LET lines == WorkingLines(v, link, Len(TaskIds)) IN
       /\ v.open # <<>> => Len(lines) = Len(v.open)
       /\ LinkedTask(v, link) # "" => lines[1] = <<"Focused", StatusSummary(v, link, {})>>
  /\ GraphRows(W).items # 0 <=> v.step.kind = "reconciliation"

\* The control room is given all that is hot, counts what the tools count, and up
\* to twelve open tasks its board has room for what the panel's board shows as
\* being worked on.
ControlRoomAgrees(v) ==
  /\ Len(v.open) <= 12 => Range(LiveColumn(v, "implement")) \subseteq Range(Board(v, W).tasks)
  /\ HotBuilds(W) \cup HotReports(W) \subseteq Visible(W).evidence
  /\ ControlOpen(v) = Range(v.open) /\ ControlOpen(v) \subseteq Visible(W).tasks
  /\ LET seen == Overview(v, W) IN seen.next # "" => seen.next \in ControlOpen(v)

\* What a model is told and what a person reads come from five derivations of
\* the same files, and agree whenever the stored views are current.
SurfacesAgree ==
  /\ Quiet => NothingToDoAgrees
  /\ Quiet /\ ~behind =>
       /\ AdviceIsOpen(stored.status)
       /\ PanelAgrees(stored.status)
       /\ PagesAgree(stored.status)
       /\ ControlRoomAgrees(stored.status)

\* A report that passes an implementation build was computed when that build
\* and a plan it consumes were both there and accepted, whichever of the four
\* gap checks would have caught the contrary, and the graph, which judges the
\* isolation of a report by a rule of its own, agrees that it was isolated.
PassIsTraceable ==
  [][\A h \in Handlers :
       LET c == call'[h] IN
       /\ call[h] = Idle /\ c.phase = "open" /\ c.kind = "reports"
       /\ c.data.verdict = "pass" /\ c.data.profile = "implementation"
       => /\ c.data.isolation = "isolated"
          /\ \E p \in c.data.source \cap (DOMAIN files.builds \ torn) :
               /\ files.builds[p].kind = "implementation_build"
               /\ files.builds[p].state \in AcceptedStates
               /\ \E q \in files.builds[p].planning \cap (DOMAIN files.builds \ torn) :
                    files.builds[q].state \in AcceptedStates]_vars

=============================================================================
