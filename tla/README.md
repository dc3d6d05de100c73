# Codewiki, formally

TLA+ specifications of the parts of this repository in which several agents
touch the same state, and of what the program tells its readers about that
state:

* the artifact-status queue (claims and waiters), the mutation queue that is the
  program's only lock, the roadmap with its archive, the command that resumes
  work on a task, the handoffs from session to session;
* the compiler builds and validation reports, the alignment graph a rebuild
  derives from every file, the gateway and the garbage collection that change
  the files beside it;
* the five pictures made of that graph (the graph's own items, the state tool,
  the agency, the status panel, the control room), and the handlers behind the
  status line and the panel.

Each specification is translated from the TypeScript under `src/src/`,
model-checked with TLC on small instances, and, for the core, proved with TLAPS
for every value of its constants.

## The system

Codewiki is an extension of the pi coding agent. It keeps a project's
knowledge, roadmap, builds and validation reports as files under `.codewiki/`
and gives agents tools that read and rewrite them. There is no server: any
number of sessions, in one or several pi processes, open the same files. Every
handler is an `async` function, so two handlers of one process interleave at
each `await`, and handlers of two processes interleave anywhere.

| Component | State | Operations | Interacts through |
| --- | --- | --- | --- |
| Artifact-status queue (`application/claims.ts`) | `.codewiki/session/queue.json`: claims, waiters, two counters | list, claim, wait, heartbeat, release | mutation queue; the resume command and the rebuild read it without a lock |
| Mutation queue (`mutation-queue.ts`) | per-file lines inside the host process | `withLockedPaths` | taken by claims, roadmap, archive, checkpoints, rebuild, bootstrap |
| Roadmap and archive (`application/roadmap.ts`, `task.ts`, `tools/task.ts`) | `.codewiki/roadmap/queue.json`, `archive.jsonl` | create, update, evidence, close, cancel, clear-archive, checkpoint, sprint | mutation queue; validation reports; rebuild |
| Session handoff (`application/tools/session-handoff.ts`) | one JSON file per handoff with a status | stage, start, complete, fail, cancel | files only; GC deletes them |
| Garbage collection (`application/gc.ts`) | deletes builds, reports, handoffs; writes a ledger | dry-run, purge | git, graph, handoff files |
| Gateway transactions (`application/gateway/`) | any file the policy allows | patch, append_jsonl, then rebuild | no lock |
| Rebuild and graph (`application/rebuild.ts`, `graph/`) | `.codewiki/index_graph.json` | rebuild with or without the lock | every canonical file |
| Builds and validation reports (`application/builds.ts`) | files under `.codewiki/builds`, `.codewiki/validation` | write | the close path reads reports |
| Resume (`adapters/pi/commands/resume.ts`) | none | choose a task, set it in progress, link the session, claim it | roadmap, session link, claims |
| Session records (`application/session.ts`) | the session's own history: its task links | focus, note, clear | resume follows the latest link |
| State views and agency (`application/state-builders.ts`, `state.ts`, `agency.ts`) | none: lenses stored in the graph, answers computed from them | status and roadmap lens, next action, plan | rebuild stores, tools and the panel read |
| Status dock and panel (`adapters/pi/ui/manager.ts`, `commands/status.ts`, `commands/config.ts`) | one global panel, its timer and keys, the status line, `~/.pi/codewiki-status-prefs.json` | open, close, switch, block, refresh, choose a mode | preferences, lenses, roadmap |
| Control room (`ui/web/control-room.ts`) | none | a web page made of the graph | graph |
| Lint, audit, diff table, bootstrap, prompts, schemas | none of their own, or one writer each | reads and projections | |

### What is hard here

* **Read, then write.** A handler reads a task or a file, awaits, and acts on
  what it read: a patch writes back a status read before the lock, a close
  checks for a report before it locks, an archiving copies a task that was
  reloaded without a lock.
* **The lock lives in one process.** `withFileMutationQueue` orders callers of
  one process. Two pi processes on one repository do not see each other.
* **Two files, one operation.** Archiving removes a task from one file and then
  appends it to another. A process may die in between.
* **Truncating writes.** `writeFile` is not atomic. A reader without the lock,
  or any reader after a crash, can find a file that does not parse.
* **Time.** Claims expire by the clock, without any event. Expiry is only noted
  in a file when some call happens to write it.
* **Five answers to one question.** The graph, the state tool, the agency, the
  panel and the control room each derive what is to be done from the files, by
  rules written apart.
* **Globals of the user interface.** Events, commands, tool calls, timers and
  keys each act, await by await, on one panel, one status line and one
  preferences file.
* **Ids from what is left.** The next task id is computed from the tasks and
  snapshots that exist; erase the archive and ids come back.

`PROJECT.json` lists each hazard at its source line, with the properties that
cover it or the reason none does yet.

### What makes each component correct

* Claims: two sessions never hold live write claims on overlapping artifacts
  unless one was forced; a waiter waits only for claims that really block it;
  what a session was told it holds stays in the file until it ends.
* Mutation queue: mutations that share a path exclude one another, and every
  call returns.
* Roadmap: no task is lost but by a death inside a write, none comes back, no id
  is used twice, a close rests on a report about that very task, and the archive
  holds closed tasks.
* Handoff: one that was started is never queued again, `started` means that a
  session is running it, the latest is the latest, and one that is queued or
  started is not purged.
* Resume: sessions that were told to work and hold their task's artifacts never
  share them; a session is refused the task it chose only because of a race.
* GC: what is purged is named in the restore ledger written for it, as long as
  that ledger is not replaced, and nothing that still routes work is purged.
* Rebuild: when the calls of a process have returned, the graph on disk is the one
  a rebuild would make of the files.
* Builds and reports: a pass rests on an accepted build that rests on an
  accepted plan.
* Views: what a tool, the panel or the control room names is open, and none of
  them says that nothing is to be done while another names work.
* Status panel: keys, screen and active panel are one; a block lands in the
  repository that was shown; a chosen mode stays chosen; `off` means no line.

## Modules

| Module | Models | Checked by |
| --- | --- | --- |
| `ScopeOverlap` | scopes, path patterns, `pathsOverlap`, `scopesOverlap`, with a reference reading of globs | `MCArtifactClaims` |
| `ClaimsFile` (extends `ScopeOverlap`) | the queue file, and the five actions of `mutateChangeClaims` as pure functions from the file read to the file written | through the next two |
| `ArtifactClaims` (extends `ClaimsFile`) | the abstract specification: each call is one atomic step | `MCArtifactClaims` |
| `ScopePatterns` (extends `ArtifactClaims`) | the patterns and files over which `pathsOverlap` is compared with the reference reading | `MCArtifactClaims` |
| `ClaimsStore` (extends `ClaimsFile`) | the detailed specification: queueing, reading, truncating, writing, returning, crashes, one or more processes; implements `ArtifactClaims`, and its line of calls implements `HostQueue` | `MCClaimsStore` |
| `HostQueue` | the host's `withFileMutationQueue`, as an abstract specification: one line per file, served in order | through the next and `ClaimsStore` |
| `MutationQueue` | `withLockedPaths` and the host's per-file lines; implements `HostQueue` | `MCMutationQueue` |
| `RoadmapTasks` | roadmap, archive, reports, and the handlers of `codewiki_task` and resume as chains of reads and locked sections | `MCRoadmapTasks` |
| `TaskReuse` | what a create makes of its inputs: score, search and refinement, as operators over a roadmap's tasks | through the next |
| `RepeatedCreates` (extends both) | creates that are sent twice, with the inputs a caller may send | `MCRoadmapTasks` |
| `SessionHandoff` | handoff files: staging, the command that runs one, the marks, the runtime purge, death of a session | `MCSessionHandoff` |
| `ResumeWork` (extends `ArtifactClaims`) | the resume command of several sessions over the queue of claims, with the tools that change claims, statuses and focus beside it | `MCResumeWork` |
| `AlignmentGraph` | what a rebuild derives from the files: reconciliation items, the next loop, consumption, validation, evidence classes, cursor | the last of this group |
| `CompilerBuilds` (extends `AlignmentGraph`) | the records the four build writers and the validation report leave, their refusals, the four gap checks | |
| `StateViews` (extends `CompilerBuilds`) | status and roadmap lens, `NextAction` of the state tool, `AgencyPlan` | |
| `PanelViews` (extends `StateViews`) | the status text, the panel's pages, lanes and rows, the control room's overview, board and visible files | |
| `Reconciliation` (extends `PanelViews`) | everyone who changes those files at once: tool handlers, purge, gateway, user, death of the process; the rebuilds and the stored graph | `MCReconciliation` |
| `StatusPanel` | the handlers of one pi process around the status line, the panel, the configuration panel and the preferences file | `MCStatusPanel` |
| `ClaimsFileProofs`, `ArtifactClaimsProofs` (with those of `ResumeWork`), `ClaimsStoreProofs`, `MutationQueueProofs`, `RoadmapTasksProofs` (with those of `TaskReuse` and `RepeatedCreates`), `SessionHandoffProofs`, `ReconciliationProofs`, `StatusPanelProofs` | theorems | TLAPS |

Operators defined with the comment "Mutant:" are deliberately wrong variants of
the definition that follows them. They are not part of a specification; each
stands for a plausible bug, and the property it is paired with in
`PROJECT.json` fails when it replaces the original.

### ScopeOverlap

A path is the sequence of its `/`-separated segments, which is all
`pathBase`, `startsWith(base + "/")` and the equality test of the code can
tell apart. The empty segment stands for a leading or trailing slash.
`scopesOverlap` keeps the code's precedence: layer, then task id, ref, path,
description, where the first anchor either side carries decides alone.
`Matches` is a textbook glob matcher, the set of positions that the first `i`
segments can reach; `OverlapIffSharedFile` (in `ScopePatterns`, up to `MaxDepth`)
compares the two on every pair of patterns made of a literal prefix and at most one
final wildcard.
For other patterns (a wildcard in the middle) the code treats the wildcard as a
literal, and nothing is claimed.

### ClaimsFile, ArtifactClaims, ClaimsStore

`file` is the parsed queue file. Claims and waiters are functions from the
number in an id to the record: ids only grow, so the order of the domain is the
order of the array. `opened` is what each action starts from: `markExpired`,
then `refreshWaiters`. An outcome is a write, a return without a write, or a
throw; a release that releases nothing drops the expiry marks it made in memory,
as the code does. `writeClaimsFile` keeps the newest `Keep` records of each kind
(200 in the code).

Summaries, agent names, roles, build refs, worktree descriptions and all time
stamps except the expiry are left out: no branch depends on them.

In `ArtifactClaims` a call is one step that may carry a clock sample older than
`now`, but not older than the previous effect. That freedom is what the real
calls have: `new Date()` is taken after the read and the write lands later.

`ClaimsStore` splits a call at each `await` that matters. `Enqueue` joins the
line of the session's process, `Read` holds it and does everything up to the
write, `Truncate` and `Fill` are the two halves of `writeFile`, `Return` leaves
the line. Two writers that overlap in time (possible only in two processes) may
leave a file that parses or one that does not. `Crash` drops a process with its
line and calls and leaves the file as it is. `told` is a history variable: the
claims sessions were told they hold.

### MutationQueue

Callers, paths and path lists are constants. `uniquePaths` yields the strictly
sorted arrangement of the list. The host's queue is external and modelled from
its use: callers of a path are served in order, and the head leaves when its
function has settled. `Run` to `Settle` is the mutation. Returning and throwing
are the same to the lock.

`HostQueue` is that external queue by itself: per file a line of callers and who
runs under it, with a mutation that begins at the head of all the files it names
at once. `MutationQueue`, where a caller joins one line only when it is served in
the one before, implements it, and so does the line in which `ClaimsStore` queues
its calls: both rest on one and the same description of the host. `HostLine` and
`HostInside`, and in the store `queue` and `AtFile`, are the refinement mappings.
A process that dies takes its lines with it (`Die`).

### RoadmapTasks

`tasks` and `order` are the roadmap file, `torn` says that it is truncated or
half written, `archive` is the archive file, `reports` the passing task-close
reports. `call[s]` is where the handler of session `s` stands and the record it
has read. `births` gives each task ever created an identity the code does not
have, so that two tasks that get one id can be told apart.

| Action | Code |
| --- | --- |
| `Truncate`, `Fill` | the two halves of `writeRoadmapFile`, a truncating `writeFile` |
| `CreateTasks`, `Rewrite` | `appendRoadmapTasks`; a create that only refines, or a sprint |
| `StartPatch` ... `StartCancel` | the unlocked read of the task, with the status the handler will write |
| `Patch`, `Resume`, `Evidence`, `Cancel` | the locked re-read and write of `updateRoadmapTask` / `updateTaskLoop` |
| `Check`, `Close` | `closeCodewikiTask`: look for a report, then write `done` |
| `RebuildFails`, `Reload` | the rebuild that may throw, and the unlocked reload that follows it |
| `Archive`, `AppendSnapshot` | the two writes of the archiving section |
| `TaskNotFound`, `Unreadable` | the throw when the task is gone, or when the file that is read without the lock is half written |
| `ClearArchive`, `Validate`, `Crash` | clear-archive, a report written by a validator, the death of the process |

A locked section reads, computes and truncates in one step, and fills the file in
a later one; `holder` is the session in between, and `Free` the moment at which a
section may begin and can read. A handler that looks for its task without the lock
may meet the truncated file, and throws. A death inside a write leaves a file that
no handler can parse and nothing repairs: all hot tasks count as lost (`lost`), and
the roadmap stays as it is. A death between the two writes of an archiving loses
its one task. The sessions
share one process; with two processes the lock would not hold, as
`claims_two_processes` shows for the queue file.

### TaskReuse

`codewiki_task` create first looks for an open task its input belongs to, by a
score over common paths, labels and research, kind, title, and the share of words
in common, and refines it instead of making another. A title is the sequence of
its words (one text may stand inside another), every other text the set of its
words; a title of two words stands for one longer than ten characters. Priority,
dates and the events are left out, and so are inputs that name an id. `Dropped` are
the words that do not count: those shorter than three characters and the stopwords
of `tokenizeIntent`; the share of words in common is zero when none is left.
`RepeatedCreateAbsorbed` says that a create sent twice makes one task and that a
third time changes nothing, for every input, every open status of the task and
every create that came in between. It says nothing of the state and is asked
before the first create only, for the pairs of 196 inputs; `RepeatedCreatesAbsorbed`
proves it for inputs of any size. The antecedent of
`AbsorbsRepetition` is about inputs the code can recognise. One it cannot
(`Unrecognisable`: no path, label or research, and a title that leaves nothing to
compare or no word that counts) makes another task each time it is sent, which the
property says too. One without path, label or research whose task was refined by the
create in between is excepted.

### SessionHandoff

`disk[h]` is what the file of handoff `h` holds: a payload, of which only the
status is kept, an empty file, a payload with the end of a longer one behind it
(`"mixed"`), or nothing. A handoff's number is its id and its time of creation.
A session has at most one call under way: `on` is the handoff it has in hand,
`mark` the status it writes next.

| Action | Code |
| --- | --- |
| `Stage` | `buildSessionHandoffPayload`, up to the `writeFile` of `stageSessionHandoff` |
| `RunByPath`, `RunLatest`, `ReadNext`, `Choose` | `readStagedHandoff`, with a path or by listing and reading the files one at a time |
| `Open`, `Fill` | the two halves of every `writeFile`; `Fill` also goes on to what the caller does next |
| `NewSession` | `ctx.newSession` returns, is cancelled or throws |
| `Collect`, `DeleteCandidate` | the runtime half of `runCodewikiGc`: candidates in one synchronous scan, then `rm` one by one |
| `Crash` | a session dies |

No lock is taken anywhere in this code, so sessions of one process and of two
are the same to the model: steps of different sessions interleave at every
await. A session that has opened a file which is then deleted keeps writing to
the unlinked file (`linked`). `returned`, `known`, `left`, `contested` and
`abandoned` are history variables the properties are stated with. The first
mark of a mode and the last mark after `ctx.newSession` are tables (`FirstMark`,
`FinalMark`). A purge that covers other files than handoffs is not part of this
module.

### ResumeWork

The queue of claims is that of `ArtifactClaims`, whose actions stay as they are;
the claim of a resume is one more call. Of the roadmap only the statuses are
kept (`"closed"` is done or cancelled, `"gone"` is archived), of a session's
history the task of its latest link, of a claim also the task it names
(`taskOf`). `work[s]` is the task and the claim session `s` was last told to work
with; `live[s]`, a history variable, the claims that were live when it chose.

| Action | Code |
| --- | --- |
| `StartResume` | the rebuild and the focus read from the status view, or the task the user names |
| `ReadRoadmap`, `Select` | the two reads of `runResumeCommand` and `resolveImplementationTask` |
| `SetInProgress`, `Link` | `updateRoadmapTask` and `recordSessionTaskAction`, each of which throws when the task is gone |
| `CheckOwn`, `ClaimArtifacts` | `markResumeArtifactsInUse`: a claim of one's own, otherwise a new one |
| `Mark`, `QueueStep` | artifact-status calls of any session |
| `UpdateTask`, `RecordLink` | task and focus tools of any session |

Three things the code does and the model shows, which no property forbids: a
claim of one's own counts whatever its mode and scopes (`resume.ts:387`); a focus
that was cleared is resumed all the same, because the link that clears it names
the task too; and a task that was closed after the command read it is set in
progress again. Sessions wait for nothing in this module (`MaxWaits` 0): no
step of resume depends on a waiter.

### AlignmentGraph, CompilerBuilds, StateViews, PanelViews

These four are pure: operators over a workspace `w`, the record of what a
rebuild reads. A path is the sequence of its segments, a build the set of refs
and flags its readers tell apart. `Items(w)` is the set of reconciliation items;
`NextLoop` the loop that comes first among them. `NewBuild` and `NewReport` are
what a tool call writes, computed from the workspace as it is when the call
begins. `StatusLens(w)` is the lens a rebuild stores; `NextAction(v, link)`,
`AgencyPlan(v, in)`, `Snapshot(v, link, moved)`, `WorkingSet`, `HomePath`,
`HomeIssues`, `Board`, `Visible` and `Overview` are what the tools and the two
interfaces make of it. `Visible` is what `/api/graph` serves, `Drawn` the seventy
nodes the map draws of it in its default scope.

Each of these functions sorts, words, truncates and lays out far more than is
kept here. What is kept is which item is made, which is chosen, which list is
empty and which task is named. Ties that the code breaks by the order of ids
keep that order (`TaskIds`); where the choice is among items of one loop it is
left open. Persisted focus, parallel sessions and evidence counts are empty in
the code as well, because a rebuild hands its builders no events.

A validation report keeps its profile, verdict, task, source and isolation
class; audits are a set of names. The proof refs of an isolation are three flags
(fresh, immutable, worktree) and its cleanliness one of three values. Policy
profiles that add requirements by name are left out.

### Reconciliation

`files` is what the files hold, `torn` those truncated and not yet filled,
`tracked` and `dirty` what git would say, `stored` the views in
`index_graph.json`. `Seen` is what the code makes of git's list: it trims the
whole output before it cuts each line, so the first path, in the order
`Precedes`, loses its first character (`Clipped`). `ledger` has the restore
ledgers by name. `behind` and `purged` are history variables: something outside
the handlers came between the files and the stored graph; what was removed since
a ledger was opened.

| Action | Code |
| --- | --- |
| `WriteBuild`, `WriteReport` | the build and validation tools up to their `writeFile`: checks, gaps, record |
| `MoveTask`, `CloseTask`, `ArchiveTask` | the writes of task handlers under the queue's lock |
| `Consult` | state or agency tool with a refresh |
| `Truncate`, `Fill`, `Rebuild` | the two halves of `writeFile`, and the rebuild that follows unless `refresh=false` |
| `PurgeStart`, `PurgeOpen`, `PurgeLedger`, `PurgeDelete`, `PurgeEnd` | `runCodewikiGc`: candidates from the stored graph, the ledger truncated and filled, deletions one by one, rebuild unless `refresh=false` |
| `ApplyOp`, `FailOp`, `CliRead`, `CliStore` | a gateway transaction in a process of its own, its failing operation, its rebuild as a read and a later store |
| `Edit`, `Commit`, `Crash` | the user, git, the death of the pi process |

`generateIndexGraph` is synchronous, so a rebuild inside the pi process is one
step; it throws when any file does not parse, and then stores nothing. Changes are
taken for unstaged ones; a staged path that comes first keeps its letter. The
command line is another process, so between its read and its store anything may
happen. A file deleted while a handler has it open is filled where nobody finds
it.

### StatusPanel

A handler is a list of what it still has to do, await by await (`Script`); a
step is what happens between two awaits. `prefs` is
`~/.pi/codewiki-status-prefs.json`, `Torn` while it is truncated; an unreadable
file reads as the defaults, as in the code. `panels` are the panels opened so
far, `active` the global one, `keys` the one that receives input, `painted` the
one on the screen, `local` the one Alt+W remembers. `chosen` and `mixed` are
history variables: the mode last asked for, and whether two handlers' spans from
read to write overlapped.

`Tick` is the panel's timer, `Tab`, `Escape`, `EnterTask`, `EnterBlock` and
`KeySwitch` the keys, `Answer` the dialog the host shows (one at a time),
`ToggleOpen` and `ToggleClosed` Alt+W. Sections are two tabs instead of the
seven of the code, and the density setting is left out.

What the code does there and no property forbids: a cancelled reason still
blocks the task, with the default reason (`manager.ts:2054`); the timer of a
panel that was replaced keeps repainting it (`manager.ts:1884`), and a request
that is answered late repaints a closed one; Alt+W acts on a panel it remembers
although another has replaced it; a `turn_start` with the mode off clears the
panel Alt+W has opened; preferences read while another handler is writing them
are the defaults, and are written back.

## Runs

| Run | Instance | Shows |
| --- | --- | --- |
| `claims` | 2 sessions, a tree and two files of it, 3 claims, 1 waiter, `Keep` 2, clock 0..2, lifetime 2; patterns of up to 3 segments over `a`, `b`, empty, `*`, `**` | `TypeOK`, `WriteExclusion`, `PendingHasBlockers`, `ReadyStaleOnlyByNewest`, `RecordsOnlyEnd`; `OverlapIffSharedFile` for every pair of those patterns |
| `claims_store` | 2 sessions in 1 process, 2 calls each out of 9, 1 crash, clock 0..2 | `HolderExclusion`, `ToldHeld`, `TornSeenOnlyAfterCrash`; refinement of `ArtifactClaims` and of `HostQueue` |
| `claims_two_processes` | the same with 2 processes and no crash | violation of `HolderExclusion` |
| `mutation_queue` | 3 callers, 3 files, 4 path lists | `MutualExclusion`, `NobodyStuck`, `EveryCallReturns`; refinement of `HostQueue` |
| `roadmap` | 2 sessions, 2 tasks, batches of up to 2, 1 crash, also inside a write (5.0 million states) | `NothingLost`, `FreshIds`, `NoResurrection`, `CloseCitesReportWhileIdsUnique`; `RepeatedCreateAbsorbed` for pairs of inputs with 3 titles, 2 kinds, no, few or many words, words that do not count, and any mix of path, label and research |
| `roadmap_close_report` | the same without crash | violation of `CloseCitesOwnReport` |
| `roadmap_archived_status` | the same without crash | violation of `ArchivedWereClosed` |
| `session_handoff` | 3 sessions, 2 handoffs, 6 calls, 1 crash, purges of up to 2 | `NeverQueuedAgain`, `StartedIsRunning`, `TornOnlyByTwoOrDeath`, `LatestIsLatest`, `PurgeSparesAnnounced` |
| `resume` | 2 sessions, 2 tasks that share a file, 2 resumes, 1 tool call, 3 claims of which the file keeps 2, clock 0..2 | `WorkersApart`, `RefusedOnlyByRace` |
| `reconciliation` | a chain of four builds, half way or published; 2 overlapping calls with 3 builds and 3 reports to write; 3 deletions; 2 ledger names; 1 event out of a transaction, an edit, a commit, a crash | `GraphCurrent`, `LedgerCovers`, `HotIsRouted`, `DriftNotPurgeable`, `SurfacesAgree`, `PassIsTraceable` |
| `status_panel` | 2 repositories, 2 handlers at once, 2 panels, 10 mixes of operations | `PanelCoherent`, `BlockLandsWhereShown`, `ChoiceKept`, `OffIsHonoured` |
| `session_handoff_purge` | 2 sessions, 2 handoffs, 4 calls, no crash | violation of `ActiveHandoffRetained` |

Why the bounds suffice. Conflicts are between two sessions; a third adds no new
relation. Three claims with `Keep` 2 reach the slice, a claim after an expiry,
and a waiter blocked by two claims. A lifetime of two ticks on a clock of three
values has claims that are live, at the edge, and past it. Two calls per session
in `claims_store` suffice for claim against claim, claim then release, claim
then heartbeat, and wait against release; a lost update needs two. Three callers
make the longest circular wait the three files allow. Two tasks are needed to
see an archiving take the wrong one and an id handed out again. Three sessions
are two writers of one handoff and a purge beside them, or a stager, a reader
and a purge; two handoffs are an earlier and a later one for the latest to be
wrong about. Six calls stage both, run each, and leave two for a second run or a
purge. Two resumes are one against the other; the third claim makes the file
drop one that is still worked under, the tool call lets a status or a focus
change in between, and the clock lets a claim run out before or after the other
session looks. What more handoffs, sessions and calls could do is covered by the
proofs.

In `reconciliation` one published chain is the shortest history in which the
purge has several files to delete, and the half-way chain the shortest in which
every loop from documentation to validation is named; two ledger names let a purge
replace a ledger or write another; two calls suffice for one
to finish, fail or rebuild in the middle of the other, and the one event outside
for a crash between two deletions or a stale store. The builds and reports to
write are those that change a class: one that supersedes, one that shelves a
plan, one that withdraws approval; a pass, a failure, a pass that was not
isolated. `DriftNotPurgeable` leaves lint issues
aside: lint complains of builds whose evidence or task is missing, among them
some that may be purged, and the issue goes with its build.

In `status_panel` what a user does is split into ten mixes; each
holds the operations that act on one piece of state together, because all of
them at once do not fit. Two panels are one that is replaced and one that
replaces it, two repositories one that is shown and one that is meant.

All runs but `mutation_queue` set `CHECK_DEADLOCK FALSE`: their clocks, calls or
tasks are bounded, and a behaviour ends when the bound is reached. In
`mutation_queue` calls come for ever, and deadlock is checked; `NobodyStuck` says
more, for a new call is always possible while old ones stand still.

Symmetry of sessions is used in `claims`, `claims_store`, `session_handoff`,
`resume` and the roadmap runs, and of handlers and ledger names in
`reconciliation`; none of them
has a liveness property.

### Fairness

`mutation_queue` gives each caller weak fairness on the steps of a call under
way. The event loop runs every settled promise, and the mutations are file
operations that settle; nothing else is assumed, in particular not that calls
arrive. A mutation that never settles would block its files for ever, in the
model as in the code.

`status_panel` gives each handler under way weak fairness for the same reason;
dialogs are answered. `OffIsHonoured` needs one thing more: a refresh in flight
when the mode is set to `off` may still show its line, and what takes it away is
the `turn_start` handler. Strong fairness on `Turn` says that the user goes on
talking to the agent. In a session that is left alone the line stays.

## Findings

* **Claims of two processes do not exclude one another.** `mutateChangeClaims`
  relies on the in-process queue. The run `claims_two_processes` ends with two
  sessions holding the same tree, both granted without force.
* **An old report closes a new task.** After `clear-archive`, ids are handed out
  again, and `hasPassingTaskCloseValidation` matches reports by id.
* **An open task reaches the archive.** A patch without a status writes back the
  status it read before a close. The close then reloads and archives the task as
  `todo`, and the roadmap has lost it.
* **The purge deletes a queued handoff.** A file that does not parse counts as
  garbage. A handoff caught between the truncation and the write of its file is
  chosen, and deleted by its path once it is complete.

While ids are unique the second cannot happen
(`CloseCitesReportWhileIdsUnique`), and in one process the first cannot
(`HolderExclusion` in `claims_store`; `HoldersExclude` and `WritesExclude` for all
values). The fourth
needs the scan to meet the staging: what was announced before the purge looked
survives (`PurgeSparesAnnounced`).

### Other things seen while modelling

These contradict no line of the code's documentation. The models do most of them
too, because the code does.

* The archive proof of a purge shows that the commit exists and has the named
  tree, not that each purged file is in it as it is on disk (`gc.ts:284`).
* A restore ledger is written under the name the caller gives, or that of the
  moment (`gc.ts:129-132`, 160), and replaces one that is there: what the
  earlier one named is then in no ledger, and `LedgerCovers` speaks of a ledger
  until it is replaced only.
* A process that dies inside a write of `queue.json` leaves a file that does not
  parse (`roadmap.ts:1182`): all hot tasks are gone, as `NothingLost` says.
* `git-cache.ts` trims the output of `git status` before it cuts the lines
  (28, 47): an unstaged first path loses its first letter, and that change is seen
  nowhere. The graph is current in the sense that a rebuild would say the same.
* The control room's map draws seventy nodes in its default scope
  (`control-room.ts:1409`); hot evidence further down the list is served and not
  drawn.
* A candidate may be rewritten between the choice and its deletion, and is
  deleted all the same.
* Reports are named by day, profile, verdict and task: a second one of a day
  replaces the first, and an older pass answers a newer block.
* A build that was superseded can still hold back an open task, and its failed
  report still routes work.
* Only one level upstream is checked when a report passes; a proposed plan
  counts as consuming the documentation it names.
* A previous `index_graph.json` that was left half written makes every rebuild
  throw until somebody removes it.
* The state tool ignores the graph's action as long as a task is focused; with
  only container tasks open it names one, and the panel says that the roadmap is
  clear.
* The control room reads `index_graph.json` three times for one page, and may mix
  two graphs.
* A create without labels, paths and research that is repeated makes a second
  task of the same title when none of its words counts (title and summary `UI`),
  or when its task was refined at length in between: title and kind score nine,
  and ten are needed (`roadmap.ts:518`). `AbsorbsRepetition` says the first and
  excepts the second.
* A mode that is chosen while another handler is between its read and its write of
  the preferences may be lost, and a block lands in the repository the panel was
  turned to while the reason was asked for. `mixed` and `crossed` take exactly these
  cases out of `ChoiceKept` and `BlockLandsWhereShown`, which cover the others.
* A title without any of `a` to `z` or a digit, say in another script, matches no
  other, itself included (`roadmap.ts:634`): such a create is recognised only by
  its paths, labels, research and the rest of its words.

## Proofs

Proved for every value of the constants, from the assumptions named beside the
constants and nothing else: any sessions, handlers, paths, inputs and bounds.
Every invariant that a passing run checks is proved, every action property and
every refinement; `ToldHeld` and `HolderExclusion` under the conditions named
below. Each component has one inductive invariant, called `IInv` or after what it
is for, with a lemma per action or per part.

**Overlap** (`ClaimsFileProofs`). `OverlapCommutes`: scope overlap is symmetric.
`pathsOverlap` and each anchor are treated in turn. `OverlapIsSharedFile`
(`ArtifactClaimsProofs`): the code's prefix test and the reference reading of
globs agree, for any segments and any depth. `Matches` recurses over the
segments of the pattern, so the proof first says in closed form how far each
prefix reaches (`SegmentsReach`), shows by counting up (`UpTo`, from the least
counterexample) that a function obeys the recursion exactly when it has those
values (`RecursionReaches`), and so reduces a prefix pattern to its base
(`PrefixPatternCovers`); the longer of two bases is then the file that
overlapping patterns share. The other lemmas of `ClaimsFileProofs` show that
reading, expiring, refreshing, releasing, beating and writing map well-formed
files to well-formed files.

**Artifact-status queue, atomic** (`ArtifactClaimsProofs`).

* `TypeCorrect`, `WritesExclude`. `WriteExclusion` speaks of the claims live at
  `now` and is not inductive: the next call may decide by a clock sample older
  than `now`, at which more claims are live. The invariant is exclusion at
  `synced`, the moment behind which no later call can look
  (`ExclusiveAt(file, synced, forced)`). Claims only run out as time passes, so
  exclusion at one time is exclusion at every later one (`ExclusiveLater`).
* `PendingForAReason`, `ReadyButForNewest`, `RecordsStayEnded`. All three follow
  from one description of what any call does to the file (`Effect`): either it
  stays, or it is the cut of a file in which claims have only ended, at most one
  is new, and every waiter that was not ended has been looked at again at one
  clock (`Follows`). The cut itself drops claims from the old end only, which is
  why a pending waiter may name a claim that is older than all that are left.

**Resume** (the last section of the same module). `ResumeTypeCorrect`,
`WorkersKeepApart`, `RefusalIsARace`. A resume's claim is one more call on the
queue, so `IInv` holds beside it. What has to be added is that a session works
under a claim of its own which names its task (`WorkOK`, `WorksUnderOwn`), also
when the file no longer has it, and that nothing that was live when a session
chose stands in its way (`ChosenWasFree`): the test that makes a task look free
is then the one the conflict scan will make, but for what is new. `Executable`
has to be a set of tasks, which the model had not said.

**Artifact-status queue, step by step** (`ClaimsStoreProofs`). With
`OneQueue`, the assumption that all sessions run in one process:

* `TypeCorrect` needs no such assumption: two processes that write over one
  another lose records but never mix them.
* `TornOnlyAfterCrash`, `HeldIsRecorded`, `HoldersExclude`. The invariant says
  who stands where in the line (`InLine`), that a file is half written while its
  writer is at work or since one died (`TornOnlyThen`), and, the heart of it,
  that what a call is about to write it worked out from the file as it still is
  (`UpToDate`). From that follow exclusion at `synced` and that what a session
  was told is in the file (`ToldTrue`). The last two theorems have the condition
  `file.next_sequence <= Keep + 1`: as long as no more claims were ever made
  than the file keeps. It is the code's own limit: `slice(-200)` drops the oldest
  records, live or not, and does not tell the holder. Without the condition both
  properties are false; the run's calls stay below it.
* `WritesExclude`, `PendingForAReason`, `ReadyButForNewest`, `RecordsStayEnded`:
  what `ArtifactClaims` promises of the file between two calls holds of it at
  every moment of the reads and writes, after every crash, and without the
  condition on `Keep`, for it is about the records that are there. A write was
  worked out from the file it replaces at a clock no later than now
  (`StoreEffect`), so it is a cut of what follows from that file, and the lemmas
  about `Follows`, in `ClaimsFileProofs`, serve both specifications.
* `ServesInTurn`, without `OneQueue`: the line of each process is a line of
  `HostQueue`. A session stands in its line once (`OnceInLine`), and the one whose
  call has the file is at the head.
* `Implements`: the steps implement `ArtifactClaims`. Reading and computing
  stutter, the write that fills the file is the abstract call, with the clock
  sample it took when it read. The abstract bounds on claims and waiters are met
  by counting: each id that was handed out belongs to a call of its own
  (`Counted`). The proof found one fault of the model: a caller may release or
  prolong a record by any id, and the abstract specification had such calls only
  for ids that are in the file. `UnknownRecord` stands for the others there, and
  `AnyTarget` says what a caller of the store may name.

**Mutation queue** (`MutationQueueProofs`).

* `TypeCorrect`, `MutuallyExclusive`. A caller is at the head of the line of each
  path it has (`HeldAtHead`), and the depth fits the phase (`DepthFits`).
* `NeverStuck`. Every place in a line is one its caller's plan and depth account
  for, with nobody in it twice (`LinesInv`). Plans are strictly sorted, so
  whoever waits does so for a path below the one its head waits for
  (`WaitsUpwards`). That excludes circles; with any number of callers it must
  also be shown that waiting upwards ends. At any time only so many calls have
  come, so the plans have a last path (`PlansEnd`), and of those that wait, the
  one that waits for the greatest (`GreatestNumber`) has its turn, or stands
  behind a call that does not wait. Neither callers nor files need be finitely
  many.
* `ServesInTurn`: each step is a join, a begin or a leave of `HostQueue`, or
  changes nothing of it. A lock that is taken shows as the join of the next
  line; the mutation begins under all its paths at once, which is why it has to
  be at the head of every one of their lines.

**Roadmap** (`RoadmapTasksProofs`).

* `TypeCorrect`, `TasksAreKept`, `IdsAreFresh`, `NothingReturns`,
  `ClosesCiteReports`. The properties speak of the identity of tasks, the code of
  ids. `RecordsTrue` joins them: every record, in a file or in a handler's hand,
  is about a task created under its id. While ids are unique, the task that
  leaves the roadmap under an id is then the task the handler has read. A handler
  that is about to close has seen a report with the id of its task (`CallOK`);
  reports are never removed. `NothingLost` and `FreshIds` carry each other along:
  an id is fresh because every task is accounted for, and a task is accounted for
  because nobody else has its id.
* `RepetitionIsAbsorbed`: `AbsorbsRepetition` for titles, texts and lists of any
  size. No task scores more for an input than the points of all it names plus 17
  for kind, title and words (`ScoreBounds`); the task the first create made has
  exactly those, so the task in between cannot take its place, and refining with
  what is there already changes nothing (`RefinesNothing`).
  `RepeatedCreatesAbsorbed` states the run's property by it. The assumption on the
  inputs (`InputsType`) is only that lists are finite; what becomes of inputs
  the code cannot recognise (`Unrecognisable`) is part of the statement, for any set
  of words that do not count.

**Session handoff** (`SessionHandoffProofs`). `TypeCorrect`, `QueuedOnce`,
`StartedRuns`, `TornExplained`, `LatestTaken`, `AnnouncedSpared`, one for each
property of the run. The base of `IInv` says whose numbers are in use and which
phase goes with which mark; its core, `StagerAlone`, says that while the first
write of a handoff is under way its file holds no payload, so nobody else has
read one, and only the stager can make it `queued`; together with "the file is
written by the sessions that have it in hand" this keeps a handoff that has left
the queue out of it, and tells who is answerable for a file that does not parse.
The two action properties follow from `IInv` and from what was announced before
the scan began. Each action is treated once per part of `IInv` (`NextBase`,
`NextQueued`, `NextStarted`, `NextTorn`).

**Reconciliation** (`ReconciliationProofs`).

* `GraphIsCurrent`: the stored graph is what a rebuild of the files would now
  make. What a graph is made of plays no part, the clipped first path included:
  `View` is never expanded, only that it is a function of the files and of what
  git lists (`ViewStays`). Beside the shape of the calls, a file that does not
  parse has a handler about to fill it (`TornOwned`), what the command line is
  about to store has not been overtaken (`StoreFresh`), and unless somebody is
  on the way to a rebuild the stored graph is current (`Repaired`). Without the
  first a rebuild might fail with nobody left to repeat it.
* `PurgeIsLogged`, from the fact that what is still to be deleted is in the
  purge's ledger before the first deletion (`Purging`), and that a ledger which
  is truncated has nothing removed under it yet (`LedgerStep`): each ledger
  names what was removed since it was opened.
* `PassingIsTraceable`: what an empty list of isolation, readiness and
  traceability gaps says of a workspace (`PassedImplementation`, `AcceptedRefs`),
  and that a handler takes its gaps from the files as they are when it begins
  (`ReportsBegin`). Audits play no part.
* `HotWorkIsRouted` and `PurgeSparesDrift` are about the graph of any workspace,
  with what the files can hold as the only facts from the behaviour: builds are
  of the four loops (`KindInv`), builds and reports lie in their directories and
  no build has the state `purged` (`PlaceInv`). Where a file comes from is settled
  once, for all of them (`FilesComeFrom`, `PendingComesFrom`).
* `TypeCorrect`, from `TypeInv`.
* `LensDriftIsRouted` and `HotIsVisible`: two parts of `SurfacesAgree` that hold
  of the derivations themselves, in any workspace and without a list of tasks. The
  second goes on to the map: whatever the order of the nodes, hot evidence is drawn
  or stands behind the first seventy.
* `SurfacesSayTheSame`: all of `SurfacesAgree`. The lens and the pages filter
  lists of tasks, and `Kept`, the filter, is a recursive function: the proof shows
  by counting up that such a function exists and what it has kept at each index
  (`FilterExists`, `Sifted`, `KeptIs`), that lists without repetitions are as long
  as they have elements (`OnceCounted`, `OnceLengths`), and from there what each
  list of the lens holds (`OfStatusIs`, `OpenTasksAre`, `LensIs`). One lemma for
  each reader says what it makes of them: `StateAdvice`, `AgencyAdvice`,
  `PanelFollows`, `WorkingSetIs`, `HomeIsHonest`, `CursorIsDrawn`, `LanesCounted`,
  `LinesAre`, `ControlOpenIs`, `BoardHasRoom`. That the graph tab shows drift
  exactly if there is some needs finitely many items, or a count would say nothing
  (`ItemsAreFinite`), and that every item asks for one of five loops (`ItemsRun`).
  The behaviour enters by `SurfaceInv`: tasks are known by id and status, also
  those a suspended handler is about to write (`KeepsTasks`), and the files are
  finitely many; and by `GraphInv`, which makes the stored lens that of the files.

  The assumptions on the seeds and the inputs are what the code guarantees: the
  tools build the paths themselves; no caller may ask for the state `purged`,
  which `adapters/pi/schemas.ts:396` does not list; the tasks of `queue.json` have
  one of the five statuses, to which `normalizeRoadmapStatus` (`roadmap.ts:1366`)
  reduces any other before a tool writes it (a rebuild reads the file as it is, so
  a status edited by hand is outside the theorem); and a report that says nothing
  about its isolation claims no fresh context (`builds.ts:329` against
  `graph.ts:444`).

**Status panel** (`StatusPanelProofs`). `TypeCorrect`, `ScreenAgrees`,
`BlocksLand`, `ChoiceStays`. None of the last three is inductive, because what a
suspended handler will still do decides whether it may paint, block or write.
`CallFits` says what a call of each kind can have left to do; `Seated` which
panel it was started on and in what state that panel is by then; `ShowsOwn` that
a panel shows a task of its own repository; `Alone` what the one call that writes
the preferences has read. The assumption that the saved preferences of a mix are
preferences or unreadable (`PrefsAssumption`) had to be made explicit.

### Model-checked only

`EveryCallReturns` and `OffIsHonoured`: liveness under fairness. What of the first
is safety is proved (`NeverStuck`); that the line of a busy path starves nobody
needs the fairness. The violations under Findings are counterexamples of TLC.

## Plan

Models to add: the content of sprints in `RoadmapTasks`; claims and revisions in
the graph; the lint rules about structure; the diff table as a working file of
its own.

## Not modelled

* Nodes and edges of the graph, revisions, research and test nodes: no choice of
  the program depends on them but through the items and classes that are
  modelled.
* Roadmap: what a sprint writes (its content is part of the graph's input, the
  write itself is `Rewrite`), checkpoints and events; a half-written archive.
* Gateway: the matching of a patch against a text; policy globs are the set of
  paths that may be written.
* Status interface: settings, channel, system and diff pages, density, layout.
* Lint and audit rules, the diff table, prompt and skill text, templates,
  bootstrap: text, or files with one writer that nothing else in the core reads.
* Schemas and tool registration only forward calls. The host's per-file queue
  and the file system are external and enter by what the code relies on.

## Running

    tlc -workers 2 -config MCArtifactClaims.cfg MCArtifactClaims.tla
    tlapm ArtifactClaimsProofs.tla

The longest runs (`status_panel`, `roadmap`) take two to three minutes,
`resume`, `reconciliation`, `claims`, `claims_store` and `session_handoff` one
to two. `tlapm` takes from seconds to some minutes for a module.
