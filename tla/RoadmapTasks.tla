----------------------------- MODULE RoadmapTasks -----------------------------
(***************************************************************************)
(* The roadmap of a project: the hot tasks of the roadmap file, the        *)
(* archive file closed tasks move to, and the codewiki_task and resume     *)
(* handlers that sessions run against both at the same time.               *)
(*                                                                         *)
(* A handler is a chain of unlocked reads and of sections that hold the    *)
(* mutation queue of the files they write (module MutationQueue).  The     *)
(* roadmap file is written by truncating and then filling it, which is two *)
(* steps with the file held in between; the section that archives a task   *)
(* holds both files and appends a line to the archive after that.          *)
(* Nothing repairs a roadmap file that a death has left truncated: every   *)
(* handler that reads it throws from then on.                              *)
(* The project keeps no closed task hot (closed_task_limit = 0, as this    *)
(* repository's own configuration does) and configures archive_path.       *)
(***************************************************************************)
EXTENDS Integers, FiniteSetsExt, SequencesExt

CONSTANTS
    Session,     \* sessions that share the mutation queue
    NoSession,   \* nobody is writing the roadmap file
    NoTask,      \* no task record was read
    MaxTasks,    \* bound on the tasks ever created
    MaxBatch,    \* bound on the new tasks of one create call
    MaxCrashes   \* bound on the process deaths

ASSUME BoundsAreNaturals == {MaxTasks, MaxBatch, MaxCrashes} \subseteq Nat
ASSUME NullsAreApart == NoSession \notin Session

VARIABLES
    tasks,    \* roadmap file: task id -> record; while torn, what it is to hold
    order,    \* roadmap file: the ids in display order
    torn,     \* the roadmap file is truncated or half written
    archive,  \* archive file: the snapshots it holds
    reports,  \* passing task-close validation reports
    call,     \* per session, where its handler stands and what it has read
    holder,   \* the session writing the roadmap file, or after it the archive
    births,   \* history: the id each task ever created was given
    cleared,  \* history: births whose snapshot clear-archive erased
    lost,     \* history: births whose record was nowhere when a process died
    crashes   \* number of process deaths so far

files == <<tasks, order, torn, archive, reports>>
history == <<births, cleared, lost, crashes>>
vars == <<files, call, holder, history>>

OpenStatus == {"todo", "in_progress", "blocked"}
ClosedStatus == {"done", "cancelled"}
Status == OpenStatus \cup ClosedStatus
EvidenceStatus == {"in_progress", "blocked"}

\* A record keeps its birth, the position in births of the task it is about:
\* the code has no such field, the properties tell two tasks of one id apart
\* with it.
Id == 1..MaxTasks
Task == [id : Id, status : Status, birth : 1..MaxTasks]
Report == [id : Id, birth : 1..MaxTasks]

ASSUME NoTaskIsNoRecord == NoTask \notin Task

Stage == {"idle", "patch", "resume", "evidence", "closeEvidence", "check", "close",
          "reload", "archive", "append", "cancel"}

\* A handler that has returned or thrown keeps nothing.
Returned == [stage |-> "idle", task |-> NoTask, status |-> "todo"]

-----------------------------------------------------------------------------
\* Mutant: the archive is not read.
NextIdOfHotTasks == Max({0} \cup DOMAIN tasks) + 1

(* The id a new task gets: one more than every hot and every archived id.  *)
nextTaskId == Max({0} \cup DOMAIN tasks \cup {snapshot.id : snapshot \in archive}) + 1

Hot(id) == id \in DOMAIN tasks
Goto(s, stage) == call' = [call EXCEPT ![s].stage = stage]
Return(s) == call' = [call EXCEPT ![s] = Returned]
Read(s, stage, id, status) ==
    /\ ~torn
    /\ Hot(id)
    /\ call' = [call EXCEPT ![s] = [stage |-> stage, task |-> tasks[id], status |-> status]]

Target(s) == call[s].task.id

\* A section that begins by reading the roadmap file can begin and read it.
Free == holder = NoSession /\ ~torn

\* writeRoadmapFile begins: the file is truncated.
Truncate(s) == torn' = TRUE /\ holder' = s

-----------------------------------------------------------------------------
(* writeRoadmapFile ends: the file holds what was to be written.  A        *)
(* section that archives goes on, any other is over.                       *)
Fill(s) ==
    /\ holder = s
    /\ torn
    /\ torn' = FALSE
    /\ holder' = IF call[s].stage = "append" THEN s ELSE NoSession
    /\ UNCHANGED <<tasks, order, archive, reports, call, history>>

(* create: the inputs that relate to an open task refine it, which changes *)
(* nothing the properties see; n inputs become new tasks, in one write.    *)
CreateTasks(s, n) ==
    LET new == nextTaskId .. nextTaskId + n - 1
        birthOf(id) == Len(births) + 1 + (id - nextTaskId)
    IN  /\ call[s].stage = "idle"
        /\ Free
        /\ Len(births) + n <= MaxTasks
        /\ tasks' = [id \in DOMAIN tasks \cup new |->
                        IF id \in new
                        THEN [id |-> id, status |-> "todo", birth |-> birthOf(id)]
                        ELSE tasks[id]]
        /\ order' = order \o [i \in 1..n |-> nextTaskId + i - 1]
        /\ births' = births \o [i \in 1..n |-> nextTaskId + i - 1]
        /\ Truncate(s)
        /\ UNCHANGED <<archive, reports, call, cleared, lost, crashes>>

(* A create that only refines, or a sprint: the file is written again with *)
(* what the properties see of it.                                          *)
Rewrite(s) ==
    /\ call[s].stage = "idle"
    /\ Free
    /\ Truncate(s)
    /\ UNCHANGED <<tasks, order, archive, reports, call, history>>

(* The unlocked reads handlers begin with: the record, and the status the  *)
(* handler will write.  A patch without a status asks for the one it read, *)
(* which is one of the choices of status.                                  *)
StartPatch(s, id) ==
    /\ call[s].stage = "idle"
    /\ \E status \in Status : Read(s, "patch", id, status)
    /\ UNCHANGED <<files, holder, history>>

\* Resume moves a task that waits to in_progress.
StartResume(s, id) ==
    /\ call[s].stage = "idle"
    /\ Hot(id) => tasks[id].status \in {"todo", "blocked"}
    /\ Read(s, "resume", id, "in_progress")
    /\ UNCHANGED <<files, holder, history>>

\* Evidence "block" blocks the task, any other verdict puts it in progress.
StartEvidence(s, id) ==
    /\ call[s].stage = "idle"
    /\ \E status \in EvidenceStatus : Read(s, "evidence", id, status)
    /\ UNCHANGED <<files, holder, history>>

\* A close call may bring evidence, which is recorded first.
StartClose(s, id) ==
    /\ call[s].stage = "idle"
    /\ \/ Read(s, "check", id, "done")
       \/ \E status \in EvidenceStatus : Read(s, "closeEvidence", id, status)
    /\ UNCHANGED <<files, holder, history>>

StartCancel(s, id) ==
    /\ call[s].stage = "idle"
    /\ Read(s, "cancel", id, "cancelled")
    /\ UNCHANGED <<files, holder, history>>

-----------------------------------------------------------------------------
\* Mutant: the record read before the lock is written back.
WriteBackSeen(s, status) ==
    LET seen == [call[s].task EXCEPT !.status = status]
    IN  /\ Free
        /\ tasks' = [id \in DOMAIN tasks \cup {seen.id} |->
                        IF id = seen.id THEN seen ELSE tasks[id]]
        /\ Truncate(s)
        /\ UNCHANGED <<order, archive, reports, history>>

(* updateTaskLoop: under the lock, the record is read again by its id and  *)
(* gets the status; a task that is gone throws.                            *)
SetStatus(s, status) ==
    /\ Free
    /\ Hot(Target(s))
    /\ tasks' = [tasks EXCEPT ![Target(s)].status = status]
    /\ Truncate(s)
    /\ UNCHANGED <<order, archive, reports, history>>

(* updateRoadmapTask: the same, but nothing is written when nothing would  *)
(* change.                                                                 *)
Update(s, status) ==
    \/ SetStatus(s, status)
    \/ /\ Free
       /\ Hot(Target(s))
       /\ tasks[Target(s)].status = status
       /\ UNCHANGED <<files, holder, history>>

Patch(s) ==
    /\ call[s].stage = "patch"
    /\ Update(s, call[s].status)
    /\ \/ Return(s)
       \/ \E status \in EvidenceStatus :
             call' = [call EXCEPT ![s].stage = "evidence", ![s].status = status]

Resume(s) ==
    /\ call[s].stage = "resume"
    /\ Update(s, call[s].status)
    /\ Return(s)

Evidence(s) ==
    /\ call[s].stage \in {"evidence", "closeEvidence"}
    /\ SetStatus(s, call[s].status)
    /\ IF call[s].stage = "evidence"
       THEN Return(s)
       ELSE call' = [call EXCEPT ![s].stage = "check", ![s].status = "done"]

Cancel(s) ==
    /\ call[s].stage = "cancel"
    /\ Update(s, call[s].status)
    /\ Return(s)

\* Mutant: a report on any task will do.
AnyReport(id) == reports # {}

(* closeCodewikiTask: any passing task-close report that names the id.     *)
hasPassingTaskCloseValidation(id) == \E report \in reports : report.id = id

Check(s) ==
    /\ call[s].stage = "check"
    /\ ~torn
    /\ Hot(Target(s))
    /\ IF hasPassingTaskCloseValidation(Target(s)) THEN Goto(s, "close") ELSE Return(s)
    /\ UNCHANGED <<files, holder, history>>

Close(s) ==
    /\ call[s].stage = "close"
    /\ Update(s, call[s].status)
    /\ Goto(s, "reload")

(* The rebuild after the close throws: the task is done and stays hot.     *)
RebuildFails(s) ==
    /\ call[s].stage = "reload"
    /\ holder # s
    /\ Return(s)
    /\ UNCHANGED <<files, holder, history>>

(* The snapshot to archive is read again, without a lock; when the task is *)
(* gone by then, the record read at the start of the call is archived.     *)
Reload(s) ==
    /\ call[s].stage = "reload"
    /\ ~torn
    /\ call' = [call EXCEPT ![s].stage = "archive",
                            ![s].task = IF Hot(Target(s)) THEN tasks[Target(s)] ELSE @]
    /\ UNCHANGED <<files, holder, history>>

\* Mutant: every closed task leaves the roadmap with the one just closed.
DropAllClosed(s) == {id \in DOMAIN tasks : id = Target(s) \/ tasks[id].status \in ClosedStatus}

\* The tasks an archiving takes off the roadmap: the one that was closed.
Archived(s) == {Target(s)} \cap DOMAIN tasks

\* The ids of a list that are not in gone, in the same order (Array filter).
Without(ids, gone) ==
    LET kept[n \in 0..Len(ids)] ==
            IF n = 0 THEN <<>>
            ELSE IF ids[n] \in gone THEN kept[n - 1] ELSE Append(kept[n - 1], ids[n])
    IN  kept[Len(ids)]

(* The archiving section: the task leaves the roadmap file, then the       *)
(* snapshot is appended to the archive file.                               *)
Archive(s) ==
    /\ call[s].stage = "archive"
    /\ Free
    /\ tasks' = [id \in DOMAIN tasks \ Archived(s) |-> tasks[id]]
    /\ order' = Without(order, Archived(s))
    /\ Truncate(s)
    /\ Goto(s, "append")
    /\ UNCHANGED <<archive, reports, history>>

AppendSnapshot(s) ==
    /\ call[s].stage = "append"
    /\ ~torn
    /\ archive' = archive \cup {call[s].task}
    /\ holder' = NoSession
    /\ Return(s)
    /\ UNCHANGED <<tasks, order, torn, reports, history>>

(* The task a handler read is gone when the handler looks again.           *)
TaskNotFound(s) ==
    /\ call[s].stage \in {"patch", "resume", "evidence", "closeEvidence", "check",
                          "close", "cancel"}
    /\ ~torn
    /\ call[s].stage # "check" => Free
    /\ ~Hot(Target(s))
    /\ Return(s)
    /\ UNCHANGED <<files, holder, history>>

(* A handler looks for its task without the lock while another writes the  *)
(* file: what is there does not parse and the handler throws.              *)
Unreadable(s) ==
    /\ call[s].stage \in {"patch", "evidence", "closeEvidence", "check", "reload", "cancel"}
    /\ torn
    /\ holder # s
    /\ Return(s)
    /\ UNCHANGED <<files, holder, history>>

(* clear-archive holds the archive file alone and empties it, which an     *)
(* archiving holds too.                                                    *)
ClearArchive(s) ==
    /\ call[s].stage = "idle"
    /\ holder # s
    /\ \A r \in Session : call[r].stage # "append"
    /\ archive # {}
    /\ archive' = {}
    /\ cleared' = cleared \cup {snapshot.birth : snapshot \in archive}
    /\ UNCHANGED <<tasks, order, torn, reports, call, holder, births, lost, crashes>>

(* A validator looks at a hot task and writes a passing report; nothing    *)
(* ever removes a report here.                                             *)
Validate(id) ==
    /\ ~torn
    /\ Hot(id)
    /\ reports' = reports \cup {[id |-> id, birth |-> tasks[id].birth]}
    /\ UNCHANGED <<tasks, order, torn, archive, call, holder, history>>

HotBirths == {tasks[id].birth : id \in DOMAIN tasks}
\* Tasks that have left the roadmap file and not reached the archive.
BirthsInHand == {call[s].task.birth : s \in {r \in Session : call[r].stage = "append"}}

(* The process dies: every session's handler with it, the snapshot of a    *)
(* task that is on its way to the archive, and, when a write of the        *)
(* roadmap file was under way, every hot task.                             *)
Crash ==
    /\ crashes < MaxCrashes
    /\ crashes' = crashes + 1
    /\ lost' = lost \cup BirthsInHand \cup IF torn THEN HotBirths ELSE {}
    /\ tasks' = IF torn THEN <<>> ELSE tasks
    /\ order' = IF torn THEN <<>> ELSE order
    /\ call' = [s \in Session |-> Returned]
    /\ holder' = NoSession
    /\ UNCHANGED <<torn, archive, reports, births, cleared>>

-----------------------------------------------------------------------------
Init ==
    /\ tasks = <<>>
    /\ order = <<>>
    /\ torn = FALSE
    /\ archive = {}
    /\ reports = {}
    /\ call = [s \in Session |-> Returned]
    /\ holder = NoSession
    /\ births = <<>>
    /\ cleared = {}
    /\ lost = {}
    /\ crashes = 0

Start(s) ==
    \/ \E n \in 1..MaxBatch : CreateTasks(s, n)
    \/ Rewrite(s)
    \/ \E id \in Id :
          StartPatch(s, id) \/ StartResume(s, id) \/ StartEvidence(s, id)
             \/ StartClose(s, id) \/ StartCancel(s, id)

Continue(s) ==
    \/ Fill(s)
    \/ Patch(s)
    \/ Resume(s)
    \/ Evidence(s)
    \/ Cancel(s)
    \/ Check(s)
    \/ Close(s)
    \/ RebuildFails(s)
    \/ Reload(s)
    \/ Archive(s)
    \/ AppendSnapshot(s)
    \/ TaskNotFound(s)
    \/ Unreadable(s)

Next ==
    \/ \E s \in Session : Start(s) \/ Continue(s) \/ ClearArchive(s)
    \/ \E id \in Id : Validate(id)
    \/ Crash

Spec == Init /\ [][Next]_vars

-----------------------------------------------------------------------------
ArchivedBirths == {snapshot.birth : snapshot \in archive}
IdsUnique == IsInjective(births)

\* A record is kept under its id, and the order lists each hot task once.
FilesOK ==
    /\ DOMAIN tasks \subseteq Id
    /\ \A id \in DOMAIN tasks : tasks[id] \in Task /\ tasks[id].id = id
    /\ order \in Seq(Id) /\ ToSet(order) = DOMAIN tasks
    /\ IsInjective(order)
    /\ archive \subseteq Task
    /\ reports \subseteq Report

\* The state has its shape (the records readRoadmapFile returns and the order
\* every writer keeps with them, application/roadmap.ts).
TypeOK ==
    /\ FilesOK
    /\ call \in [Session -> [stage : Stage, task : Task \cup {NoTask}, status : Status]]
    /\ \A s \in Session : call[s].stage = "idle" <=> call[s].task = NoTask
    /\ torn \in BOOLEAN
    /\ holder \in Session \cup {NoSession}
    /\ \A s \in Session :
          /\ call[s].stage = "append" => holder = s
          /\ holder = s => torn \/ call[s].stage = "append"
    /\ births \in Seq(Id) /\ Len(births) <= MaxTasks
    /\ cleared \cup lost \subseteq DOMAIN births
    /\ crashes \in 0..MaxCrashes

\* No task disappears: as long as no id was given out twice, every task ever
\* created is hot, archived, on its way to the archive, erased by an explicit
\* clear-archive, or died with a process.  What a process takes with it is what
\* Crash says: a task between the two writes of an archiving, or, when it dies
\* inside a write of the roadmap file, every task that was hot.  Only a death does
\* so: no order of the handlers loses a task (the archiving of
\* application/tools/task.ts against every other writer of the two files).
NothingLost ==
    IdsUnique =>
        DOMAIN births = HotBirths \cup ArchivedBirths \cup BirthsInHand \cup cleared \cup lost

\* An id is given out once, as long as no snapshot was erased or died: the
\* archive read by nextTaskIdSequenceForProject stands for every task that left
\* the roadmap, though creating does not lock the archive file.
FreshIds == cleared \cup lost = {} => IdsUnique

\* A task that left the roadmap never returns, whatever the handlers that read
\* it before it left still write (the second look-up of updateRoadmapTask and
\* updateTaskLoop).
NoResurrection == [][\A birth \in DOMAIN births \ HotBirths : birth \notin HotBirths']_vars

CloseCitesReport(s) ==
    call[s].stage = "close" /\ call'[s].stage = "reload" =>
        \E report \in reports : report.birth = tasks[Target(s)].birth

\* While ids are unique, the close path sets a task to done only when a report
\* on that very task exists (closeCodewikiTask).
CloseCitesReportWhileIdsUnique == [][IdsUnique => \A s \in Session : CloseCitesReport(s)]_vars

\* The close path sets a task to done only when a passing task-close report on
\* that task exists, without restriction.
CloseCitesOwnReport == [][\A s \in Session : CloseCitesReport(s)]_vars

\* The archive holds snapshots of closed tasks (the archiving that follows a
\* close).
ArchivedWereClosed == \A snapshot \in archive : snapshot.status \in ClosedStatus

=============================================================================
