----------------------------- MODULE ResumeWork -----------------------------
(***************************************************************************)
(* The resume command (adapters/pi/commands/resume.ts): a session looks    *)
(* for a task whose artifacts nobody else uses, sets it in progress, links *)
(* itself to it, claims its artifacts and only then is told to work on it. *)
(* Each of these reads or writes a file of its own, and other sessions and *)
(* the tools for tasks, focus and artifact status go on in between.        *)
(*                                                                         *)
(* The queue of claims is that of ArtifactClaims; the claims of a resume   *)
(* are calls like any other. Of the roadmap only the statuses are kept.    *)
(***************************************************************************)
EXTENDS ArtifactClaims

CONSTANTS
    Tasks,       \* the roadmap has the tasks 1..Tasks, in this order
    ScopesOf,    \* per task, the scopes taskArtifactScopes makes of its paths
    Executable,  \* tasks that are work of their own, not containers of others
    MaxResumes,  \* bound: resume commands ever given
    MaxUpdates   \* bound: calls of the tools that change a status, a focus, or make a claim

Task == 1..Tasks
NoTask == 0

ASSUME ScopesOfType == ScopesOf \in [Task -> SUBSET Scope]
ASSUME ExecutableType == Executable \subseteq Task
ASSUME ResumeBounds == {Tasks, MaxResumes, MaxUpdates} \subseteq Nat

Open == {"todo", "in_progress", "blocked"}
Left == {"closed", "gone"}   \* done or cancelled; archived

VARIABLES
    status,     \* per task, its status in the roadmap, "gone" when archived
    taskOf,     \* per claim ever made, the task it names, 0 for none
    link,       \* per session, the task of the latest link in its history, 0 for none
    resumes,    \* resumes so far
    updates,    \* such calls of the tools so far
    pc,         \* per session, where its resume stands
    want,       \* per session, the task the user asked for, 0 for none
    persisted,  \* per session, the focus of the rebuilt status view, 0 for none
    seen,       \* per session, the statuses it has read
    chosen,     \* per session, the task it has chosen
    asked,      \* per session, the time it looked for a claim of its own
    work,       \* per session, the task and the claim it was last told to work with
    live        \* history: per session, the claims that were live when it chose

queue == <<file, now, synced, forced>>
roadmap == <<status, updates>>
command == <<pc, want, persisted, seen, chosen, asked>>
resumeVars == <<queue, taskOf, link, resumes, work, live, roadmap, command>>

NoWork == [task |-> NoTask, claim |-> 0]
Unread == [t \in Task |-> "gone"]

ResumeInit ==
    /\ Init
    /\ status = [t \in Task |-> "todo"]
    /\ taskOf = [i \in 1..MaxClaims |-> NoTask]
    /\ link = [s \in Session |-> NoTask]
    /\ resumes = 0
    /\ updates = 0
    /\ pc = [s \in Session |-> "idle"]
    /\ want = [s \in Session |-> NoTask]
    /\ persisted = [s \in Session |-> NoTask]
    /\ seen = [s \in Session |-> Unread]
    /\ chosen = [s \in Session |-> NoTask]
    /\ asked = [s \in Session |-> 0]
    /\ work = [s \in Session |-> NoWork]
    /\ live = [s \in Session |-> {}]

-----------------------------------------------------------------------------
(* Choosing a task.                                                         *)

Live == {i \in DOMAIN file.claims : isClaimActive(file.claims[i], now)}

\* Mutant: a status is looked up under the scope itself, as in the table of all
\* statuses, instead of being computed from what overlaps it.
BusyByEqualScope(s, t) ==
    \E i \in Live : file.claims[i].session # s /\ file.claims[i].scopes \cap ScopesOf[t] # {}

\* Another session's live claim, for reading or writing, touches the task's artifacts.
Busy(s, t) ==
    \E i \in Live : file.claims[i].session # s /\ scopesMeet(ScopesOf[t], file.claims[i].scopes)

Startable(s, t) == t \in Executable /\ seen[s][t] \in Open /\ ~Busy(s, t)

\* Where the generated status view points: the open task of the latest link event, of
\* any session and as old as need be, or the first in progress, or the first to do. No
\* order of events is kept here: any open task, or none.
Focuses == {t \in Executable : status[t] \in Open} \cup {NoTask}

\* The session's own link comes first, the persisted focus second, then the order of
\* the roadmap; a task that cannot be started is passed over.
Selection(s) ==
    LET startable == {t \in Task : Startable(s, t)}
    IN  CASE want[s] # NoTask          -> startable \cap {want[s]}
          [] link[s] \in startable -> {link[s]}
          [] persisted[s] \in startable -> {persisted[s]}
          [] OTHER -> {t \in startable : \A u \in startable : t <= u}

\* The command is over, with or without an error; what it has written stays.
Over(s) ==
    /\ pc' = [pc EXCEPT ![s] = "idle"]
    /\ want' = [want EXCEPT ![s] = NoTask]
    /\ persisted' = [persisted EXCEPT ![s] = NoTask]
    /\ seen' = [seen EXCEPT ![s] = Unread]
    /\ chosen' = [chosen EXCEPT ![s] = NoTask]
    /\ asked' = [asked EXCEPT ![s] = 0]
    /\ live' = [live EXCEPT ![s] = {}]

Goes(s, at) == pc' = [pc EXCEPT ![s] = at]

\* Rebuild, and read the focus from the status view.
StartResume(s) ==
    /\ pc[s] = "idle"
    /\ resumes < MaxResumes
    /\ resumes' = resumes + 1
    /\ \E t \in Task \cup {NoTask} :
        /\ want' = [want EXCEPT ![s] = t]
        /\ \E f \in IF t = NoTask THEN Focuses ELSE {NoTask} : persisted' = [persisted EXCEPT ![s] = f]
    /\ Goes(s, "roadmap")
    /\ UNCHANGED <<queue, taskOf, link, work, live, roadmap, seen, chosen, asked>>

ReadRoadmap(s) ==
    /\ pc[s] = "roadmap"
    /\ seen' = [seen EXCEPT ![s] = status]
    /\ Goes(s, "select")
    /\ UNCHANGED <<queue, taskOf, link, resumes, work, live, roadmap, want, persisted, chosen, asked>>

\* Read the queue and choose; nothing to choose ends the command.
Select(s) ==
    /\ pc[s] = "select"
    /\ \/ /\ Selection(s) = {}
          /\ Over(s)
       \/ \E t \in Selection(s) :
            /\ Goes(s, IF seen[s][t] = "in_progress" THEN "link" ELSE "set")
            /\ chosen' = [chosen EXCEPT ![s] = t]
            /\ live' = [live EXCEPT ![s] = Live]
            /\ want' = [want EXCEPT ![s] = NoTask]
            /\ persisted' = [persisted EXCEPT ![s] = NoTask]
            /\ seen' = [seen EXCEPT ![s] = Unread]
            /\ UNCHANGED asked
    /\ UNCHANGED <<queue, taskOf, link, resumes, work, roadmap>>

-----------------------------------------------------------------------------
(* Taking it up.                                                            *)

\* updateRoadmapTask: whatever the status is by now, unless the task has gone.
SetInProgress(s) ==
    /\ pc[s] = "set"
    /\ \/ /\ status[chosen[s]] = "gone"
          /\ Over(s)
          /\ UNCHANGED status
       \/ /\ status[chosen[s]] # "gone"
          /\ status' = [status EXCEPT ![chosen[s]] = "in_progress"]
          /\ Goes(s, "link")
          /\ UNCHANGED <<want, persisted, seen, chosen, asked, live>>
    /\ UNCHANGED <<queue, taskOf, link, resumes, work, updates>>

\* recordSessionTaskAction with the action "progress".
Link(s) ==
    /\ pc[s] = "link"
    /\ \/ /\ status[chosen[s]] = "gone"
          /\ Over(s)
          /\ UNCHANGED link
       \/ /\ status[chosen[s]] # "gone"
          /\ link' = [link EXCEPT ![s] = chosen[s]]
          /\ Goes(s, "own")
          /\ UNCHANGED <<want, persisted, seen, chosen, asked, live>>
    /\ UNCHANGED <<queue, taskOf, resumes, work, roadmap>>

\* Mutant: any live claim that names the task will do.
OwnClaimsOfAnyone(s) == {i \in Live : taskOf[i] = chosen[s]}

\* Mutant: any live claim of the session will do.
OwnClaimsOfAnyTask(s) == {i \in Live : file.claims[i].session = s}

\* The session's own live claims that name the task, for reading or writing.
OwnClaims(s) == {i \in Live : file.claims[i].session = s /\ taskOf[i] = chosen[s]}

\* The first half of markResumeArtifactsInUse: a claim of one's own is enough.
CheckOwn(s) ==
    /\ pc[s] = "own"
    /\ \/ /\ OwnClaims(s) = {}
          /\ asked' = [asked EXCEPT ![s] = now]
          /\ Goes(s, "claim")
          /\ UNCHANGED <<work, want, persisted, seen, chosen, live>>
       \/ \E i \in OwnClaims(s) :
            /\ work' = [work EXCEPT ![s] = [task |-> chosen[s], claim |-> i]]
            /\ Over(s)
    /\ UNCHANGED <<queue, taskOf, link, resumes, roadmap>>

\* The second half: a write claim on everything the task names. Refused, the command
\* fails, and the task stays in progress; granted, the session is told to work.
ClaimArtifacts(s) ==
    /\ pc[s] = "claim"
    /\ file.next_sequence <= MaxClaims
    /\ \E t \in synced..now, ttl \in TTL :
        LET ask == [mode |-> "write", scopes |-> ScopesOf[chosen[s]]]
            outcome == claimOutcome(file, t, s, ask, ttl, FALSE)
        IN  /\ asked[s] <= t
            /\ Take(outcome)
            /\ IF outcome.kind = "throw"
               THEN UNCHANGED <<taskOf, work>>
               ELSE /\ taskOf' = [taskOf EXCEPT ![file.next_sequence] = chosen[s]]
                    /\ work' = [work EXCEPT ![s] = [task |-> chosen[s], claim |-> file.next_sequence]]
    /\ Over(s)
    /\ UNCHANGED <<forced, link, resumes, roadmap>>

Resume(s) ==
    \/ StartResume(s) \/ ReadRoadmap(s) \/ Select(s) \/ SetInProgress(s) \/ Link(s)
    \/ CheckOwn(s) \/ ClaimArtifacts(s)

-----------------------------------------------------------------------------
(* What goes on meanwhile.                                                  *)

\* codewiki_artifact_status: a claim may name any task, and any scopes.
Mark(s) ==
    /\ updates < MaxUpdates
    /\ updates' = updates + 1
    /\ Claim(s)
    /\ \E t \in Task \cup {NoTask} :
        taskOf' = IF file'.next_sequence > file.next_sequence
                  THEN [taskOf EXCEPT ![file.next_sequence] = t] ELSE taskOf
    /\ UNCHANGED <<link, resumes, work, live, status, command>>

QueueStep ==
    /\ \/ Tick
       \/ List
       \/ \E s \in Session : Release(s) \/ Heartbeat(s)
    /\ UNCHANGED <<taskOf, link, resumes, work, live, roadmap, command>>

\* codewiki_task, by anyone: a task may get any status, and leaves when it is archived.
UpdateTask(t) ==
    /\ updates < MaxUpdates
    /\ updates' = updates + 1
    /\ status[t] # "gone"
    /\ \E new \in (Open \cup Left) \ {status[t]} : status' = [status EXCEPT ![t] = new]
    /\ UNCHANGED <<queue, taskOf, link, resumes, work, live, command>>

\* codewiki_session, action focus or note, on a task that is still there. The action
\* clear appends a link too, but to the task of the latest one, which the readers here
\* take like any other: it changes nothing.
RecordLink(s) ==
    /\ updates < MaxUpdates
    /\ updates' = updates + 1
    /\ \E t \in Task :
        /\ status[t] # "gone"
        /\ link' = [link EXCEPT ![s] = t]
    /\ UNCHANGED <<queue, taskOf, status, resumes, work, live, command>>

ResumeNext ==
    \/ QueueStep
    \/ \E s \in Session : Resume(s) \/ Mark(s) \/ RecordLink(s)
    \/ \E t \in Task : UpdateTask(t)

ResumeSpec == ResumeInit /\ [][ResumeNext]_resumeVars

-----------------------------------------------------------------------------
\* Types, and: a session past its choice has a task, and one told to work was given a
\* claim that names the task it is to work on.
ResumeTypeOK ==
    /\ TypeOK
    /\ status \in [Task -> Open \cup Left]
    /\ taskOf \in [1..MaxClaims -> Task \cup {NoTask}]
    /\ link \in [Session -> Task \cup {NoTask}]
    /\ resumes \in 0..MaxResumes
    /\ updates \in 0..MaxUpdates
    /\ pc \in [Session -> {"idle", "roadmap", "select", "set", "link", "own", "claim"}]
    /\ want \in [Session -> Task \cup {NoTask}]
    /\ persisted \in [Session -> Task \cup {NoTask}]
    /\ seen \in [Session -> [Task -> Open \cup Left]]
    /\ chosen \in [Session -> Task \cup {NoTask}]
    /\ asked \in [Session -> Nat]
    /\ work \in [Session -> [task : Task \cup {NoTask}, claim : Nat]]
    /\ live \in [Session -> SUBSET Nat]
    /\ \A s \in Session :
        /\ pc[s] \in {"set", "link", "own", "claim"} <=> chosen[s] # NoTask
        /\ work[s] = NoWork \/ work[s].task = taskOf[work[s].claim]

\* The session works under a live write claim on all of its task, got without force.
Holds(s) ==
    LET i == work[s].claim
    IN  /\ i \in DOMAIN file.claims \ forced
        /\ isClaimActive(file.claims[i], now)
        /\ file.claims[i].mode = "write"
        /\ ScopesOf[work[s].task] \subseteq file.claims[i].scopes

\* Two sessions that were told to work, and whose claims hold, never work on the same
\* artifacts, whether the claims were made by the command or found by it, and whatever
\* was released, expired, extended or claimed by others between looking and claiming.
WorkersApart ==
    \A s, o \in Session :
        s # o /\ Holds(s) /\ Holds(o) => ~scopesMeet(ScopesOf[work[s].task], ScopesOf[work[o].task])

\* The command fails for the sake of another session's claim, and leaves its task in
\* progress with nobody on it, only if that claim came to life after the task was
\* chosen: what made the task look free and what refuses the claim agree, although one
\* weighs statuses (artifactStatusesForScopes) and the other conflicts.
RefusedOnlyByRace ==
    [][\A s \in Session :
        pc[s] = "claim" /\ pc'[s] = "idle" /\ file' = file =>
            \E i \in DOMAIN file.claims \ live[s] :
                /\ file.claims[i].session # s
                /\ file.claims[i].status = "active"
                /\ scopesMeet(ScopesOf[chosen[s]], file.claims[i].scopes)]_resumeVars
=============================================================================
