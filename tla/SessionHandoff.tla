---------------------------- MODULE SessionHandoff ----------------------------
(***************************************************************************)
(* Handoffs from one session to the next, one file each under              *)
(* .codewiki/runtime/session-handoffs. A tool call stages a handoff, the   *)
(* command /wiki-session-handoff runs one, by its path or the latest that  *)
(* is queued, and the runtime part of garbage collection deletes what it   *)
(* takes for finished. Nobody takes a lock: the sessions, in one process   *)
(* or several, meet in the files alone, and a status is changed by writing *)
(* back the payload that was read, with another status.                    *)
(*                                                                         *)
(* Handoffs are numbered in the order they are staged, which is the order  *)
(* of their ids and of their creation times.                               *)
(***************************************************************************)
EXTENDS Naturals, FiniteSets

CONSTANTS
    Session,      \* the calls that can be under way at once
    MaxHandoff,   \* bound: handoffs ever staged
    MaxDeletes,   \* most files one purge deletes
    MaxCalls,     \* bound: calls made in all
    MaxCrashes    \* bound: sessions that die in a call

ASSUME BoundsType == {MaxHandoff, MaxDeletes, MaxCalls, MaxCrashes} \subseteq Nat

Handoff == 1..MaxHandoff
Mode == {"new-session", "context-reset", "external-orchestrator"}
Status == {"queued", "started", "completed", "cancelled", "external", "failed"}
Consumed == {"completed", "cancelled", "external", "failed"}

\* What a file can hold: a payload with its status, nothing yet, or a payload with the
\* end of a longer one behind it. The last two do not parse.
Unparsable == {"empty", "mixed"}
Content == Status \cup Unparsable \cup {"absent"}

VARIABLES
    disk,       \* per handoff, what its file holds
    mode,       \* per handoff, its mode, "none" before it is staged
    staged,     \* handoffs staged so far
    calls,      \* calls made so far
    pc,         \* per session, how far its call is
    on,         \* per session, the handoff it stages or runs, 0 for none
    mark,       \* per session, the status it writes next
    linked,     \* sessions that have a file open that is still in the directory
    todo,       \* per session, files left to read, or to delete
    found,      \* per session, the queued handoffs among those it has read
    returned,   \* history: handoffs whose staging has returned
    known,      \* history: per session, what had returned when its call began to look
    left,       \* history: handoffs whose file once held another status than queued
    contested,  \* history: handoffs two calls had in hand at once
    abandoned   \* history: handoffs a dying session had in hand

vars == <<disk, mode, staged, calls, pc, on, mark, linked, todo, found,
          returned, known, left, contested, abandoned>>

history == <<returned, known, left, contested, abandoned>>

Init ==
    /\ disk = [h \in Handoff |-> "absent"]
    /\ mode = [h \in Handoff |-> "none"]
    /\ staged = 0
    /\ calls = 0
    /\ pc = [s \in Session |-> "idle"]
    /\ on = [s \in Session |-> 0]
    /\ mark = [s \in Session |-> "queued"]
    /\ linked = {}
    /\ todo = [s \in Session |-> {}]
    /\ found = [s \in Session |-> {}]
    /\ returned = {}
    /\ known = [s \in Session |-> {}]
    /\ left = {}
    /\ contested = {}
    /\ abandoned = {}

\* A session without a call under way makes one.
Calls(s) ==
    /\ pc[s] = "idle"
    /\ calls < MaxCalls
    /\ calls' = calls + 1

\* The session s takes the handoff h in hand and will write the status m to its file.
Takes(s, h, m) ==
    /\ pc' = [pc EXCEPT ![s] = "open"]
    /\ on' = [on EXCEPT ![s] = h]
    /\ mark' = [mark EXCEPT ![s] = m]
    /\ contested' = IF \E o \in Session \ {s} : on[o] = h THEN contested \cup {h} ELSE contested

\* The call of s is over; nothing of it is kept.
Ends(s) ==
    /\ pc' = [pc EXCEPT ![s] = "idle"]
    /\ on' = [on EXCEPT ![s] = 0]
    /\ mark' = [mark EXCEPT ![s] = "queued"]

-----------------------------------------------------------------------------
(* Staging: buildSessionHandoffPayload, stageSessionHandoff.                *)

\* The tool makes the payload, with an id of its own, and goes on to write it.
Stage(s) ==
    /\ Calls(s)
    /\ staged < MaxHandoff
    /\ staged' = staged + 1
    /\ \E m \in Mode : mode' = [mode EXCEPT ![staged + 1] = m]
    /\ Takes(s, staged + 1, "queued")
    /\ UNCHANGED <<disk, linked, todo, found, returned, known, left, abandoned>>

-----------------------------------------------------------------------------
(* Running: readStagedHandoff, runSessionHandoffCommand.                    *)

\* The first status the command writes for a handoff of each mode.
FirstMark(m) ==
    CASE m = "external-orchestrator" -> "external"
      [] m = "context-reset"         -> "completed"
      [] m = "new-session"           -> "started"

\* With a path: the file must parse, whatever its status is.
RunByPath(s) ==
    /\ Calls(s)
    /\ \E h \in Handoff :
        /\ disk[h] \in Status
        /\ Takes(s, h, FirstMark(mode[h]))
    /\ UNCHANGED <<disk, mode, staged, linked, todo, found, returned, known, left, abandoned>>

\* Without one: list the directory ...
RunLatest(s) ==
    /\ Calls(s)
    /\ pc' = [pc EXCEPT ![s] = "scan"]
    /\ todo' = [todo EXCEPT ![s] = {h \in Handoff : disk[h] # "absent"}]
    /\ known' = [known EXCEPT ![s] = returned]
    /\ UNCHANGED <<disk, mode, staged, on, mark, linked, found, returned, left, contested, abandoned>>

\* ... read the files one after the other, passing over what cannot be read ...
ReadNext(s) ==
    /\ pc[s] = "scan"
    /\ \E h \in todo[s] :
        /\ todo' = [todo EXCEPT ![s] = @ \ {h}]
        /\ found' = IF disk[h] = "queued" THEN [found EXCEPT ![s] = @ \cup {h}] ELSE found
    /\ UNCHANGED <<calls, disk, mode, staged, pc, on, mark, linked, history>>

\* Mutant: the sort is the other way round.
Oldest(hs) == {h \in hs : \A g \in hs : h <= g}

\* The first of the handoffs hs, sorted by time of creation, then id, the other way
\* round; none of none.
Latest(hs) == {h \in hs : \A g \in hs : g <= h}

\* ... and take the latest of the queued ones, or fail for want of any.
Choose(s) ==
    /\ pc[s] = "scan"
    /\ todo[s] = {}
    /\ \/ /\ found[s] = {}
          /\ Ends(s)
          /\ UNCHANGED contested
       \/ \E h \in Latest(found[s]) : Takes(s, h, FirstMark(mode[h]))
    /\ found' = [found EXCEPT ![s] = {}]
    /\ known' = [known EXCEPT ![s] = {}]
    /\ UNCHANGED <<calls, disk, mode, staged, linked, todo, returned, left, abandoned>>

-----------------------------------------------------------------------------
(* Writing: writeFile and markHandoff.                                      *)

\* Mutant: the file is opened without being truncated.
OpenedAsItIs(content) == IF content = "absent" THEN "empty" ELSE content

\* The file as open with the flag "w" leaves it.
Opened(content) == "empty"

Open(s) ==
    /\ pc[s] = "open"
    /\ disk' = [disk EXCEPT ![on[s]] = Opened(@)]
    /\ linked' = linked \cup {s}
    /\ pc' = [pc EXCEPT ![s] = "write"]
    /\ UNCHANGED <<calls, mode, staged, on, mark, todo, found, history>>

\* Two payloads of one handoff differ in the status alone.
Length == [queued |-> 6, failed |-> 6, started |-> 7, external |-> 8, completed |-> 9, cancelled |-> 9]

\* The file after the status m has been written from its start on.
Written(content, m) ==
    IF content \in Status /\ Length[content] > Length[m] THEN "mixed" ELSE m

\* A deleted file takes the text with it. The tool goes on to mark the handoff external
\* if it may and the mode says so; the command waits for the new session once it has
\* marked the handoff started; all other calls are over.
Fill(s) ==
    /\ pc[s] = "write"
    /\ disk' = IF s \in linked THEN [disk EXCEPT ![on[s]] = Written(@, mark[s])] ELSE disk
    /\ linked' = linked \ {s}
    /\ left' = IF mark[s] = "queued" THEN left ELSE left \cup {on[s]}
    /\ \/ /\ mark[s] = "queued" /\ mode[on[s]] = "external-orchestrator"
          /\ pc' = [pc EXCEPT ![s] = "open"]
          /\ mark' = [mark EXCEPT ![s] = "external"]
          /\ UNCHANGED <<on, returned>>
       \/ /\ mark[s] = "started"
          /\ pc' = [pc EXCEPT ![s] = "newSession"]
          /\ UNCHANGED <<on, mark, returned>>
       \/ /\ mark[s] # "started"
          /\ returned' = returned \cup {on[s]}
          /\ Ends(s)
    /\ UNCHANGED <<calls, mode, staged, todo, found, known, contested, abandoned>>

\* Mutant: a session that could not be opened puts the handoff back.
FinalMarkForRetry == [done |-> "completed", cancelled |-> "cancelled", threw |-> "queued"]

\* What becomes of a handoff after ctx.newSession.
FinalMark == [done |-> "completed", cancelled |-> "cancelled", threw |-> "failed"]

\* Mutant: a cancelled session is not recorded.
NewSessionCancelledSilently(s) ==
    /\ pc[s] = "newSession"
    /\ \/ Ends(s)
       \/ /\ mark' = [mark EXCEPT ![s] = "completed"]
          /\ pc' = [pc EXCEPT ![s] = "open"]
          /\ UNCHANGED on
    /\ UNCHANGED <<calls, disk, mode, staged, linked, todo, found, history>>

\* The host has opened the new session, been told not to, or thrown.
NewSession(s) ==
    /\ pc[s] = "newSession"
    /\ \E result \in DOMAIN FinalMark : mark' = [mark EXCEPT ![s] = FinalMark[result]]
    /\ pc' = [pc EXCEPT ![s] = "open"]
    /\ UNCHANGED <<calls, disk, mode, staged, on, linked, todo, found, history>>

-----------------------------------------------------------------------------
(* Garbage collection of the directory: collectRuntimeCandidates.           *)

\* Mutant: whatever is not running may go.
PurgeableUnlessStarted(content) == content \notin {"absent", "started"}

\* isPurgeableRuntimeHandoff: a file that cannot be parsed counts as garbage.
Purgeable(content) == content \in Consumed \cup Unparsable

\* The candidates are chosen in one go, within the scopes asked for; more than the
\* bound and nothing is deleted.
Collect(s) ==
    /\ Calls(s)
    /\ \E scope \in SUBSET Handoff :
        LET candidates == {h \in scope : Purgeable(disk[h])}
        IN  /\ candidates # {} /\ Cardinality(candidates) <= MaxDeletes
            /\ todo' = [todo EXCEPT ![s] = candidates]
    /\ pc' = [pc EXCEPT ![s] = "purge"]
    /\ known' = [known EXCEPT ![s] = returned]
    /\ UNCHANGED <<disk, mode, staged, on, mark, linked, found, returned, left, contested, abandoned>>

\* Deleted one after the other, as they were chosen; whoever has the file open goes on
\* writing to what is no longer in the directory.
DeleteCandidate(s) ==
    /\ pc[s] = "purge"
    /\ \E h \in todo[s] :
        /\ \A g \in todo[s] : h <= g
        /\ disk' = [disk EXCEPT ![h] = "absent"]
        /\ linked' = {o \in linked : on[o] # h}
        /\ todo' = [todo EXCEPT ![s] = @ \ {h}]
    /\ IF todo'[s] = {}
       THEN /\ pc' = [pc EXCEPT ![s] = "idle"]
            /\ known' = [known EXCEPT ![s] = {}]
       ELSE UNCHANGED <<pc, known>>
    /\ UNCHANGED <<calls, mode, staged, on, mark, found, returned, left, contested, abandoned>>

-----------------------------------------------------------------------------
\* A session dies in a call and leaves the files as they are.
Crash(s) ==
    /\ pc[s] # "idle"
    /\ Cardinality(abandoned) < MaxCrashes
    /\ abandoned' = IF on[s] = 0 THEN abandoned ELSE abandoned \cup {on[s]}
    /\ Ends(s)
    /\ linked' = linked \ {s}
    /\ todo' = [todo EXCEPT ![s] = {}]
    /\ found' = [found EXCEPT ![s] = {}]
    /\ known' = [known EXCEPT ![s] = {}]
    /\ UNCHANGED <<calls, disk, mode, staged, returned, left, contested>>

Tool(s) == Stage(s)
Command(s) == RunByPath(s) \/ RunLatest(s) \/ ReadNext(s) \/ Choose(s) \/ NewSession(s)
Write(s) == Open(s) \/ Fill(s)
Purge(s) == Collect(s) \/ DeleteCandidate(s)

Next == \E s \in Session : Tool(s) \/ Command(s) \/ Write(s) \/ Purge(s) \/ Crash(s)

Spec == Init /\ [][Next]_vars

-----------------------------------------------------------------------------
TypeOK ==
    /\ disk \in [Handoff -> Content]
    /\ mode \in [Handoff -> Mode \cup {"none"}]
    /\ staged \in 0..MaxHandoff
    /\ calls \in 0..MaxCalls
    /\ pc \in [Session -> {"idle", "scan", "open", "write", "newSession", "purge"}]
    /\ on \in [Session -> 0..MaxHandoff]
    /\ mark \in [Session -> Status]
    /\ linked \subseteq Session
    /\ todo \in [Session -> SUBSET Handoff]
    /\ found \in [Session -> SUBSET Handoff]
    /\ returned \subseteq Handoff
    /\ known \in [Session -> SUBSET Handoff]
    /\ left \subseteq Handoff
    /\ contested \subseteq Handoff
    /\ abandoned \subseteq Handoff

\* A handoff that has been started, finished or recorded is never queued again, by
\* anyone: the payload a call writes back may be older than the file, but a status
\* taken for "queued" is always replaced (markHandoff). So the latest queued handoff
\* is one nobody has finished with.
NeverQueuedAgain == \A h \in left : disk[h] # "queued"

\* A file says "started" only while a session is in ctx.newSession for it or about to
\* write how that went, however many sessions run the handoff, unless one of them died
\* (every path through runSessionHandoffCommand ends in a mark).
StartedIsRunning ==
    \A h \in Handoff : disk[h] = "started" =>
        \/ h \in abandoned
        \/ \E s \in Session : on[s] = h /\ (pc[s] = "newSession" \/ (pc[s] = "open" /\ mark[s] \in Consumed))

\* Once nobody has it in hand, a file that does not parse was left by a session that
\* died or by two that wrote it at once: one call alone leaves whole files, whatever it
\* goes through and whatever is purged meanwhile.
TornOnlyByTwoOrDeath ==
    \A h \in Handoff :
        disk[h] \in Unparsable /\ (\A s \in Session : on[s] # h) => h \in contested \cup abandoned

\* The command without a path takes the latest: of the handoffs whose staging had
\* returned before it listed the directory, none later than the one it takes is
\* still queued when it takes it, although it reads the files one by one.
LatestIsLatest ==
    [][\A s \in Session :
        pc[s] = "scan" /\ pc'[s] = "open" =>
            \A h \in known[s] : disk[h] = "queued" => h <= on'[s]]_vars

\* The purge deletes a queued handoff only if its staging was not over when the
\* candidates were chosen: a handoff announced before that survives until it is run.
PurgeSparesAnnounced ==
    [][\A h \in Handoff :
        disk[h] = "queued" /\ disk'[h] = "absent" =>
            \E s \in Session : pc[s] = "purge" /\ h \in todo[s] \ known[s]]_vars

\* "Queued active handoff should be retained", "Started active handoff should be
\* retained" (tests/smoke/hot-retention.test.mjs:109-110).
ActiveHandoffRetained ==
    [][\A h \in Handoff : disk'[h] = "absent" => disk[h] \notin {"queued", "started"}]_vars
=============================================================================
