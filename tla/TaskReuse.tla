------------------------------ MODULE TaskReuse ------------------------------
(***************************************************************************)
(* What codewiki_task create makes of its inputs: each refines the open    *)
(* task it is most related to, or becomes a task of its own                *)
(* (appendRoadmapTasks, application/roadmap.ts).  Operators over the tasks *)
(* of a roadmap in the order of their ids, none of which has left it, and  *)
(* inputs that name no id and pass the boundary check; RoadmapTasks has    *)
(* the handlers that write the file.                                       *)
(*                                                                         *)
(* A text is what its readers tell apart after normalising: a title the    *)
(* sequence of its words, all other text the set of its words.  A title of *)
(* more than one word stands for one of more than ten characters.          *)
(***************************************************************************)
EXTENDS Integers, FiniteSetsExt, SequencesExt

CONSTANT Dropped    \* words that say nothing: of one or two characters, or common

\* Mutant: work that has begun is not looked at.
WaitingReuse == {"todo"}
ActiveReuse == {"todo", "in_progress", "blocked"}

-----------------------------------------------------------------------------
\* The text a stands somewhere in b.
Inside(a, b) == \E i \in 0 .. Len(b) - Len(a) : SubSeq(b, i + 1, i + Len(a)) = a

relatedText(a, b) ==
    /\ a # << >> /\ b # << >>
    /\ (a = b) \/ (Len(a) > 1 /\ Inside(a, b)) \/ (Len(b) > 1 /\ Inside(b, a))

\* taskIntentText, inputIntentText: the words of everything but the paths that
\* say something.
Intent(r) == (ToSet(r.title) \cup {r.kind} \cup r.labels \cup r.summary \cup r.says) \ Dropped

\* The points for the share of words two texts have in common; a text without one
\* has none in common with any, itself included.
IntentScore(r, in) ==
    LET both == 100 * Cardinality(Intent(r) \cap Intent(in))
        all == Cardinality(Intent(r) \cup Intent(in))
    IN  CASE Intent(r) = {} \/ Intent(in) = {} -> 0
          [] Intent(r) # {} /\ Intent(in) # {} ->
                CASE both >= 35 * all -> 8
                  [] both >= 25 * all /\ both < 35 * all -> 5
                  [] both >= 18 * all /\ both < 25 * all -> 3
                  [] OTHER -> 0

\* So much for any overlap, and so much for each common member.
Overlap(a, b, any, each) ==
    LET n == Cardinality(a \cap b) IN IF n = 0 THEN 0 ELSE any + each * n

scoreRoadmapTaskReuse(r, in) ==
    Overlap(r.spec, in.spec, 10, 2) + Overlap(r.code, in.code, 8, 2)
      + Overlap(r.labels, in.labels, 6, 1) + Overlap(r.research, in.research, 4, 1)
      + (IF r.kind = in.kind THEN 1 ELSE 0)
      + (IF relatedText(r.title, in.title) THEN 8 ELSE 0)
      + IntentScore(r, in)

\* Common paths alone need more points than a common label, title or intent.
isReusableRoadmapTaskMatch(r, in) ==
    LET score == scoreRoadmapTaskReuse(r, in) IN
    /\ score >= 10
    /\ \/ r.labels \cap in.labels # {}
       \/ relatedText(r.title, in.title)
       \/ IntentScore(r, in) > 0
       \/ score >= 18 /\ (r.spec \cap in.spec) \cup (r.code \cap in.code)
                             \cup (r.research \cap in.research) # {}

Related(tasks, in) ==
    {id \in DOMAIN tasks :
        tasks[id].status \in ActiveReuse /\ isReusableRoadmapTaskMatch(tasks[id], in)}

\* The best match, among equals the one with the first id.
findRelatedRoadmapTask(tasks, in) ==
    LET score(id) == scoreRoadmapTaskReuse(tasks[id], in)
        best == {id \in Related(tasks, in) : \A o \in Related(tasks, in) : score(o) <= score(id)}
    IN  Min(best)

\* Title and summary stay; lists and texts take up what they do not have yet,
\* and new text comes with a word that says so.
refineRoadmapTaskFromInput(r, in) ==
    [r EXCEPT !.kind = IF @ = "task" THEN in.kind ELSE @,
              !.spec = @ \cup in.spec, !.code = @ \cup in.code,
              !.labels = @ \cup in.labels, !.research = @ \cup in.research,
              !.says = @ \cup in.says \cup IF in.says \subseteq @ THEN {} ELSE {"refinement"}]

NewTask(in) ==
    [title |-> in.title, kind |-> in.kind, status |-> "todo", summary |-> in.summary,
     says |-> in.says, spec |-> in.spec, code |-> in.code, labels |-> in.labels,
     research |-> in.research]

\* One input after another, each against what the ones before it have left.
AppendTask(tasks, in) ==
    IF Related(tasks, in) # {}
    THEN LET found == findRelatedRoadmapTask(tasks, in) IN
         [tasks EXCEPT ![found] = refineRoadmapTaskFromInput(tasks[found], in)]
    ELSE Append(tasks, NewTask(in))

appendRoadmapTasks(tasks, inputs) == FoldLeft(AppendTask, tasks, inputs)

-----------------------------------------------------------------------------
\* An input that names a path, a label or a piece of research.
Anchored(in) == in.spec \cup in.code \cup in.labels \cup in.research # {}

\* An input without one that has no title left, or no word that says something.
Unrecognisable(in) == ~Anchored(in) /\ (in.title = << >> \/ Intent(in) = {})

\* A create that is repeated, because its answer was lost or another session
\* had the same idea, makes no second task as long as the first is open, and
\* repeating it once more changes nothing: whatever create came in between if
\* the input names a path, label or research beside its title, and otherwise if
\* it has a word that says something and that create did not touch the task.  An
\* input with none of these makes another task each time it is sent: title and
\* kind are nine points, words and kind too, and ten are needed.
AbsorbsRepetition(in, between, status) ==
    LET once == [appendRoadmapTasks(<<>>, <<in>>) EXCEPT ![1].status = status]
        later == appendRoadmapTasks(once, <<between>>)
        again == appendRoadmapTasks(later, <<in>>)
    IN  /\ in.title # << >> /\ (Anchored(in) \/ (Intent(in) # {} /\ later[1] = once[1])) =>
              /\ DOMAIN again = DOMAIN later
              /\ appendRoadmapTasks(again, <<in>>) = again
        /\ Unrecognisable(in) => again = Append(later, NewTask(in))

=============================================================================
