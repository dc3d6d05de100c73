--------------------------- MODULE RepeatedCreates ---------------------------
(***************************************************************************)
(* Creates of the task tool that are sent twice: the search of TaskReuse   *)
(* beside the tasks of RoadmapTasks.                                       *)
(***************************************************************************)
EXTENDS RoadmapTasks, TaskReuse

CONSTANT Inputs     \* what the task tool may be asked to create

\* All text and every list of an input or a task is finite.
Finite(r) ==
    /\ IsFiniteSet(r.spec) /\ IsFiniteSet(r.code)
    /\ IsFiniteSet(r.labels) /\ IsFiniteSet(r.research)
    /\ IsFiniteSet(Intent(r))

\* Calls are finite.  A text is what is left of it when it is reduced to the letters a
\* to z, digits and `.`, `/`, `_`, `-` (normalizeMatchText), so a title in another
\* script is empty; of the names of paths, labels and research something is left.
ASSUME InputsType == \A in \in Inputs : Finite(in)

\* A create that is repeated, because its answer was lost or a second session
\* had the same idea, makes no second task while the first is open, and a third
\* time changes nothing at all: whatever create came in between if the input
\* has a title and names a path, label or research, otherwise if it has a word
\* of three letters that is not a common one and that create left the task
\* alone.  An input with neither makes a task each time it is sent
\* (findRelatedRoadmapTask, tokenJaccard, refineRoadmapTaskFromInput).  Asked
\* in the initial state, for it says nothing of the state.
RepeatedCreateAbsorbed ==
    Init =>
        \A in, between \in Inputs, status \in OpenStatus :
            AbsorbsRepetition(in, between, status)
=============================================================================
