---------------------------- MODULE MCRoadmapTasks ----------------------------
(* Two sessions over a roadmap of at most two tasks, one process death; and  *)
(* the create calls whose inputs have one or two words for a title, few or   *)
(* many words beside it, and any choice of paths, labels and research; with  *)
(* them some of which no title or no word that says something is left.       *)
EXTENDS RepeatedCreates, TLC

CONSTANTS s1, s2

Symmetry == Permutations({s1, s2})

Many == {"w1", "w2", "w3", "w4", "w5", "w6", "w7", "w8", "w9", "w10", "w11", "w12"}
Anchors ==
    {[spec |-> s, code |-> c, labels |-> l, research |-> r] :
        s \in {{}, {"s"}}, c \in {{}, {"c"}}, l \in {{}, {"l"}}, r \in {{}, {"r"}}}
Blank ==
    {[title |-> title, kind |-> kind, summary |-> summary, says |-> {}, spec |-> {}, code |-> {},
      labels |-> l, research |-> {}] :
        title \in {<<>>, <<"ui">>}, kind \in {"task", "ux"}, summary \in {{"ui"}, {"short"}},
        l \in {{}, {"l"}}}
MCInputs ==
    Blank \cup
    {[title |-> title, kind |-> kind, summary |-> {"short"}, says |-> says,
      spec |-> a.spec, code |-> a.code, labels |-> a.labels, research |-> a.research] :
        title \in {<<"graph">>, <<"graph", "nodes">>, <<"lint">>}, kind \in {"task", "bug"},
        says \in {{}, {"outcome"}, Many},
        a \in {b \in Anchors : (b.labels = {}) \/ (b.research = {} /\ b.code = {})}}

=============================================================================
