--------------------------- MODULE MCMutationQueue ---------------------------
(***************************************************************************)
(* MutationQueue on path lists the callers pass, by the order their files  *)
(* sort in.                                                                *)
(***************************************************************************)
EXTENDS MutationQueue

Graph == 1     \* .codewiki/index_graph.json, which every rebuild writes
Archive == 2   \* .codewiki/roadmap/archive.jsonl
Roadmap == 3   \* .codewiki/roadmap/queue.json

MCPath == {Graph, Archive, Roadmap}

\* archive-closed, close with archiving, a roadmap mutation that rebuilds (the graph
\* being the configured index too), and evidence without a refresh.
MCRequest == {<<Archive>>, <<Roadmap, Archive>>, <<Roadmap, Graph, Graph>>, <<>>}
=============================================================================
