------------------------------ MODULE HostQueue ------------------------------
(***************************************************************************)
(* withFileMutationQueue of the host, as the program relies on it: per     *)
(* file, whoever calls it joins the end of a line; the function it was     *)
(* given runs once its caller has come to the head, so one at a time and   *)
(* in the order of the calls; when it has settled the caller leaves.  The  *)
(* lines live in the memory of a process and die with it.                  *)
(***************************************************************************)
EXTENDS Sequences

CONSTANTS
    File,       \* what there is a line for
    Holder      \* the callers

VARIABLES
    line,       \* per file, the callers in the order of their calls
    inside      \* per file, the callers whose functions run under it

vars == <<line, inside>>

Init ==
    /\ line = [f \in File |-> <<>>]
    /\ inside = [f \in File |-> {}]

AtHead(h, f) == line[f] # <<>> /\ Head(line[f]) = h

\* A caller that is in the line already would wait for itself for ever.
Join(h, f) ==
    /\ \A i \in DOMAIN line[f] : line[f][i] # h
    /\ line' = [line EXCEPT ![f] = Append(@, h)]
    /\ UNCHANGED inside

\* The innermost of nested functions runs, under all the files of the nest.
Begin(h, files) ==
    /\ \A f \in files : AtHead(h, f)
    /\ inside' = [f \in File |-> IF f \in files THEN {h} ELSE inside[f]]
    /\ UNCHANGED line

\* Nobody leaves before its function has run.
Leave(h, f) ==
    /\ AtHead(h, f)
    /\ inside[f] = {h}
    /\ line' = [line EXCEPT ![f] = Tail(@)]
    /\ inside' = [inside EXCEPT ![f] = {}]

\* The process that holds the line ends.
Die(f) ==
    /\ line' = [line EXCEPT ![f] = <<>>]
    /\ inside' = [inside EXCEPT ![f] = {}]

Next ==
    \/ \E h \in Holder, f \in File : Join(h, f) \/ Leave(h, f)
    \/ \E h \in Holder, files \in SUBSET File : Begin(h, files)
    \/ \E f \in File : Die(f)

Spec == Init /\ [][Next]_vars
=============================================================================
