---------------------------- MODULE MutationQueue ----------------------------
(***************************************************************************)
(* The lock every writer of the wiki goes through inside one process       *)
(* (src/mutation-queue.ts): withLockedPaths drops duplicate paths,         *)
(* sorts the rest and enters the per-file queue of each in turn, nested,   *)
(* then runs the mutation. The per-file queue, withFileMutationQueue of    *)
(* the host, is external: callers of one path are served in the order they *)
(* came, and one leaves the head of the line when its function has settled *)
(* (returned or thrown).                                                   *)
(*                                                                         *)
(* Paths are numbers, their order that of Array.prototype.sort.            *)
(***************************************************************************)
EXTENDS Naturals, Sequences, FiniteSets

CONSTANTS
    Path,       \* the files that are ever locked, in sort order
    Caller,     \* the calls that can be under way at once
    Request     \* the path lists callers pass, in any order, duplicates included

ASSUME PathType == Path \subseteq Nat
ASSUME RequestType == Request \subseteq Seq(Path)

VARIABLES
    queue,      \* per path, the line: who entered it, with which path of its plan;
                \* the head has the file
    plan,       \* per caller, the paths it locks, in order
    depth,      \* per caller, how many of them it has
    pc          \* per caller: idle, locking, running the mutation, unlocking

vars == <<queue, plan, depth, pc>>

PathsOf(s) == {s[i] : i \in DOMAIN s}

\* Mutant: the list as it is given.
AsGiven(paths) == {paths}

\* The arrangement [...new Set(paths)].sort() gives.
uniquePaths(paths) ==
    {s \in [1..Cardinality(PathsOf(paths)) -> PathsOf(paths)] :
        \A i, j \in DOMAIN s : i < j => s[i] < s[j]}

Init ==
    /\ queue = [p \in Path |-> <<>>]
    /\ plan = [c \in Caller |-> <<>>]
    /\ depth = [c \in Caller |-> 0]
    /\ pc = [c \in Caller |-> "idle"]

\* Joining the line of the next path of the plan.
Joined(c, s, d) ==
    IF d < Len(s) THEN [queue EXCEPT ![s[d + 1]] = Append(@, <<c, d + 1>>)] ELSE queue

\* withLockedPaths: run(0).
Call(c) ==
    /\ pc[c] = "idle"
    /\ \E paths \in Request : \E s \in uniquePaths(paths) :
        /\ plan' = [plan EXCEPT ![c] = s]
        /\ queue' = Joined(c, s, 0)
    /\ pc' = [pc EXCEPT ![c] = "locking"]
    /\ UNCHANGED depth

\* Mutant: the host lets a caller through while the file is taken.
TurnOfAnyone(c) == depth[c] < Len(plan[c])

\* The head of the line of the path it is waiting for.
HasTurn(c) ==
    /\ depth[c] < Len(plan[c])
    /\ queue[plan[c][depth[c] + 1]] # <<>>
    /\ Head(queue[plan[c][depth[c] + 1]]) = <<c, depth[c] + 1>>

\* run(index + 1), inside withFileMutationQueue(uniquePaths[index], ...).
Lock(c) ==
    /\ pc[c] = "locking"
    /\ HasTurn(c)
    /\ depth' = [depth EXCEPT ![c] = @ + 1]
    /\ queue' = Joined(c, plan[c], depth[c] + 1)
    /\ UNCHANGED <<plan, pc>>

\* run(uniquePaths.length): fn().
Run(c) ==
    /\ pc[c] = "locking"
    /\ depth[c] = Len(plan[c])
    /\ pc' = [pc EXCEPT ![c] = "running"]
    /\ UNCHANGED <<queue, plan, depth>>

\* fn settles, by a value or by an error.
Settle(c) ==
    /\ pc[c] = "running"
    /\ pc' = [pc EXCEPT ![c] = "unlocking"]
    /\ UNCHANGED <<queue, plan, depth>>

\* The innermost queue still held lets the next caller of its path in.
Unlock(c) ==
    /\ pc[c] = "unlocking"
    /\ depth[c] > 0
    /\ depth' = [depth EXCEPT ![c] = @ - 1]
    /\ queue' = [queue EXCEPT ![plan[c][depth[c]]] = Tail(@)]
    /\ UNCHANGED <<plan, pc>>

\* Mutant: withLockedPaths returns without the finally of the outer queues.
DoneEarly(c) ==
    /\ pc[c] = "unlocking"
    /\ plan' = [plan EXCEPT ![c] = <<>>]
    /\ pc' = [pc EXCEPT ![c] = "idle"]
    /\ UNCHANGED <<queue, depth>>

Done(c) ==
    /\ pc[c] = "unlocking"
    /\ depth[c] = 0
    /\ plan' = [plan EXCEPT ![c] = <<>>]
    /\ pc' = [pc EXCEPT ![c] = "idle"]
    /\ UNCHANGED <<queue, depth>>

Step(c) == Lock(c) \/ Run(c) \/ Settle(c) \/ Unlock(c) \/ Done(c)

Next == \E c \in Caller : Call(c) \/ Step(c)

Spec == Init /\ [][Next]_vars

\* The event loop runs every settled promise, and a mutation is a few file operations
\* that settle: no step of a call that can be taken is put off for ever.
FairSpec == Spec /\ \A c \in Caller : WF_vars(Step(c))

-----------------------------------------------------------------------------
TypeOK ==
    /\ queue \in [Path -> Seq(Caller \X Nat)]
    /\ plan \in [Caller -> Seq(Path)]
    /\ depth \in [Caller -> Nat]
    /\ \A c \in Caller : depth[c] <= Len(plan[c])
    /\ pc \in [Caller -> {"idle", "locking", "running", "unlocking"}]

\* Two mutations that name a common file never run at the same time, whatever else
\* each of them locks (the read-modify-write of claims, roadmap, archive and rebuild
\* inside one process relies on it).
MutualExclusion ==
    \A c, d \in Caller :
        /\ pc[c] = "running" /\ pc[d] = "running"
        /\ PathsOf(plan[c]) \cap PathsOf(plan[d]) # {}
        => c = d

\* While anybody is at it, some call can go on by itself: callers whose lists overlap in
\* opposite orders, or name a file twice, never all stand behind one another or behind
\* themselves. (The safety half of EveryCallReturns: it asks for no fairness.)
NobodyStuck ==
    (\E c \in Caller : pc[c] # "idle") =>
        \E c \in Caller :
            \/ pc[c] \in {"running", "unlocking"}
            \/ pc[c] = "locking" /\ (depth[c] = Len(plan[c]) \/ HasTurn(c))

\* Every call gets its files, runs and returns: overlapping path lists given in
\* opposite orders or with duplicates do not lock one another out, and the line of a
\* busy path does not starve anyone.
EveryCallReturns == \A c \in Caller : pc[c] # "idle" ~> pc[c] = "idle"

-----------------------------------------------------------------------------
\* What of this the host sees: who stands in each line, and whose mutation runs, or has
\* run and not yet left, under each path.
Callers(places) == [k \in DOMAIN places |-> places[k][1]]
HostLine == [p \in Path |-> Callers(queue[p])]
HostInside ==
    [p \in Path |->
        {c \in Caller : pc[c] \in {"running", "unlocking"} /\ \E i \in 1..depth[c] : plan[c][i] = p}]

Host == INSTANCE HostQueue
    WITH File <- Path, Holder <- Caller, line <- HostLine, inside <- HostInside

\* Nesting the queues of several files leaves each of them a queue: nobody joins a line
\* they stand in, a mutation begins at the head of all its lines at once, and each line
\* moves on only when the mutation of its head is over. (Host!Spec, with the stuttering
\* steps told apart first.)
ImplementsHostQueue ==
    /\ Host!Init
    /\ [][Host!vars' # Host!vars => Host!Next]_vars
=============================================================================
