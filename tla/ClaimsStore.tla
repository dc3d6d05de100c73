----------------------------- MODULE ClaimsStore -----------------------------
(***************************************************************************)
(* The artifact-status queue as the sessions really run it.  A call of     *)
(* mutateChangeClaims takes the queue file's place in the mutation queue   *)
(* of its own process (withLockedPaths), reads and parses the file,        *)
(* computes the new one, truncates the file and fills it again, and leaves *)
(* the queue.  The mutation queue lives in one process: callers in two     *)
(* processes do not exclude one another.  A process may crash between any  *)
(* two of these steps.                                                     *)
(***************************************************************************)
EXTENDS ClaimsFile

CONSTANTS
    Process,    \* the pi processes on one repository
    ProcessOf,  \* the process each session runs in
    Call,       \* the requests sessions make
    MaxTime,    \* bound: clock ticks
    MaxCalls,   \* bound: calls each session makes
    MaxCrashes  \* bound: crashes

ASSUME ProcessOfType == ProcessOf \in [Session -> Process]
ASSUME BoundsType == MaxTime \in Nat /\ MaxCalls \in Nat /\ MaxCrashes \in Nat
ASSUME SessionsFinite == IsFiniteSet(Session)

\* What the callers can ask: normalizeClaimScopes, the lifetime defaults and the ids
\* have been through the parameter schema by then; an id need not exist.
AnyTarget == {OwnRecords} \cup [kind : {"claim", "wait"}, id : Nat]
Request ==
    [action : {"list"}] \cup
    [action : {"release"}, target : AnyTarget] \cup
    [action : {"heartbeat"}, target : AnyTarget, ttl : TTL] \cup
    [action : {"wait"}, ask : Ask, ttl : TTL] \cup
    [action : {"claim"}, ask : Ask, ttl : TTL, force : BOOLEAN]

CONSTANT NoCall     \* no request, no outcome

ASSUME CallType == Call \subseteq Request /\ NoCall \notin Call

VARIABLES
    file,       \* the last whole content of the queue file
    torn,       \* the file on disk is truncated or half written
    now,        \* the clock
    queue,      \* per process, the callers in line for the file, the head inside
    pc,         \* per session, how far its call is
    call,       \* per session, the request it is making
    outcome,    \* per session, what its call computed from the file it read
    synced,     \* history: when the file was last written back or left alone
    forced,     \* history: ids of the claims that force pushed past a conflict
    told,       \* history: the live claims the sessions were told they hold
    calls,      \* per session, calls made
    crashes     \* crashes so far

vars == <<file, torn, now, queue, pc, call, outcome, synced, forced, told, calls, crashes>>

Init ==
    /\ file = EmptyFile
    /\ torn = FALSE
    /\ now = 0
    /\ queue = [p \in Process |-> <<>>]
    /\ pc = [s \in Session |-> "idle"]
    /\ call = [s \in Session |-> NoCall]
    /\ outcome = [s \in Session |-> NoCall]
    /\ synced = 0
    /\ forced = {}
    /\ told = {}
    /\ calls = [s \in Session |-> 0]
    /\ crashes = 0

-----------------------------------------------------------------------------
(* The pure result of a request on the file f at clock t.                   *)
Result(f, t, s, req) ==
    CASE req.action = "list"      -> listOutcome(f, t)
      [] req.action = "release"   -> releaseOutcome(f, t, req.target, s)
      [] req.action = "heartbeat" -> heartbeatOutcome(f, t, req.target, s, req.ttl)
      [] req.action = "wait"      -> waitOutcome(f, t, s, req.ask, req.ttl)
      [] req.action = "claim"     -> claimOutcome(f, t, s, req.ask, req.ttl, req.force)

NeedsForce(f, t, s, req) ==
    req.action = "claim" /\ claimOutcome(f, t, s, req.ask, req.ttl, FALSE).kind = "throw"

Tick ==
    /\ now < MaxTime
    /\ now' = now + 1
    /\ UNCHANGED <<file, torn, queue, pc, call, outcome, synced, forced, told, calls, crashes>>

\* A tool call arrives and joins the mutation queue of its process.
Enqueue(s) ==
    /\ pc[s] = "idle"
    /\ calls[s] < MaxCalls
    /\ \E req \in Call : call' = [call EXCEPT ![s] = req]
    /\ pc' = [pc EXCEPT ![s] = "queued"]
    /\ queue' = [queue EXCEPT ![ProcessOf[s]] = Append(@, s)]
    /\ calls' = [calls EXCEPT ![s] = @ + 1]
    /\ UNCHANGED <<file, torn, now, outcome, synced, forced, told, crashes>>

\* Mutant: the call does not wait for its turn.
Unqueued(s) == pc[s] = "queued"

\* The file belongs to the head of the process's queue.
HoldsFile(s) == pc[s] = "queued" /\ Head(queue[ProcessOf[s]]) = s

\* The claims the sessions hold as they were told: a claim adds one, a release by
\* anybody takes it away, and a heartbeat that reached a record moves its end.
Told(s, done) ==
    LET kept == {h \in told : ~(/\ call[s].action = "release"
                                /\ \/ call[s].target = OwnRecords /\ h.session = s
                                   \/ call[s].target = [kind |-> "claim", id |-> h.id])}
        renewed(h) == /\ call[s].action = "heartbeat"
                      /\ h.id \in DOMAIN done.file.claims
                      /\ done.file.claims[h.id].session = h.session
    IN  IF call[s].action = "claim"
        THEN kept \cup {[id |-> done.id, session |-> s, mode |-> call[s].ask.mode,
                         scopes |-> call[s].ask.scopes, expires |-> done.at + call[s].ttl,
                         forced |-> done.forced]}
        ELSE {IF renewed(h) THEN [h EXCEPT !.expires = done.file.claims[h.id].expires] ELSE h : h \in kept}

\* readFile, JSON.parse, new Date() and the action, up to the write: a torn file does
\* not parse and the call throws, a refused claim throws, a call without an effect
\* returns. JSON.parse throws anything but ENOENT on, so no call repairs the file.
Read(s) ==
    /\ HoldsFile(s)
    /\ \/ /\ torn
          /\ pc' = [pc EXCEPT ![s] = "failed"]
          /\ UNCHANGED <<outcome, synced, told>>
       \/ /\ ~torn
          /\ LET result == Result(file, now, s, call[s])
                 done == [file |-> result.file, at |-> now, id |-> file.next_sequence,
                          forced |-> NeedsForce(file, now, s, call[s])]
             IN  CASE result.kind = "write" ->
                        /\ pc' = [pc EXCEPT ![s] = "write"]
                        /\ outcome' = [outcome EXCEPT ![s] = done]
                        /\ UNCHANGED <<synced, told>>
                   [] result.kind = "leave" ->
                        /\ pc' = [pc EXCEPT ![s] = "return"]
                        /\ synced' = now
                        /\ told' = Told(s, done)
                        /\ UNCHANGED outcome
                   [] result.kind = "throw" ->
                        /\ pc' = [pc EXCEPT ![s] = "failed"]
                        /\ synced' = now
                        /\ UNCHANGED <<outcome, told>>
    /\ UNCHANGED <<file, torn, now, queue, call, forced, calls, crashes>>

\* writeFile opens the file with O_TRUNC ...
Truncate(s) ==
    /\ pc[s] = "write"
    /\ torn' = TRUE
    /\ pc' = [pc EXCEPT ![s] = "writing"]
    /\ UNCHANGED <<file, now, queue, call, outcome, synced, forced, told, calls, crashes>>

\* ... and fills it. If the file is whole again by then, another writer has filled it
\* since, and the tail of a longer text may stay behind: the mixture may not parse.
Fill(s) ==
    /\ pc[s] = "writing"
    /\ file' = outcome[s].file
    /\ torn' \in IF torn THEN {FALSE} ELSE BOOLEAN
    /\ synced' = now
    /\ forced' = IF outcome[s].forced THEN forced \cup {outcome[s].id} ELSE forced
    /\ told' = Told(s, outcome[s])
    /\ pc' = [pc EXCEPT ![s] = "return"]
    /\ UNCHANGED <<now, queue, call, outcome, calls, crashes>>

\* The call returns or throws, and the next in line gets the file.
Return(s) ==
    /\ pc[s] \in {"return", "failed"}
    /\ pc' = [pc EXCEPT ![s] = "idle"]
    /\ queue' = [queue EXCEPT ![ProcessOf[s]] = Tail(@)]
    /\ call' = [call EXCEPT ![s] = NoCall]
    /\ outcome' = [outcome EXCEPT ![s] = NoCall]
    /\ UNCHANGED <<file, torn, now, synced, forced, told, calls, crashes>>

\* A process dies with its queue and its calls; the file stays as it is, torn or not.
Crash(p) ==
    /\ crashes < MaxCrashes
    /\ crashes' = crashes + 1
    /\ queue' = [queue EXCEPT ![p] = <<>>]
    /\ pc' = [s \in Session |-> IF ProcessOf[s] = p THEN "idle" ELSE pc[s]]
    /\ call' = [s \in Session |-> IF ProcessOf[s] = p THEN NoCall ELSE call[s]]
    /\ outcome' = [s \in Session |-> IF ProcessOf[s] = p THEN NoCall ELSE outcome[s]]
    /\ UNCHANGED <<file, torn, now, synced, forced, told, calls>>

Step(s) == Read(s) \/ Truncate(s) \/ Fill(s) \/ Return(s)

Next ==
    \/ Tick
    \/ \E s \in Session : Enqueue(s) \/ Step(s)
    \/ \E p \in Process : Crash(p)

Spec == Init /\ [][Next]_vars

-----------------------------------------------------------------------------
TypeOK ==
    /\ IsClaimsFile(file)
    /\ torn \in BOOLEAN
    /\ now \in 0..MaxTime
    /\ queue \in [Process -> Seq(Session)]
    /\ pc \in [Session -> {"idle", "queued", "write", "writing", "return", "failed"}]
    /\ \A s \in Session : call[s] \in Call \cup {NoCall} /\ (call[s] = NoCall <=> pc[s] = "idle")
    /\ synced \in 0..now

Live(h) == h.expires > now

\* The promise as the holders see it: no two sessions are at the same time in
\* possession of overlapping write claims, both granted without force and neither
\* released nor run out ("write/write overlap blocks unless explicitly forced").
HolderExclusion ==
    \A a, b \in told :
        Live(a) /\ Live(b) /\ Conflicting(a, b) => a.forced \/ b.forced

\* A claim somebody was told they hold is in the file and active until it is released
\* or runs out: no later write loses it. (After a crash in the middle of a write the
\* file has no content at all, and every later call throws.)
ToldHeld ==
    \A h \in told :
        Live(h) /\ ~torn =>
            /\ h.id \in DOMAIN file.claims
            /\ file.claims[h.id].session = h.session
            /\ file.claims[h.id].status = "active"

\* Inside one process the queue keeps a half-written file out of every call's sight:
\* a call throws over a torn file only when a crash left it behind.
TornSeenOnlyAfterCrash ==
    \A s \in Session :
        HoldsFile(s) /\ torn => crashes > 0

\* One process: every behaviour of the lock, read, truncate, write and crash steps is a
\* behaviour of the atomic calls of ArtifactClaims, each of which takes effect in one
\* step between its call and its return. (Abstract!Spec, with the stuttering steps told
\* apart first: TLC would otherwise try every abstract action on each of them.)
Abstract == INSTANCE ArtifactClaims
    WITH MaxClaims <- MaxCalls * Cardinality(Session), MaxWaits <- MaxCalls * Cardinality(Session)

ImplementsArtifactClaims ==
    /\ Abstract!Init
    /\ [][Abstract!vars' # Abstract!vars => Abstract!Next]_vars

-----------------------------------------------------------------------------
\* The line of each process, and the call that is at the file.
AtFile == [p \in Process |->
    {s \in Session : ProcessOf[s] = p /\ pc[s] \in {"write", "writing", "return", "failed"}}]

Host == INSTANCE HostQueue
    WITH File <- Process, Holder <- Session, line <- queue, inside <- AtFile

\* Every process serves its calls as the host's queue for one file does: in the order
\* they came, one at a time, each once and to its end, whatever the requests come to
\* and whenever a process dies. (In the same form as ImplementsArtifactClaims.)
ImplementsHostQueue ==
    /\ Host!Init
    /\ [][Host!vars' # Host!vars => Host!Next]_vars
=============================================================================
