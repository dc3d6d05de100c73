----------------------------- MODULE ClaimsFile -----------------------------
(***************************************************************************)
(* The session queue file `.codewiki/session/queue.json` and what one call *)
(* of mutateChangeClaims computes from it (application/claims.ts): pure    *)
(* functions from the file as read, at the clock the call sampled, to the  *)
(* file it will write.  ArtifactClaims makes one atomic step of a call,    *)
(* ClaimsStore the lock, read, truncate and write steps it really takes.   *)
(*                                                                         *)
(* The two record arrays are functions from the sequence number of an id   *)
(* ("CLAIM-007" is 7): ids are handed out in increasing order, so the      *)
(* array order is the order of the domain.  Texts (summary, agent name,    *)
(* role, build ref, worktree, time stamps but expires_at) are left out.    *)
(***************************************************************************)
EXTENDS ScopeOverlap, Naturals, FiniteSets

CONSTANTS
    Session,    \* session ids
    Scope,      \* the scopes calls may name
    Ask,        \* what claims and waits ask for: a mode and a list of scopes
    TTL,        \* lifetimes a caller may ask for, in clock ticks
    Keep        \* how many claims and waiters a write keeps: slice(-200)

ASSUME ScopeType == Scope \subseteq ScopeRecord
ASSUME AskType == Ask \subseteq [mode : {"read", "write"}, scopes : SUBSET Scope]
ASSUME TTLType == TTL \subseteq Nat \ {0}
ASSUME KeepType == Keep \in Nat \ {0}

Mode == {"read", "write"}

ClaimRecord ==
    [session : Session, status : {"active", "released", "expired"}, mode : Mode,
     scopes : SUBSET Scope, expires : Nat]

WaiterRecord ==
    [session : Session, status : {"pending", "ready", "cancelled", "expired"}, mode : Mode,
     scopes : SUBSET Scope, expires : Nat, blocked_by : SUBSET Nat]

\* A record array: from sequence numbers to records.
IsArrayOf(m, S) == DOMAIN m \subseteq Nat \ {0} /\ m \in [DOMAIN m -> S]

IsClaimsFile(f) ==
    /\ f = [claims |-> f.claims, waiters |-> f.waiters, next_sequence |-> f.next_sequence,
            next_wait_sequence |-> f.next_wait_sequence]
    /\ IsArrayOf(f.claims, ClaimRecord)
    /\ IsArrayOf(f.waiters, WaiterRecord)
    /\ f.next_sequence \in Nat \ {0}
    /\ f.next_wait_sequence \in Nat \ {0}
    /\ \A i \in DOMAIN f.claims : i < f.next_sequence
    /\ \A i \in DOMAIN f.waiters : i < f.next_wait_sequence

EmptyFile ==
    [claims |-> [i \in {} |-> 0], waiters |-> [i \in {} |-> 0],
     next_sequence |-> 1, next_wait_sequence |-> 1]

\* What release and heartbeat act on: the caller's own records, or one id. An id
\* that is not in the file reaches nothing, whichever it is.
OwnRecords == [kind |-> "own", id |-> 0]
UnknownRecord == [kind |-> "claim", id |-> 0]
TargetsIn(f) ==
    {OwnRecords, UnknownRecord} \cup
    [kind : {"claim"}, id : DOMAIN f.claims] \cup [kind : {"wait"}, id : DOMAIN f.waiters]

-----------------------------------------------------------------------------
(* Reading: parse, expire, refresh.                                         *)

\* The counters can never fall behind the ids already in the file.
normalizeClaimsFile(f) ==
    [f EXCEPT !.next_sequence = Max({@} \cup {i + 1 : i \in DOMAIN f.claims}),
              !.next_wait_sequence = Max({@} \cup {i + 1 : i \in DOMAIN f.waiters})]

isClaimActive(claim, now) == claim.status = "active" /\ claim.expires > now

isClaimWaiterActive(waiter, now) ==
    waiter.status \in {"pending", "ready"} /\ waiter.expires > now

\* Two scope lists meet: Touching is computed once, scopesOverlap being pure.
Touching == {p \in Scope \X Scope : scopesOverlap(p[1], p[2])}
scopesMeet(left, right) == (left \X right) \cap Touching # {}

\* A write/write overlap between two sessions: kind "conflict" of detectClaimConflicts.
Conflicting(left, right) ==
    /\ left.session # right.session
    /\ left.mode = "write" /\ right.mode = "write"
    /\ scopesMeet(left.scopes, right.scopes)

blockingClaimIdsForWaiter(waiter, claims, now) ==
    {i \in DOMAIN claims : isClaimActive(claims[i], now) /\ Conflicting(waiter, claims[i])}

markExpired(f, now) ==
    [f EXCEPT
        !.claims = [i \in DOMAIN f.claims |->
            IF f.claims[i].status = "active" /\ ~isClaimActive(f.claims[i], now)
            THEN [f.claims[i] EXCEPT !.status = "expired"] ELSE f.claims[i]],
        !.waiters = [i \in DOMAIN f.waiters |->
            IF f.waiters[i].status \in {"pending", "ready"} /\ ~isClaimWaiterActive(f.waiters[i], now)
            THEN [f.waiters[i] EXCEPT !.status = "expired"] ELSE f.waiters[i]]]

\* A ready waiter goes back to pending when someone else has claimed in between.
refreshedWaiter(waiter, claims, now) ==
    LET blockers == blockingClaimIdsForWaiter(waiter, claims, now)
    IN  [waiter EXCEPT !.blocked_by = blockers,
                       !.status = IF blockers = {} THEN "ready" ELSE "pending"]

refreshWaiters(f, now) ==
    [f EXCEPT !.waiters = [i \in DOMAIN f.waiters |->
        IF f.waiters[i].status \in {"pending", "ready"}
        THEN refreshedWaiter(f.waiters[i], f.claims, now) ELSE f.waiters[i]]]

\* Mutant: the call decides on unexpired records but does not mark the others.
OpenedUnmarked(f, now) == refreshWaiters(normalizeClaimsFile(f), now)

\* Mutant: the waiters are not looked at again when the file is read.
OpenedUnrefreshed(f, now) == markExpired(normalizeClaimsFile(f), now)

\* The file every action starts from.
opened(f, now) == refreshWaiters(markExpired(normalizeClaimsFile(f), now), now)

-----------------------------------------------------------------------------
(* Writing: only the newest Keep records of each array survive a write.     *)
newest(m) ==
    {i \in DOMAIN m : Cardinality({j \in DOMAIN m : j > i}) < Keep}

writeClaimsFile(f) ==
    [f EXCEPT !.claims = Restrict(f.claims, newest(f.claims)),
              !.waiters = Restrict(f.waiters, newest(f.waiters))]

\* What a call comes to: it writes a file, leaves the one on disk, or throws.
Write(f) == [kind |-> "write", file |-> writeClaimsFile(f)]
Leave(f) == [kind |-> "leave", file |-> f]
Throw(f) == [kind |-> "throw", file |-> f]

-----------------------------------------------------------------------------
(* The five actions, on the file f as read at clock now.                    *)

listOutcome(f, now) ==
    IF opened(f, now) = f THEN Leave(f) ELSE Write(opened(f, now))

\* Claim ids are matched whoever asks; without an id a session names its own.
Targets(record, kind, id, target, session) ==
    IF target = OwnRecords THEN record.session = session
                           ELSE target.kind = kind /\ target.id = id

releaseClaims(f, target, session) ==
    [f EXCEPT !.claims = [i \in DOMAIN f.claims |->
        IF f.claims[i].status = "active" /\ Targets(f.claims[i], "claim", i, target, session)
        THEN [f.claims[i] EXCEPT !.status = "released"] ELSE f.claims[i]]]

cancelWaiters(f, target, session) ==
    [f EXCEPT !.waiters = [i \in DOMAIN f.waiters |->
        IF f.waiters[i].status \in {"pending", "ready"} /\ Targets(f.waiters[i], "wait", i, target, session)
        THEN [f.waiters[i] EXCEPT !.status = "cancelled"] ELSE f.waiters[i]]]

\* Mutant: the waiters the release unblocks are left for a later call to notice.
ReleaseWithoutWake(f, now, target, session) ==
    LET read == opened(f, now)
        released == cancelWaiters(releaseClaims(read, target, session), target, session)
    IN  IF released = read THEN Leave(f) ELSE Write(released)

\* When nothing was released, cancelled or readied, the expiry marks made on the
\* way are not saved either.
releaseOutcome(f, now, target, session) ==
    LET read == opened(f, now)
        released == refreshWaiters(cancelWaiters(releaseClaims(read, target, session), target, session), now)
    IN  IF released = read THEN Leave(f) ELSE Write(released)

\* Mutant: a heartbeat reaches ended claims too.
HeartbeatEnded(f, target, session, expires) ==
    [f EXCEPT !.claims = [i \in DOMAIN f.claims |->
        IF Targets(f.claims[i], "claim", i, target, session)
        THEN [f.claims[i] EXCEPT !.expires = expires] ELSE f.claims[i]]]

heartbeatClaims(f, target, session, expires) ==
    [f EXCEPT !.claims = [i \in DOMAIN f.claims |->
        IF f.claims[i].status = "active" /\ Targets(f.claims[i], "claim", i, target, session)
        THEN [f.claims[i] EXCEPT !.expires = expires] ELSE f.claims[i]]]

heartbeatWaiters(f, target, session, expires) ==
    [f EXCEPT !.waiters = [i \in DOMAIN f.waiters |->
        IF f.waiters[i].status \in {"pending", "ready"} /\ Targets(f.waiters[i], "wait", i, target, session)
        THEN [f.waiters[i] EXCEPT !.expires = expires] ELSE f.waiters[i]]]

\* A heartbeat that reached a live record is written even if the expiry is the same.
Reaches(f, target, session) ==
    \/ \E i \in DOMAIN f.claims :
          f.claims[i].status = "active" /\ Targets(f.claims[i], "claim", i, target, session)
    \/ \E i \in DOMAIN f.waiters :
          f.waiters[i].status \in {"pending", "ready"} /\ Targets(f.waiters[i], "wait", i, target, session)

heartbeatOutcome(f, now, target, session, ttl) ==
    LET read == opened(f, now)
        extended == heartbeatWaiters(heartbeatClaims(read, target, session, now + ttl),
                                     target, session, now + ttl)
    IN  IF Reaches(read, target, session) THEN Write(refreshWaiters(extended, now)) ELSE Leave(f)

\* createWaiter: ready at once when no other session's live write claim blocks it.
waitOutcome(f, now, session, ask, ttl) ==
    LET read == opened(f, now)
        waiter == refreshedWaiter([session |-> session, status |-> "pending", mode |-> ask.mode, scopes |-> ask.scopes,
                                   expires |-> now + ttl, blocked_by |-> {}], read.claims, now)
    IN  Write([read EXCEPT
            !.waiters = [i \in DOMAIN @ \cup {read.next_wait_sequence} |->
                            IF i = read.next_wait_sequence THEN waiter ELSE @[i]],
            !.next_wait_sequence = @ + 1])

\* Mutant: the counter is left to normalizeClaimsFile.
ClaimWithoutCounter(f, now, session, ask, ttl, force) ==
    LET read == opened(f, now)
        candidate == [session |-> session, status |-> "active", mode |-> ask.mode, scopes |-> ask.scopes,
                      expires |-> now + ttl]
        conflict == blockingClaimIdsForWaiter(candidate, read.claims, now) # {}
    IN  IF conflict /\ ~force THEN Throw(f)
        ELSE Write([read EXCEPT !.claims = [i \in DOMAIN @ \cup {read.next_sequence} |->
                                IF i = read.next_sequence THEN candidate ELSE @[i]]])

\* The waiters are not refreshed again after the claim is added: a waiter that was
\* ready stays so in this write, though the new claim may block it.
claimOutcome(f, now, session, ask, ttl, force) ==
    LET read == opened(f, now)
        candidate == [session |-> session, status |-> "active", mode |-> ask.mode, scopes |-> ask.scopes,
                      expires |-> now + ttl]
        conflict == blockingClaimIdsForWaiter(candidate, read.claims, now) # {}
    IN  IF conflict /\ ~force THEN Throw(f)
        ELSE Write([read EXCEPT
                !.claims = [i \in DOMAIN @ \cup {read.next_sequence} |->
                                IF i = read.next_sequence THEN candidate ELSE @[i]],
                !.next_sequence = @ + 1])
=============================================================================
