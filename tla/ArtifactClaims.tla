--------------------------- MODULE ArtifactClaims ---------------------------
(***************************************************************************)
(* What the artifact-status queue promises to the sessions of one          *)
(* repository: every call of mutateChangeClaims (application/claims.ts) is *)
(* one step on the queue file.  A call samples the clock once, when it has *)
(* read the file, and its result takes effect later: `synced` is the time  *)
(* of the last effect, and the sample lies between it and now.             *)
(*                                                                         *)
(* The sessions are not told to stop when a record runs out: a claim ends  *)
(* by release, by another session's release of its id, or by the clock.    *)
(***************************************************************************)
EXTENDS ClaimsFile

CONSTANTS
    MaxClaims,  \* bound: claims ever made
    MaxWaits,   \* bound: waiters ever queued
    MaxTime     \* bound: clock ticks

ASSUME BoundsType == MaxClaims \in Nat /\ MaxWaits \in Nat /\ MaxTime \in Nat

VARIABLES
    file,       \* the queue file
    now,        \* the clock
    synced,     \* when the file was last read and written back
    forced      \* history: ids of the claims that force pushed past a conflict

vars == <<file, now, synced, forced>>

Init ==
    /\ file = EmptyFile
    /\ now = 0
    /\ synced = 0
    /\ forced = {}

-----------------------------------------------------------------------------
Tick ==
    /\ now < MaxTime
    /\ now' = now + 1
    /\ UNCHANGED <<file, synced, forced>>

\* A call's effect: only a write changes the file.
Take(outcome) ==
    /\ file' = outcome.file
    /\ synced' = now
    /\ UNCHANGED now

List ==
    \E t \in synced..now : Take(listOutcome(file, t)) /\ UNCHANGED forced

Release(s) ==
    \E t \in synced..now, target \in TargetsIn(file) :
        Take(releaseOutcome(file, t, target, s)) /\ UNCHANGED forced

Heartbeat(s) ==
    \E t \in synced..now, target \in TargetsIn(file), ttl \in TTL :
        Take(heartbeatOutcome(file, t, target, s, ttl)) /\ UNCHANGED forced

Wait(s) ==
    /\ file.next_wait_sequence <= MaxWaits
    /\ \E t \in synced..now, ask \in Ask, ttl \in TTL :
        Take(waitOutcome(file, t, s, ask, ttl)) /\ UNCHANGED forced

\* A refused claim throws and leaves the file as it was.
Claim(s) ==
    /\ file.next_sequence <= MaxClaims
    /\ \E t \in synced..now, ask \in Ask, ttl \in TTL, force \in BOOLEAN :
        /\ Take(claimOutcome(file, t, s, ask, ttl, force))
        /\ forced' = IF claimOutcome(file, t, s, ask, ttl, FALSE).kind = "throw" /\ force
                     THEN forced \cup {file.next_sequence} ELSE forced

Next ==
    \/ Tick
    \/ List
    \/ \E s \in Session : Release(s) \/ Heartbeat(s) \/ Wait(s) \/ Claim(s)

Spec == Init /\ [][Next]_vars

-----------------------------------------------------------------------------
TypeOK ==
    /\ IsClaimsFile(file)
    /\ now \in Nat
    /\ synced \in Nat
    /\ synced <= now
    /\ forced \subseteq Nat

\* Two sessions never both hold a live write claim on the same artifact unless the
\* later one was forced ("write/write overlap blocks unless explicitly forced",
\* adapters/pi/index.ts): not through an expiry that was never saved, a heartbeat
\* after the end, or a claim taken between two ticks.
WriteExclusion ==
    \A i, j \in DOMAIN file.claims :
        /\ i < j
        /\ isClaimActive(file.claims[i], now)
        /\ isClaimActive(file.claims[j], now)
        /\ Conflicting(file.claims[i], file.claims[j])
        => j \in forced

\* A waiter sits in `pending` only for a reason: every claim it names is still held in
\* the file (or was cut off by slice(-200)) and does conflict with it. The release of
\* the last of them readies it in the same write, so no wake-up is lost.
PendingHasBlockers ==
    \A w \in DOMAIN file.waiters : file.waiters[w].status = "pending" =>
        /\ file.waiters[w].blocked_by # {}
        /\ \A i \in file.waiters[w].blocked_by :
            IF i \in DOMAIN file.claims
            THEN file.claims[i].status = "active" /\ Conflicting(file.waiters[w], file.claims[i])
            ELSE \A j \in DOMAIN file.claims : i < j

\* A `ready` on disk can be wrong about one claim only, the newest: claiming does not
\* refresh the waiters, and every later write does.
ReadyStaleOnlyByNewest ==
    \A w \in DOMAIN file.waiters : file.waiters[w].status = "ready" =>
        blockingClaimIdsForWaiter(file.waiters[w], file.claims, now) \subseteq {file.next_sequence - 1}

\* A record that has ended in the file never comes back to life, and a record never
\* changes hands, mode or scopes: heartbeats of expired claims, foreign releases and
\* reused ids included.
RecordsOnlyEnd ==
    [][/\ \A i \in DOMAIN file.claims \cap DOMAIN file'.claims :
            /\ [file'.claims[i] EXCEPT !.status = "", !.expires = 0]
                = [file.claims[i] EXCEPT !.status = "", !.expires = 0]
            /\ file.claims[i].status # "active" => file'.claims[i] = file.claims[i]
       /\ \A w \in DOMAIN file.waiters \cap DOMAIN file'.waiters :
            file.waiters[w].status \in {"cancelled", "expired"} => file'.waiters[w] = file.waiters[w]
      ]_vars
=============================================================================
