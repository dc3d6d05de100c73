------------------------ MODULE ArtifactClaimsProofs ------------------------
(***************************************************************************)
(* For every set of sessions, scopes and lifetimes, every bound and every  *)
(* number of records kept: the queue file of ArtifactClaims stays well     *)
(* formed, no two sessions hold overlapping live write claims unless the   *)
(* later one was forced, a waiter is pending only for a reason and ready   *)
(* but for the newest claim, and records only ever end; and the resume     *)
(* command of ResumeWork, whose claims are calls on the same queue, keeps  *)
(* those it told to work apart and fails only for a race.                  *)
(*                                                                         *)
(* WriteExclusion is not inductive: a call may sample the clock before     *)
(* `now`, so a claim it still counts as live may have run out by then and  *)
(* a heartbeat may prolong it. What every step preserves is exclusion at   *)
(* `synced`, the latest moment whose state a later call cannot look behind.*)
(***************************************************************************)
EXTENDS ResumeWork, ScopePatterns, ClaimsFileProofs

IInv == TypeOK /\ ExclusiveAt(file, synced, forced)

-----------------------------------------------------------------------------
\* A call that leaves the file, or writes one with exclusion by status, keeps IInv.
LEMMA TakeIInv ==
    ASSUME IInv, NEW outcome, Take(outcome), IsClaimsFile(outcome.file),
           forced \subseteq forced', forced' \subseteq Nat,
           outcome.file = file \/ Exclusive(outcome.file, forced')
    PROVE  IInv'
<1>1. file' = outcome.file /\ synced' = now /\ now' = now
  BY DEF Take
<1>2. synced \in Nat /\ now \in Nat /\ synced <= now /\ IsClaimsFile(file)
  BY DEF IInv, TypeOK
<1>3. TypeOK'
  BY <1>1, <1>2 DEF TypeOK
<1>4. ExclusiveAt(outcome.file, now, forced')
  <2>1. CASE outcome.file = file
    <3>1. ExclusiveAt(file, now, forced)
      BY <1>2, ExclusiveLater DEF IInv
    <3> QED
      BY <2>1, <3>1, MoreForced
  <2>2. CASE Exclusive(outcome.file, forced')
    BY <2>2, ExclusiveByStatus
  <2> QED
    BY <2>1, <2>2
<1> QED
  BY <1>1, <1>3, <1>4 DEF IInv

\* The sample a call takes is late enough for the opened file to be exclusive by status.
LEMMA SampleExclusive ==
    ASSUME IInv, NEW t \in synced..now
    PROVE  t \in Nat /\ IsClaimsFile(file) /\ Exclusive(opened(file, t), forced)
<1>1. synced \in Nat /\ now \in Nat /\ IsClaimsFile(file)
  BY DEF IInv, TypeOK
<1>2. t \in Nat /\ synced <= t
  BY <1>1
<1>3. ExclusiveAt(file, t, forced)
  BY <1>1, <1>2, ExclusiveLater DEF IInv
<1> QED
  BY <1>1, <1>2, <1>3, OpenedExclusive

\* A call that adds no claim.
LEMMA DescendingIInv ==
    ASSUME IInv, NEW t \in synced..now, NEW outcome, Take(outcome), UNCHANGED forced,
           IsClaimsFile(outcome.file),
           outcome.file = file \/ Descends(opened(file, t), outcome.file)
    PROVE  IInv'
<1>1. Exclusive(opened(file, t), forced)
  BY SampleExclusive
<1>2. outcome.file = file \/ Exclusive(outcome.file, forced)
  BY <1>1, DescendsExclusive
<1> QED
  BY <1>2, TakeIInv DEF IInv, TypeOK

-----------------------------------------------------------------------------
LEMMA InitIInv == Init => IInv
  BY EmptyFileType DEF Init, IInv, TypeOK, ExclusiveAt, EmptyFile

LEMMA ListIInv ==
    ASSUME IInv, List
    PROVE  IInv'
<1>1. PICK t \in synced..now : Take(listOutcome(file, t)) /\ UNCHANGED forced
  BY DEF List
<1>2. t \in Nat /\ IsClaimsFile(file)
  BY SampleExclusive
<1> QED
  BY <1>1, <1>2, ListOutcomeType, DescendingIInv

LEMMA ReleaseIInv ==
    ASSUME IInv, NEW s \in Session, Release(s)
    PROVE  IInv'
<1>1. PICK t \in synced..now, target \in TargetsIn(file) :
         Take(releaseOutcome(file, t, target, s)) /\ UNCHANGED forced
  BY DEF Release
<1>2. t \in Nat /\ IsClaimsFile(file)
  BY SampleExclusive
<1> QED
  BY <1>1, <1>2, ReleaseOutcomeType, DescendingIInv

LEMMA HeartbeatIInv ==
    ASSUME IInv, NEW s \in Session, Heartbeat(s)
    PROVE  IInv'
<1>1. PICK t \in synced..now, target \in TargetsIn(file), ttl \in TTL :
         Take(heartbeatOutcome(file, t, target, s, ttl)) /\ UNCHANGED forced
  BY DEF Heartbeat
<1>2. t \in Nat /\ IsClaimsFile(file)
  BY SampleExclusive
<1> QED
  BY <1>1, <1>2, HeartbeatOutcomeType, DescendingIInv

LEMMA WaitIInv ==
    ASSUME IInv, NEW s \in Session, Wait(s)
    PROVE  IInv'
<1>1. PICK t \in synced..now, ask \in Ask, ttl \in TTL :
         Take(waitOutcome(file, t, s, ask, ttl)) /\ UNCHANGED forced
  BY DEF Wait
<1>2. t \in Nat /\ IsClaimsFile(file)
  BY SampleExclusive
<1> QED
  BY <1>1, <1>2, WaitOutcomeType, DescendingIInv

LEMMA ClaimIInv ==
    ASSUME IInv, NEW s \in Session, Claim(s)
    PROVE  IInv'
<1>1. PICK t \in synced..now, ask \in Ask, ttl \in TTL, force \in BOOLEAN :
        /\ Take(claimOutcome(file, t, s, ask, ttl, force))
        /\ forced' = IF claimOutcome(file, t, s, ask, ttl, FALSE).kind = "throw" /\ force
                     THEN forced \cup {file.next_sequence} ELSE forced
  BY DEF Claim
<1>2. t \in Nat /\ IsClaimsFile(file) /\ Exclusive(opened(file, t), forced)
  BY SampleExclusive
<1>3. forced \subseteq forced' /\ forced' \subseteq Nat
  BY <1>1, <1>2 DEF IInv, TypeOK, IsClaimsFile
<1>4. Exclusive(opened(file, t), forced')
  BY <1>2, <1>3 DEF Exclusive
<1>5. claimOutcome(file, t, s, ask, ttl, FALSE).kind = "throw" /\ force
        => file.next_sequence \in forced'
  BY <1>1
<1>6. /\ IsClaimsFile(claimOutcome(file, t, s, ask, ttl, force).file)
      /\ \/ claimOutcome(file, t, s, ask, ttl, force).file = file
         \/ Exclusive(claimOutcome(file, t, s, ask, ttl, force).file, forced')
  BY <1>2, <1>4, <1>5, ClaimOutcomeType, AskIsAnyAsk
<1> QED
  BY <1>1, <1>3, <1>6, TakeIInv

LEMMA TickIInv ==
    ASSUME IInv, Tick
    PROVE  IInv'
  BY DEF IInv, Tick, TypeOK

LEMMA NextIInv == IInv /\ [Next]_vars => IInv'
<1> SUFFICES ASSUME IInv, [Next]_vars PROVE IInv'
  OBVIOUS
<1>1. CASE Tick
  BY <1>1, TickIInv
<1>2. CASE List
  BY <1>2, ListIInv
<1>3. CASE \E s \in Session : Release(s) \/ Heartbeat(s) \/ Wait(s) \/ Claim(s)
  BY <1>3, ReleaseIInv, HeartbeatIInv, WaitIInv, ClaimIInv
<1>4. CASE UNCHANGED vars
  BY <1>4 DEF vars, IInv, TypeOK
<1> QED
  BY <1>1, <1>2, <1>3, <1>4 DEF Next

LEMMA IInvHolds == Spec => []IInv
  BY InitIInv, NextIInv, PTL DEF Spec

-----------------------------------------------------------------------------
\* The queue file is well formed in every state: ids below their counters, records of
\* the right shape, whatever is claimed, waited for, released, prolonged or cut off.
THEOREM TypeCorrect == Spec => []TypeOK
<1>1. IInv => TypeOK
  BY DEF IInv
<1> QED
  BY <1>1, IInvHolds, PTL

\* Two live write claims of different sessions overlap only if the later was forced.
THEOREM WritesExclude == Spec => []WriteExclusion
<1>1. IInv => WriteExclusion
  <2> SUFFICES ASSUME IInv PROVE ExclusiveAt(file, now, forced)
    BY DEF ExclusiveAt, WriteExclusion
  <2> QED
    BY ExclusiveLater DEF IInv, TypeOK
<1> QED
  BY <1>1, IInvHolds, PTL

-----------------------------------------------------------------------------
(* The invariant of the waiters, and what no step does to a record.         *)

\* The effect of a step on the file: none, or a file that follows it is cut and written.
Effect ==
    \/ file' = file
    \/ \E t, g : t \in Nat /\ t <= now /\ now' = now /\ Follows(file, g, t) /\ file' = writeClaimsFile(g)

LEMMA TakeEffect ==
    ASSUME IInv, NEW t \in synced..now, NEW outcome, Take(outcome), NEW g, Follows(file, g, t),
           outcome \in {Leave(file), Throw(file), Write(g)}
    PROVE  Effect
<1>1. t \in Nat /\ t <= now
  BY DEF IInv, TypeOK
<1>2. file' = outcome.file /\ now' = now
  BY DEF Take
<1>3. outcome.file = file \/ outcome.file = writeClaimsFile(g)
  BY DEF Leave, Throw, Write
<1> QED
  BY <1>1, <1>2, <1>3 DEF Effect

LEMMA StepEffect ==
    ASSUME IInv, [Next]_vars
    PROVE  Effect /\ now' \in Nat /\ now <= now'
<1>1. now \in Nat /\ synced \in Nat /\ IsClaimsFile(file)
  BY DEF IInv, TypeOK
<1>2. now' \in Nat /\ now <= now'
  <2>1. Tick => now' = now + 1
    BY DEF Tick
  <2>2. List => now' = now
    BY DEF List, Take
  <2>3. \A s \in Session : Release(s) \/ Heartbeat(s) \/ Wait(s) \/ Claim(s) => now' = now
    BY DEF Release, Heartbeat, Wait, Claim, Take
  <2>4. UNCHANGED vars => now' = now
    BY DEF vars
  <2>5. now' = now \/ now' = now + 1
    BY <2>1, <2>2, <2>3, <2>4 DEF Next
  <2> QED
    BY <1>1, <2>5
<1>3. \A t \in synced..now : t \in Nat
  BY <1>1
<1>4. ASSUME Tick \/ UNCHANGED vars PROVE Effect
  BY <1>4 DEF Tick, vars, Effect
<1>5. ASSUME List PROVE Effect
  <2>1. PICK t \in synced..now : Take(listOutcome(file, t))
    BY <1>5 DEF List
  <2>2. PICK g : Follows(file, g, t) /\ listOutcome(file, t) \in {Leave(file), Write(g)}
    BY <1>1, <1>3, ListFollows
  <2> QED
    BY <2>1, <2>2, TakeEffect
<1>6. ASSUME NEW s \in Session, Release(s) PROVE Effect
  <2>1. PICK t \in synced..now, target \in TargetsIn(file) : Take(releaseOutcome(file, t, target, s))
    BY <1>6 DEF Release
  <2>2. PICK g : Follows(file, g, t) /\ releaseOutcome(file, t, target, s) \in {Leave(file), Write(g)}
    BY <1>1, <1>3, ReleaseFollows
  <2> QED
    BY <2>1, <2>2, TakeEffect
<1>7. ASSUME NEW s \in Session, Heartbeat(s) PROVE Effect
  <2>1. PICK t \in synced..now, target \in TargetsIn(file), ttl \in TTL :
            Take(heartbeatOutcome(file, t, target, s, ttl))
    BY <1>7 DEF Heartbeat
  <2>2. PICK g : Follows(file, g, t) /\ heartbeatOutcome(file, t, target, s, ttl) \in {Leave(file), Write(g)}
    BY <1>1, <1>3, HeartbeatFollows
  <2> QED
    BY <2>1, <2>2, TakeEffect
<1>8. ASSUME NEW s \in Session, Wait(s) PROVE Effect
  <2>1. PICK t \in synced..now, ask \in Ask, ttl \in TTL : Take(waitOutcome(file, t, s, ask, ttl))
    BY <1>8 DEF Wait
  <2>2. PICK g : Follows(file, g, t) /\ waitOutcome(file, t, s, ask, ttl) = Write(g)
    BY <1>1, <1>3, WaitFollows
  <2> QED
    BY <2>1, <2>2, TakeEffect
<1>9. ASSUME NEW s \in Session, Claim(s) PROVE Effect
  <2>1. PICK t \in synced..now, ask \in Ask, ttl \in TTL, force \in BOOLEAN :
            Take(claimOutcome(file, t, s, ask, ttl, force))
    BY <1>9 DEF Claim
  <2>2. PICK g : Follows(file, g, t) /\ claimOutcome(file, t, s, ask, ttl, force) \in {Throw(file), Write(g)}
    BY <1>1, <1>3, ClaimFollows, AskIsAnyAsk
  <2> QED
    BY <2>1, <2>2, TakeEffect
<1> QED
  BY <1>2, <1>4, <1>5, <1>6, <1>7, <1>8, <1>9 DEF Next

\* What is known of the waiters in every state.
WaitInv == IInv /\ PendingNamed(file) /\ ReadyTrue(file, now)

LEMMA WaitInvInit == Init => WaitInv
  BY InitIInv DEF Init, WaitInv, PendingNamed, ReadyTrue, EmptyFile

LEMMA WaitInvNext == WaitInv /\ [Next]_vars => WaitInv'
<1> SUFFICES ASSUME WaitInv, [Next]_vars PROVE WaitInv'
  OBVIOUS
<1>1. IInv /\ IInv'
  BY NextIInv DEF WaitInv
<1>2. Effect /\ now' \in Nat /\ now <= now' /\ now \in Nat /\ IsClaimsFile(file)
  BY <1>1, StepEffect DEF IInv, TypeOK
<1>3. CASE file' = file
  <2>1. ReadyTrue(file, now')
    BY <1>2, ReadyLater DEF WaitInv
  <2> QED
    BY <1>1, <1>3, <2>1 DEF WaitInv
<1>4. CASE \E t, g : t \in Nat /\ t <= now /\ now' = now /\ Follows(file, g, t) /\ file' = writeClaimsFile(g)
  <2>1. PICK t, g : t \in Nat /\ t <= now /\ now' = now /\ Follows(file, g, t) /\ file' = writeClaimsFile(g)
    BY <1>4
  <2>2. PendingNamed(writeClaimsFile(g)) /\ ReadyTrue(writeClaimsFile(g), now)
    BY <1>2, <2>1, WrittenSettled DEF Follows
  <2> QED
    BY <1>1, <2>1, <2>2 DEF WaitInv
<1> QED
  BY <1>2, <1>3, <1>4 DEF Effect

LEMMA WaitInvHolds == Spec => []WaitInv
  BY WaitInvInit, WaitInvNext, PTL DEF Spec

\* No wake-up is lost: a waiter is pending in the file only while a claim it names is
\* active there and conflicts with it, or was cut off and is older than all that are left.
THEOREM PendingForAReason == Spec => []PendingHasBlockers
<1>1. WaitInv => PendingHasBlockers
  BY DEF WaitInv, PendingNamed, PendingHasBlockers
<1> QED
  BY <1>1, WaitInvHolds, PTL

\* A waiter that is marked ready is blocked at most by the newest claim: the one write
\* that does not look at the waiters again is the claim's own.
THEOREM ReadyButForNewest == Spec => []ReadyStaleOnlyByNewest
<1>1. WaitInv => ReadyStaleOnlyByNewest
  BY DEF WaitInv, ReadyTrue, ReadyStaleOnlyByNewest
<1> QED
  BY <1>1, WaitInvHolds, PTL

\* One step never revives an ended record nor hands a record to someone else.
LEMMA StepOnlyEnds == IInv /\ [Next]_vars => RecordsKept(file, file')
<1> SUFFICES ASSUME IInv, [Next]_vars PROVE RecordsKept(file, file')
  OBVIOUS
<1>1. Effect /\ IsClaimsFile(file)
  BY StepEffect DEF IInv, TypeOK
<1>2. CASE file' = file
  BY <1>2 DEF RecordsKept
<1>3. CASE \E t, g : t \in Nat /\ t <= now /\ now' = now /\ Follows(file, g, t) /\ file' = writeClaimsFile(g)
  BY <1>1, <1>3, WrittenKept
<1> QED
  BY <1>1, <1>2, <1>3 DEF Effect

\* A claim or waiter that has ended never lives again, and no record ever changes its
\* owner, mode or scopes, whatever is prolonged, released by id, expired or cut off.
THEOREM RecordsStayEnded == Spec => RecordsOnlyEnd
<1>1. IInv /\ [Next]_vars =>
        [/\ \A i \in DOMAIN file.claims \cap DOMAIN file'.claims :
              /\ [file'.claims[i] EXCEPT !.status = "", !.expires = 0]
                  = [file.claims[i] EXCEPT !.status = "", !.expires = 0]
              /\ file.claims[i].status # "active" => file'.claims[i] = file.claims[i]
         /\ \A w \in DOMAIN file.waiters \cap DOMAIN file'.waiters :
              file.waiters[w].status \in {"cancelled", "expired"} => file'.waiters[w] = file.waiters[w]
        ]_vars
  BY StepOnlyEnds DEF RecordsKept
<1> QED
  BY <1>1, IInvHolds, PTL DEF Spec, RecordsOnlyEnd

-----------------------------------------------------------------------------
(* The resume command. Its claims are calls on the queue like any other,    *)
(* so the queue's invariant holds under it; what it remembers of the queue  *)
(* between two steps, ids, stays true because claims only end and new ids   *)
(* are new.                                                                 *)

\* What a step leaves of the claims to those who remember their ids.
ClaimsGoOn ==
    /\ file.next_sequence <= file'.next_sequence
    /\ \A i \in DOMAIN file'.claims :
        IF i \in DOMAIN file.claims
        THEN /\ file'.claims[i].session = file.claims[i].session
             /\ file'.claims[i].scopes = file.claims[i].scopes
        ELSE i = file.next_sequence

LEMMA EffectGoesOn ==
    ASSUME IInv, Effect
    PROVE  ClaimsGoOn
<1>1. IsClaimsFile(file) /\ file.next_sequence \in Nat
  BY DEF IInv, TypeOK, IsClaimsFile
<1>2. ASSUME file' = file PROVE ClaimsGoOn
  BY <1>1, <1>2 DEF ClaimsGoOn
<1>3. ASSUME NEW t, NEW g, Follows(file, g, t), file' = writeClaimsFile(g) PROVE ClaimsGoOn
  <2>1. /\ DOMAIN file'.claims = newest(g.claims) /\ newest(g.claims) \subseteq DOMAIN g.claims
        /\ \A i \in DOMAIN file'.claims : file'.claims[i] = g.claims[i]
        /\ file'.next_sequence = g.next_sequence
    BY <1>3, WrittenRecords DEF Follows
  <2>2. OnlyEnded(file, g.claims) /\ OnlyAdded(file, g)
    BY <1>3 DEF Follows
  <2> QED
    BY <1>1, <2>1, <2>2 DEF ClaimsGoOn, OnlyEnded, OnlyAdded
<1> QED
  BY <1>2, <1>3 DEF Effect

LEMMA MeetCommutes ==
    ASSUME NEW left, NEW right, scopesMeet(left, right)
    PROVE  scopesMeet(right, left)
<1>1. PICK p \in (left \X right) \cap Touching : TRUE
  BY DEF scopesMeet
<1>2. PICK a \in left, b \in right : p = <<a, b>>
  BY <1>1
<1>3. a \in Scope /\ b \in Scope /\ scopesOverlap(a, b)
  BY <1>1, <1>2 DEF Touching
<1>4. scopesOverlap(b, a)
  BY <1>3, OverlapCommutes
<1>5. <<b, a>> \in (right \X left) \cap Touching
  BY <1>2, <1>3, <1>4 DEF Touching
<1> QED
  BY <1>5 DEF scopesMeet

\* An unforced claim is refused for an active claim of somebody else that meets it, or
\* is written under the next id, in the name of the caller.
LEMMA Granted ==
    ASSUME NEW f, IsClaimsFile(f), NEW t \in Nat, NEW session \in Session,
           NEW ask \in AnyAsk, NEW ttl \in TTL
    PROVE  LET outcome == claimOutcome(f, t, session, ask, ttl, FALSE)
           IN  \/ /\ outcome.kind = "throw"
                  /\ \E i \in DOMAIN f.claims :
                        /\ f.claims[i].session # session /\ f.claims[i].status = "active"
                        /\ scopesMeet(ask.scopes, f.claims[i].scopes)
               \/ /\ outcome.kind = "write"
                  /\ outcome.file.next_sequence = f.next_sequence + 1
                  /\ f.next_sequence \in DOMAIN outcome.file.claims =>
                        outcome.file.claims[f.next_sequence].session = session
<1> DEFINE outcome == claimOutcome(f, t, session, ask, ttl, FALSE)
           candidate == [session |-> session, status |-> "active", mode |-> ask.mode,
                         scopes |-> ask.scopes, expires |-> t + ttl]
           blockers == blockingClaimIdsForWaiter(candidate, opened(f, t).claims, t)
<1>1. PICK g : /\ Drafted(f, g, WithClaim(f, t, Candidate(t, session, ask, ttl)), 1, 0)
               /\ outcome \in {Throw(f), Write(g)}
  BY ClaimDraft
<1>2. blockers = {} => outcome.kind = "write"
  BY DEF claimOutcome, Write
<1>3. ASSUME blockers # {}
      PROVE  \E i \in DOMAIN f.claims :
                /\ f.claims[i].session # session /\ f.claims[i].status = "active"
                /\ scopesMeet(ask.scopes, f.claims[i].scopes)
  <2>1. PICK i \in blockers : TRUE
    BY <1>3
  <2>2. opened(f, t).claims = [k \in DOMAIN f.claims |-> Aged(f.claims[k], t)]
    BY OpenedClaims
  <2>3. i \in DOMAIN f.claims /\ opened(f, t).claims[i] = Aged(f.claims[i], t)
    BY <2>1, <2>2 DEF blockingClaimIdsForWaiter
  <2>4. Aged(f.claims[i], t).status = "active" /\ Conflicting(candidate, Aged(f.claims[i], t))
    BY <2>1, <2>3 DEF blockingClaimIdsForWaiter, isClaimActive
  <2>5. f.claims[i] \in ClaimRecord
    BY <2>3, ClaimsOf
  <2>6. /\ Aged(f.claims[i], t).session = f.claims[i].session
        /\ Aged(f.claims[i], t).scopes = f.claims[i].scopes
        /\ f.claims[i].status = "active"
    BY <2>4, <2>5, AgedEnds
  <2> QED
    BY <2>3, <2>4, <2>6 DEF Conflicting
<1> HIDE DEF outcome, blockers
<1>4. outcome.kind = "write" => outcome = Write(g)
  BY <1>1 DEF Throw, Write
<1>5. ASSUME outcome = Write(g)
      PROVE  /\ outcome.kind = "write"
             /\ outcome.file.next_sequence = f.next_sequence + 1
             /\ f.next_sequence \in DOMAIN outcome.file.claims =>
                    outcome.file.claims[f.next_sequence].session = session
  <2>1. /\ IsClaimsFile(g) /\ g.next_sequence = f.next_sequence + 1
        /\ g.claims = WithClaim(f, t, Candidate(t, session, ask, ttl))
    BY <1>1 DEF Drafted
  <2>2. g.claims[f.next_sequence].session = session
    BY <2>1 DEF WithClaim, Candidate
  <2>3. outcome.file = writeClaimsFile(g) /\ outcome.kind = "write"
    BY <1>5 DEF Write
  <2> QED
    BY <2>1, <2>2, <2>3, WrittenRecords
<1>6. outcome.kind \in {"throw", "write"}
  BY <1>1 DEF Throw, Write
<1> QED
  BY <1>2, <1>3, <1>4, <1>5, <1>6 DEF outcome

-----------------------------------------------------------------------------
(* The inductive invariant of the resume command.                           *)

RoadmapOK ==
    /\ status \in [Task -> Open \cup Left]
    /\ link \in [Session -> Task \cup {NoTask}]
    /\ resumes \in 0..MaxResumes
    /\ updates \in 0..MaxUpdates

CommandOK ==
    /\ pc \in [Session -> {"idle", "roadmap", "select", "set", "link", "own", "claim"}]
    /\ want \in [Session -> Task \cup {NoTask}]
    /\ persisted \in [Session -> Task \cup {NoTask}]
    /\ seen \in [Session -> [Task -> Open \cup Left]]
    /\ chosen \in [Session -> Task \cup {NoTask}]
    /\ asked \in [Session -> Nat]
    /\ live \in [Session -> SUBSET Nat]
    /\ \A s \in Session : pc[s] \in {"set", "link", "own", "claim"} <=> chosen[s] # NoTask

WorkOK ==
    /\ taskOf \in [1..MaxClaims -> Task \cup {NoTask}]
    /\ work \in [Session -> [task : Task \cup {NoTask}, claim : Nat]]
    /\ \A s \in Session : work[s] = NoWork \/ work[s].task = taskOf[work[s].claim]

\* The claim a session works under has been made, and made by that session.
WorksUnderOwn ==
    \A s \in Session : work[s] # NoWork =>
        /\ 0 < work[s].claim /\ work[s].claim < file.next_sequence
        /\ work[s].claim \in DOMAIN file.claims => file.claims[work[s].claim].session = s

\* What was live when a session chose had been made by then, and none of it that is
\* still in the file keeps others off the task.
ChosenWasFree ==
    \A s \in Session :
        /\ \A i \in live[s] : i < file.next_sequence
        /\ chosen[s] # NoTask => \A i \in live[s] \cap DOMAIN file.claims :
              file.claims[i].session # s => ~scopesMeet(ScopesOf[chosen[s]], file.claims[i].scopes)

ResumeInv == IInv /\ RoadmapOK /\ CommandOK /\ WorkOK /\ WorksUnderOwn /\ ChosenWasFree

LEMMA TypesTogether == ResumeInv => ResumeTypeOK
  BY DEF ResumeInv, IInv, RoadmapOK, CommandOK, WorkOK, ResumeTypeOK

LEMMA NoTaskApart == NoTask \notin Task
  BY ResumeBounds DEF Task, NoTask

LEMMA ResumeInitInv == ResumeInit => ResumeInv
<1> SUFFICES ASSUME ResumeInit PROVE ResumeInv
  OBVIOUS
<1>1. IInv
  BY InitIInv DEF ResumeInit
<1>2. RoadmapOK
  BY ResumeBounds DEF ResumeInit, RoadmapOK, Open
<1>3. CommandOK
  BY DEF ResumeInit, CommandOK, Unread, Left
<1>4. WorkOK
  BY DEF ResumeInit, WorkOK, NoWork
<1>5. WorksUnderOwn /\ ChosenWasFree
  BY DEF ResumeInit, WorksUnderOwn, ChosenWasFree
<1> QED
  BY <1>1, <1>2, <1>3, <1>4, <1>5 DEF ResumeInv

\* The two outcomes of the claim that a resume makes.
LEMMA ClaimArtifactsGranted ==
    ASSUME ResumeInv, NEW s \in Session, ClaimArtifacts(s)
    PROVE  /\ IInv' /\ Effect
           /\ \/ /\ UNCHANGED <<taskOf, work>>
                 /\ \E i \in DOMAIN file.claims :
                        /\ file.claims[i].session # s /\ file.claims[i].status = "active"
                        /\ scopesMeet(ScopesOf[chosen[s]], file.claims[i].scopes)
              \/ /\ taskOf' = [taskOf EXCEPT ![file.next_sequence] = chosen[s]]
                 /\ work' = [work EXCEPT ![s] = [task |-> chosen[s], claim |-> file.next_sequence]]
                 /\ file'.next_sequence = file.next_sequence + 1
                 /\ file.next_sequence \in DOMAIN file'.claims =>
                        file'.claims[file.next_sequence].session = s
<1> DEFINE ask == [mode |-> "write", scopes |-> ScopesOf[chosen[s]]]
<1>1. PICK t \in synced..now, ttl \in TTL :
        LET outcome == claimOutcome(file, t, s, ask, ttl, FALSE)
        IN  /\ Take(outcome)
            /\ IF outcome.kind = "throw"
               THEN UNCHANGED <<taskOf, work>>
               ELSE /\ taskOf' = [taskOf EXCEPT ![file.next_sequence] = chosen[s]]
                    /\ work' = [work EXCEPT ![s] = [task |-> chosen[s], claim |-> file.next_sequence]]
  BY DEF ClaimArtifacts
<1>2. ask \in AnyAsk
  <2>1. chosen[s] \in Task
    BY DEF ResumeInv, CommandOK, ClaimArtifacts
  <2> QED
    BY <2>1, ScopesOfType DEF AnyAsk, Mode
<1> HIDE DEF ask
<1>3. IInv /\ t \in Nat /\ IsClaimsFile(file) /\ Exclusive(opened(file, t), forced)
  BY SampleExclusive DEF ResumeInv
<1> DEFINE outcome == claimOutcome(file, t, s, ask, ttl, FALSE)
<1>4. forced' = forced
  BY DEF ClaimArtifacts
<1>5. /\ IsClaimsFile(outcome.file)
      /\ outcome.file = file \/ Exclusive(outcome.file, forced)
  BY <1>2, <1>3, ClaimOutcomeType
<1>6. PICK g : Follows(file, g, t) /\ outcome \in {Throw(file), Write(g)}
  BY <1>2, <1>3, ClaimFollows
<1>7. \/ /\ outcome.kind = "throw"
         /\ \E i \in DOMAIN file.claims :
                /\ file.claims[i].session # s /\ file.claims[i].status = "active"
                /\ scopesMeet(ask.scopes, file.claims[i].scopes)
      \/ /\ outcome.kind = "write"
         /\ outcome.file.next_sequence = file.next_sequence + 1
         /\ file.next_sequence \in DOMAIN outcome.file.claims =>
                outcome.file.claims[file.next_sequence].session = s
  BY <1>2, <1>3, Granted
<1> HIDE DEF outcome
<1>8. Take(outcome)
  BY <1>1 DEF outcome
<1>9. IInv'
  BY <1>3, <1>4, <1>5, <1>8, TakeIInv DEF IInv, TypeOK
<1>10. Effect
  BY <1>3, <1>6, <1>8, TakeEffect
<1>11. IF outcome.kind = "throw"
       THEN UNCHANGED <<taskOf, work>>
       ELSE /\ taskOf' = [taskOf EXCEPT ![file.next_sequence] = chosen[s]]
            /\ work' = [work EXCEPT ![s] = [task |-> chosen[s], claim |-> file.next_sequence]]
  BY <1>1 DEF outcome
<1>12. ask.scopes = ScopesOf[chosen[s]] /\ file' = outcome.file
  BY <1>8 DEF ask, Take
<1> QED
  BY <1>7, <1>9, <1>10, <1>11, <1>12

\* Under the resume command and the tools the queue still makes queue steps.
LEMMA QueueGoesOn ==
    ASSUME ResumeInv, [ResumeNext]_resumeVars
    PROVE  IInv' /\ ClaimsGoOn
<1>1. IInv
  BY DEF ResumeInv
<1>2. ASSUME [Next]_vars PROVE IInv' /\ ClaimsGoOn
  BY <1>1, <1>2, NextIInv, StepEffect, EffectGoesOn
<1>3. ASSUME UNCHANGED queue PROVE [Next]_vars
  BY <1>3 DEF queue, vars
<1>4. ASSUME QueueStep PROVE [Next]_vars
  BY <1>4 DEF QueueStep, Next
<1>5. ASSUME NEW s \in Session, Mark(s) PROVE [Next]_vars
  BY <1>5 DEF Mark, Next
<1>6. ASSUME NEW s \in Session, RecordLink(s) PROVE UNCHANGED queue
  BY <1>6 DEF RecordLink
<1>7. ASSUME NEW t \in Task, UpdateTask(t) PROVE UNCHANGED queue
  BY <1>7 DEF UpdateTask
<1>8. ASSUME NEW s \in Session, Resume(s), ~ClaimArtifacts(s) PROVE UNCHANGED queue
  BY <1>8 DEF Resume, StartResume, ReadRoadmap, Select, SetInProgress, Link, CheckOwn
<1>9. ASSUME NEW s \in Session, ClaimArtifacts(s) PROVE IInv' /\ ClaimsGoOn
  BY <1>1, <1>9, ClaimArtifactsGranted, EffectGoesOn
<1>10. ASSUME UNCHANGED resumeVars PROVE UNCHANGED queue
  BY <1>10 DEF resumeVars
<1> QED
  BY <1>2, <1>3, <1>4, <1>5, <1>6, <1>7, <1>8, <1>9, <1>10 DEF ResumeNext

-----------------------------------------------------------------------------
(* Its parts, step by step.                                                 *)

LEMMA RoadmapStep ==
    ASSUME ResumeInv, [ResumeNext]_resumeVars
    PROVE  RoadmapOK'
<1>1. RoadmapOK /\ CommandOK /\ MaxResumes \in Nat /\ MaxUpdates \in Nat
  BY ResumeBounds DEF ResumeInv
<1>2. ASSUME UNCHANGED <<status, link, resumes, updates>> PROVE RoadmapOK'
  BY <1>1, <1>2 DEF RoadmapOK
<1>3. ASSUME NEW s \in Session, StartResume(s) PROVE RoadmapOK'
  BY <1>1, <1>3 DEF StartResume, RoadmapOK, roadmap
<1>4. ASSUME NEW s \in Session, SetInProgress(s) PROVE RoadmapOK'
  BY <1>1, <1>4 DEF SetInProgress, RoadmapOK, Open
<1>5. ASSUME NEW s \in Session, Link(s) PROVE RoadmapOK'
  BY <1>1, <1>5 DEF Link, RoadmapOK, CommandOK, roadmap
<1>6. ASSUME NEW s \in Session, Mark(s) PROVE RoadmapOK'
  BY <1>1, <1>6 DEF Mark, RoadmapOK
<1>7. ASSUME NEW s \in Session, RecordLink(s) PROVE RoadmapOK'
  BY <1>1, <1>7 DEF RecordLink, RoadmapOK
<1>8. ASSUME NEW t \in Task, UpdateTask(t) PROVE RoadmapOK'
  BY <1>1, <1>8 DEF UpdateTask, RoadmapOK
<1>9. ASSUME NEW s \in Session, ReadRoadmap(s) \/ Select(s) \/ CheckOwn(s) \/ ClaimArtifacts(s)
      PROVE  UNCHANGED <<status, link, resumes, updates>>
  BY <1>9 DEF ReadRoadmap, Select, CheckOwn, ClaimArtifacts, roadmap
<1>10. ASSUME QueueStep \/ UNCHANGED resumeVars PROVE UNCHANGED <<status, link, resumes, updates>>
  BY <1>10 DEF QueueStep, resumeVars, roadmap
<1> QED
  BY <1>2, <1>3, <1>4, <1>5, <1>6, <1>7, <1>8, <1>9, <1>10 DEF ResumeNext, Resume

LEMMA OverCommand ==
    ASSUME CommandOK, NEW s \in Session, Over(s)
    PROVE  CommandOK'
<1>1. /\ pc' \in [Session -> {"idle", "roadmap", "select", "set", "link", "own", "claim"}]
      /\ want' \in [Session -> Task \cup {NoTask}]
      /\ persisted' \in [Session -> Task \cup {NoTask}]
      /\ chosen' \in [Session -> Task \cup {NoTask}]
      /\ asked' \in [Session -> Nat]
      /\ live' \in [Session -> SUBSET Nat]
  BY DEF CommandOK, Over
<1>2. seen' \in [Session -> [Task -> Open \cup Left]]
  BY DEF CommandOK, Over, Unread, Left
<1>3. \A o \in Session : pc'[o] \in {"set", "link", "own", "claim"} <=> chosen'[o] # NoTask
  BY DEF CommandOK, Over
<1> QED
  BY <1>1, <1>2, <1>3 DEF CommandOK

LEMMA CommandStep ==
    ASSUME ResumeInv, [ResumeNext]_resumeVars
    PROVE  CommandOK'
<1>1. CommandOK /\ RoadmapOK /\ now \in Nat /\ NoTask \notin Task
  BY NoTaskApart DEF ResumeInv, IInv, TypeOK
<1>2. ASSUME UNCHANGED <<command, live>> PROVE CommandOK'
  BY <1>1, <1>2 DEF CommandOK, command
<1>3. ASSUME NEW s \in Session, StartResume(s) PROVE CommandOK'
  <2>1. PICK t \in Task \cup {NoTask}, f \in Task \cup {NoTask} :
            /\ want' = [want EXCEPT ![s] = t] /\ persisted' = [persisted EXCEPT ![s] = f]
    BY <1>3, ExecutableType DEF StartResume, Focuses
  <2>2. /\ pc[s] = "idle" /\ pc' = [pc EXCEPT ![s] = "roadmap"]
        /\ UNCHANGED <<live, seen, chosen, asked>>
    BY <1>3 DEF StartResume, Goes
  <2> QED
    BY <1>1, <2>1, <2>2 DEF CommandOK
<1>4. ASSUME NEW s \in Session, ReadRoadmap(s) PROVE CommandOK'
  BY <1>1, <1>4 DEF ReadRoadmap, Goes, CommandOK, RoadmapOK
<1>5. ASSUME NEW s \in Session, Select(s) PROVE CommandOK'
  <2>1. ASSUME NEW t \in Selection(s), Goes(s, IF seen[s][t] = "in_progress" THEN "link" ELSE "set"),
               chosen' = [chosen EXCEPT ![s] = t], live' = [live EXCEPT ![s] = Live],
               want' = [want EXCEPT ![s] = NoTask], persisted' = [persisted EXCEPT ![s] = NoTask],
               seen' = [seen EXCEPT ![s] = Unread], UNCHANGED asked
        PROVE  CommandOK'
    <3>1. t \in Task
      BY <2>1 DEF Selection
    <3>2. Live \subseteq Nat
      BY DEF Live, ResumeInv, IInv, TypeOK, IsClaimsFile, IsArrayOf
    <3>3. Unread \in [Task -> Open \cup Left]
      BY DEF Unread, Left
    <3>4. PICK at \in {"link", "set"} : pc' = [pc EXCEPT ![s] = at]
      BY <2>1 DEF Goes
    <3> QED
      BY <1>1, <2>1, <3>1, <3>2, <3>3, <3>4 DEF CommandOK
  <2> QED
    BY <1>1, <1>5, <2>1, OverCommand DEF Select
<1>6. ASSUME NEW s \in Session, SetInProgress(s) PROVE CommandOK'
  <2>1. ASSUME Goes(s, "link"), UNCHANGED <<want, persisted, seen, chosen, asked, live>>
        PROVE  CommandOK'
    BY <1>1, <1>6, <2>1 DEF SetInProgress, Goes, CommandOK
  <2> QED
    BY <1>1, <1>6, <2>1, OverCommand DEF SetInProgress
<1>7. ASSUME NEW s \in Session, Link(s) PROVE CommandOK'
  <2>1. ASSUME Goes(s, "own"), UNCHANGED <<want, persisted, seen, chosen, asked, live>>
        PROVE  CommandOK'
    BY <1>1, <1>7, <2>1 DEF Link, Goes, CommandOK
  <2> QED
    BY <1>1, <1>7, <2>1, OverCommand DEF Link
<1>8. ASSUME NEW s \in Session, CheckOwn(s) PROVE CommandOK'
  <2>1. ASSUME asked' = [asked EXCEPT ![s] = now], Goes(s, "claim"),
               UNCHANGED <<work, want, persisted, seen, chosen, live>>
        PROVE  CommandOK'
    BY <1>1, <1>8, <2>1 DEF CheckOwn, Goes, CommandOK
  <2> QED
    BY <1>1, <1>8, <2>1, OverCommand DEF CheckOwn
<1>9. ASSUME NEW s \in Session, ClaimArtifacts(s) PROVE CommandOK'
  BY <1>1, <1>9, OverCommand DEF ClaimArtifacts
<1>10. ASSUME NEW s \in Session, Mark(s) \/ RecordLink(s) PROVE UNCHANGED <<command, live>>
  BY <1>10 DEF Mark, RecordLink
<1>11. ASSUME NEW t \in Task, UpdateTask(t) PROVE UNCHANGED <<command, live>>
  BY <1>11 DEF UpdateTask
<1>12. ASSUME QueueStep \/ UNCHANGED resumeVars PROVE UNCHANGED <<command, live>>
  BY <1>12 DEF QueueStep, resumeVars
<1> QED
  BY <1>2, <1>3, <1>4, <1>5, <1>6, <1>7, <1>8, <1>9, <1>10, <1>11, <1>12 DEF ResumeNext, Resume

\* What a session works with keeps its task and its owner: a claim made since has a new
\* id, and the claims that were there keep their sessions.
LEMMA WorkStep ==
    ASSUME ResumeInv, [ResumeNext]_resumeVars
    PROVE  WorkOK' /\ WorksUnderOwn'
<1>1. /\ CommandOK /\ WorkOK /\ WorksUnderOwn /\ IInv /\ ClaimsGoOn
      /\ file.next_sequence \in Nat \ {0} /\ file'.next_sequence \in Nat
  BY QueueGoesOn DEF ResumeInv, IInv, TypeOK, IsClaimsFile
<1>2. ASSUME UNCHANGED work PROVE WorksUnderOwn'
  BY <1>1, <1>2 DEF WorksUnderOwn, ClaimsGoOn, WorkOK
<1>3. ASSUME UNCHANGED <<taskOf, work>> PROVE WorkOK' /\ WorksUnderOwn'
  BY <1>1, <1>2, <1>3 DEF WorkOK
<1>4. ASSUME file.next_sequence <= MaxClaims, NEW s \in Session, work[s] # NoWork
      PROVE  work[s].claim # file.next_sequence /\ work[s].claim \in 1..MaxClaims
  BY <1>1, <1>4, BoundsType DEF WorksUnderOwn, WorkOK
<1>5. ASSUME NEW s \in Session, CheckOwn(s) PROVE WorkOK' /\ WorksUnderOwn'
  <2>1. ASSUME NEW i \in OwnClaims(s), work' = [work EXCEPT ![s] = [task |-> chosen[s], claim |-> i]]
        PROVE  WorkOK' /\ WorksUnderOwn'
    <3>1. i \in DOMAIN file.claims /\ file.claims[i].session = s /\ taskOf[i] = chosen[s]
      BY DEF OwnClaims, Live
    <3>2. i \in Nat \ {0} /\ i < file.next_sequence
      BY <1>1, <3>1 DEF IInv, TypeOK, IsClaimsFile, IsArrayOf
    <3>3. UNCHANGED <<taskOf, file>>
      BY <1>5 DEF CheckOwn, queue
    <3>4. WorkOK'
      BY <1>1, <2>1, <3>1, <3>2, <3>3 DEF WorkOK, CommandOK
    <3>5. WorksUnderOwn'
      BY <1>1, <2>1, <3>1, <3>2, <3>3 DEF WorksUnderOwn, WorkOK
    <3> QED
      BY <3>4, <3>5
  <2>2. ASSUME UNCHANGED work PROVE WorkOK' /\ WorksUnderOwn'
    BY <1>3, <1>5, <2>2 DEF CheckOwn
  <2> QED
    BY <1>5, <2>1, <2>2 DEF CheckOwn
<1>6. ASSUME NEW s \in Session, ClaimArtifacts(s) PROVE WorkOK' /\ WorksUnderOwn'
  <2>1. ASSUME taskOf' = [taskOf EXCEPT ![file.next_sequence] = chosen[s]],
               work' = [work EXCEPT ![s] = [task |-> chosen[s], claim |-> file.next_sequence]],
               file'.next_sequence = file.next_sequence + 1,
               file.next_sequence \in DOMAIN file'.claims =>
                    file'.claims[file.next_sequence].session = s
        PROVE  WorkOK' /\ WorksUnderOwn'
    <3>1. file.next_sequence \in 1..MaxClaims /\ chosen[s] \in Task \cup {NoTask}
      BY <1>1, <1>6, BoundsType DEF ClaimArtifacts, CommandOK
    <3>2. PICK n, t : n = file.next_sequence /\ t = chosen[s]
      OBVIOUS
    <3>3. /\ taskOf' = [taskOf EXCEPT ![n] = t] /\ work' = [work EXCEPT ![s] = [task |-> t, claim |-> n]]
          /\ n \in 1..MaxClaims /\ t \in Task \cup {NoTask} /\ n \in Nat
          /\ \A o \in Session : work[o] # NoWork => work[o].claim # n /\ work[o].claim \in 1..MaxClaims
      BY <1>1, <1>4, <1>6, <2>1, <3>1, <3>2 DEF ClaimArtifacts
    <3>4. taskOf' \in [1..MaxClaims -> Task \cup {NoTask}]
      BY <1>1, <3>3 DEF WorkOK
    <3>5. work' \in [Session -> [task : Task \cup {NoTask}, claim : Nat]]
      BY <1>1, <3>3 DEF WorkOK
    <3>6. ASSUME NEW o \in Session PROVE work'[o] = NoWork \/ work'[o].task = taskOf'[work'[o].claim]
      <4>1. CASE o = s
        BY <1>1, <3>3, <4>1 DEF WorkOK
      <4>2. CASE o # s
        <5>1. work'[o] = work[o]
          BY <1>1, <3>3, <4>2 DEF WorkOK
        <5>2. work[o] # NoWork => taskOf'[work[o].claim] = taskOf[work[o].claim]
          BY <1>1, <3>3 DEF WorkOK
        <5> QED
          BY <1>1, <5>1, <5>2 DEF WorkOK
      <4> QED
        BY <4>1, <4>2
    <3>7. WorksUnderOwn'
      BY <1>1, <2>1, <3>2, <3>3 DEF WorksUnderOwn, WorkOK, ClaimsGoOn
    <3> QED
      BY <3>4, <3>5, <3>6, <3>7 DEF WorkOK
  <2> QED
    BY <1>3, <1>6, <2>1, ClaimArtifactsGranted
<1>7. ASSUME NEW s \in Session, Mark(s) PROVE WorkOK' /\ WorksUnderOwn'
  <2>1. PICK t \in Task \cup {NoTask} :
            taskOf' = IF file'.next_sequence > file.next_sequence
                      THEN [taskOf EXCEPT ![file.next_sequence] = t] ELSE taskOf
    BY <1>7 DEF Mark
  <2> DEFINE n == file.next_sequence
  <2>6. taskOf' = taskOf \/ taskOf' = [taskOf EXCEPT ![n] = t]
    BY <2>1
  <2>7. \A o \in Session : work[o] # NoWork => work[o].claim # n /\ work[o].claim \in 1..MaxClaims
    BY <1>4, <1>7 DEF Mark, Claim
  <2> HIDE DEF n
  <2>2. UNCHANGED work
    BY <1>7 DEF Mark
  <2>3. \A o \in Session : work[o] # NoWork => taskOf'[work[o].claim] = taskOf[work[o].claim]
    <3> SUFFICES ASSUME NEW o \in Session, work[o] # NoWork
                 PROVE  taskOf'[work[o].claim] = taskOf[work[o].claim]
      OBVIOUS
    <3>1. PICK k : k = work[o].claim
      OBVIOUS
    <3>2. k # n /\ k \in 1..MaxClaims
      BY <2>7, <3>1
    <3>3. taskOf'[k] = taskOf[k]
      BY <1>1, <2>6, <3>2 DEF WorkOK
    <3> QED
      BY <3>1, <3>3
  <2>4. taskOf' \in [1..MaxClaims -> Task \cup {NoTask}]
    BY <1>1, <2>6 DEF WorkOK
  <2>5. WorkOK'
    BY <1>1, <2>2, <2>3, <2>4 DEF WorkOK
  <2> QED
    BY <1>2, <2>2, <2>5
<1>8. ASSUME NEW s \in Session,
             StartResume(s) \/ ReadRoadmap(s) \/ Select(s) \/ SetInProgress(s) \/ Link(s) \/ RecordLink(s)
      PROVE  UNCHANGED <<taskOf, work>>
  BY <1>8 DEF StartResume, ReadRoadmap, Select, SetInProgress, Link, RecordLink
<1>9. ASSUME NEW t \in Task, UpdateTask(t) PROVE UNCHANGED <<taskOf, work>>
  BY <1>9 DEF UpdateTask
<1>10. ASSUME QueueStep \/ UNCHANGED resumeVars PROVE UNCHANGED <<taskOf, work>>
  BY <1>10 DEF QueueStep, resumeVars
<1> QED
  BY <1>3, <1>5, <1>6, <1>7, <1>8, <1>9, <1>10 DEF ResumeNext, Resume

\* What was found free stays free of the claims seen then.
LEMMA ChosenStep ==
    ASSUME ResumeInv, [ResumeNext]_resumeVars
    PROVE  ChosenWasFree'
<1>1. /\ CommandOK /\ ChosenWasFree /\ IInv /\ ClaimsGoOn
      /\ file.next_sequence \in Nat /\ file'.next_sequence \in Nat
  BY QueueGoesOn DEF ResumeInv, IInv, TypeOK, IsClaimsFile
<1>2. ASSUME UNCHANGED <<chosen, live>> PROVE ChosenWasFree'
  <2>1. \A s \in Session : \A i \in live[s] : i \in Nat /\ i < file.next_sequence
    BY <1>1 DEF ChosenWasFree, CommandOK
  <2> QED
    BY <1>1, <1>2, <2>1 DEF ChosenWasFree, ClaimsGoOn
<1>3. ASSUME NEW s \in Session, Over(s) PROVE ChosenWasFree'
  <2>1. /\ chosen'[s] = NoTask /\ live'[s] = {}
        /\ \A o \in Session : o # s => chosen'[o] = chosen[o] /\ live'[o] = live[o]
    BY <1>1, <1>3 DEF Over, CommandOK
  <2>2. \A o \in Session : \A i \in live[o] : i \in Nat /\ i < file.next_sequence
    BY <1>1 DEF ChosenWasFree, CommandOK
  <2> QED
    BY <1>1, <2>1, <2>2 DEF ChosenWasFree, ClaimsGoOn
<1>4. ASSUME NEW s \in Session, Select(s) PROVE ChosenWasFree'
  <2>1. ASSUME NEW t \in Selection(s), chosen' = [chosen EXCEPT ![s] = t], live' = [live EXCEPT ![s] = Live]
        PROVE  ChosenWasFree'
    <3>1. UNCHANGED file
      BY <1>4 DEF Select, queue
    <3>2. ~Busy(s, t)
      BY DEF Selection, Startable
    <3>3. \A i \in Live : file.claims[i].session # s => ~scopesMeet(ScopesOf[t], file.claims[i].scopes)
      BY <3>2 DEF Busy
    <3>4. \A i \in Live : i < file.next_sequence
      BY <1>1 DEF Live, IInv, TypeOK, IsClaimsFile
    <3>5. /\ chosen'[s] = t /\ live'[s] = Live
          /\ \A o \in Session : o # s => chosen'[o] = chosen[o] /\ live'[o] = live[o]
      BY <1>1, <2>1 DEF CommandOK
    <3> QED
      BY <1>1, <3>1, <3>3, <3>4, <3>5 DEF ChosenWasFree
  <2> QED
    BY <1>3, <1>4, <2>1 DEF Select
<1>5. ASSUME NEW s \in Session, SetInProgress(s) \/ Link(s) \/ CheckOwn(s) \/ ClaimArtifacts(s)
      PROVE  Over(s) \/ UNCHANGED <<chosen, live>>
  BY <1>5 DEF SetInProgress, Link, CheckOwn, ClaimArtifacts
<1>6. ASSUME NEW s \in Session, StartResume(s) \/ ReadRoadmap(s) \/ Mark(s) \/ RecordLink(s)
      PROVE  UNCHANGED <<chosen, live>>
  BY <1>6 DEF StartResume, ReadRoadmap, Mark, RecordLink, command
<1>7. ASSUME NEW t \in Task, UpdateTask(t) PROVE UNCHANGED <<chosen, live>>
  BY <1>7 DEF UpdateTask, command
<1>8. ASSUME QueueStep \/ UNCHANGED resumeVars PROVE UNCHANGED <<chosen, live>>
  BY <1>8 DEF QueueStep, resumeVars, command
<1> QED
  BY <1>2, <1>3, <1>4, <1>5, <1>6, <1>7, <1>8 DEF ResumeNext, Resume

LEMMA ResumeNextInv == ResumeInv /\ [ResumeNext]_resumeVars => ResumeInv'
  BY QueueGoesOn, RoadmapStep, CommandStep, WorkStep, ChosenStep DEF ResumeInv

LEMMA ResumeInvHolds == ResumeSpec => []ResumeInv
  BY ResumeInitInv, ResumeNextInv, PTL DEF ResumeSpec

-----------------------------------------------------------------------------
\* Every resume keeps its variables well formed, and whoever was told to work was given
\* a claim that names its task, whatever else was claimed in between.
THEOREM ResumeTypeCorrect == ResumeSpec => []ResumeTypeOK
  BY TypesTogether, ResumeInvHolds, PTL

\* Two sessions that hold the write claims they were told to work under, on all their
\* tasks name, work on artifacts that do not meet.
THEOREM WorkersKeepApart == ResumeSpec => []WorkersApart
<1>1. ResumeInv => WorkersApart
  <2> SUFFICES ASSUME ResumeInv, NEW s \in Session, NEW o \in Session, s # o, Holds(s), Holds(o),
                      scopesMeet(ScopesOf[work[s].task], ScopesOf[work[o].task])
               PROVE  FALSE
    BY DEF WorkersApart
  <2> DEFINE i == work[s].claim
             j == work[o].claim
  <2>1. /\ i \in DOMAIN file.claims \ forced /\ isClaimActive(file.claims[i], now)
        /\ file.claims[i].mode = "write" /\ ScopesOf[work[s].task] \subseteq file.claims[i].scopes
        /\ j \in DOMAIN file.claims \ forced /\ isClaimActive(file.claims[j], now)
        /\ file.claims[j].mode = "write" /\ ScopesOf[work[o].task] \subseteq file.claims[j].scopes
    BY DEF Holds
  <2>2. \A k \in DOMAIN file.claims : k \in Nat \ {0}
    BY DEF ResumeInv, IInv, TypeOK, IsClaimsFile, IsArrayOf
  <2>3. file.claims[i].session = s /\ file.claims[j].session = o
    BY <2>1, <2>2 DEF ResumeInv, WorksUnderOwn, NoWork
  <2>4. scopesMeet(file.claims[i].scopes, file.claims[j].scopes)
    BY <2>1 DEF scopesMeet
  <2>5. Conflicting(file.claims[i], file.claims[j]) /\ Conflicting(file.claims[j], file.claims[i])
    BY <2>1, <2>3, <2>4, MeetCommutes DEF Conflicting
  <2>6. ExclusiveAt(file, now, forced)
    BY ExclusiveLater DEF ResumeInv, IInv, TypeOK
  <2>7. i < j \/ j < i
    BY <2>1, <2>2, <2>3
  <2> QED
    BY <2>1, <2>5, <2>6, <2>7 DEF ExclusiveAt
<1> QED
  BY <1>1, ResumeInvHolds, PTL

\* A resume whose claim is refused lost a race: the claim in its way is none of those
\* that were live when it chose its task.
THEOREM RefusalIsARace == ResumeSpec => RefusedOnlyByRace
<1>1. ResumeInv /\ [ResumeNext]_resumeVars =>
        [\A s \in Session :
            pc[s] = "claim" /\ pc'[s] = "idle" /\ file' = file =>
                \E i \in DOMAIN file.claims \ live[s] :
                    /\ file.claims[i].session # s
                    /\ file.claims[i].status = "active"
                    /\ scopesMeet(ScopesOf[chosen[s]], file.claims[i].scopes)]_resumeVars
  <2> SUFFICES ASSUME ResumeInv, ResumeNext, NEW s \in Session,
                      pc[s] = "claim", pc'[s] = "idle", file' = file
               PROVE  \E i \in DOMAIN file.claims \ live[s] :
                        /\ file.claims[i].session # s
                        /\ file.claims[i].status = "active"
                        /\ scopesMeet(ScopesOf[chosen[s]], file.claims[i].scopes)
    OBVIOUS
  <2>1. /\ pc \in [Session -> {"idle", "roadmap", "select", "set", "link", "own", "claim"}]
        /\ chosen[s] # NoTask /\ file.next_sequence \in Nat /\ ChosenWasFree
    BY DEF ResumeInv, CommandOK, IInv, TypeOK, IsClaimsFile
  <2>2. ASSUME NEW o \in Session, Resume(o), ~ClaimArtifacts(o) PROVE FALSE
    <3>1. pc[o] # "claim"
      BY <2>2 DEF Resume, StartResume, ReadRoadmap, Select, SetInProgress, Link, CheckOwn
    <3>2. pc'[s] = pc[s]
      BY <2>1, <2>2, <3>1 DEF Resume, StartResume, ReadRoadmap, Select, SetInProgress, Link, CheckOwn, Over, Goes
    <3> QED
      BY <3>2
  <2>3. ASSUME NEW o \in Session, Mark(o) \/ RecordLink(o) PROVE FALSE
    BY <2>3 DEF Mark, RecordLink, command
  <2>4. ASSUME NEW t \in Task, UpdateTask(t) PROVE FALSE
    BY <2>4 DEF UpdateTask, command
  <2>5. ASSUME QueueStep PROVE FALSE
    BY <2>5 DEF QueueStep, command
  <2>6. PICK o \in Session : ClaimArtifacts(o)
    BY <2>2, <2>3, <2>4, <2>5 DEF ResumeNext
  <2>7. o = s
    BY <2>1, <2>6 DEF ClaimArtifacts, Over
  <2>8. \E i \in DOMAIN file.claims :
            /\ file.claims[i].session # s /\ file.claims[i].status = "active"
            /\ scopesMeet(ScopesOf[chosen[s]], file.claims[i].scopes)
    BY <2>1, <2>6, <2>7, ClaimArtifactsGranted
  <2> QED
    BY <2>1, <2>8 DEF ChosenWasFree
<1> QED
  BY <1>1, ResumeInvHolds, PTL DEF ResumeSpec, RefusedOnlyByRace

-----------------------------------------------------------------------------
(* What a scope covers.                                                     *)

\* A pattern is a sequence no longer than MaxDepth, and its base is one of the files.
LEMMA BaseIsFile ==
    ASSUME NEW p \in Pattern
    PROVE  /\ p \in Seq(Segment \cup {"", "*"}) /\ IsPrefixPattern(p)
           /\ pathBase(p).base \in File
<1> DEFINE S == Segment \cup {"", "*"}
           b == pathBase(p).base
<1>1. PICK m \in 0..MaxDepth : p \in [1..m -> S]
  BY DEF Pattern, BoundedSeq, SeqOf
<1>2. IsPrefixPattern(p)
  BY DEF Pattern
<1>3. m \in Nat /\ m <= MaxDepth
  <2>1. \A k \in 0..MaxDepth : k \in Nat /\ k <= MaxDepth
    BY DepthIsNatural
  <2> QED
    BY <1>1, <2>1, Zenon
<1> HIDE DEF S
<1>4. p \in Seq(S) /\ Len(p) = m
  BY <1>1, <1>3
<1>5. b \in Seq(S) /\ IsFile(b) /\ Len(b) <= Len(p)
  BY <1>2, <1>4, PrefixPatternShape, Zenon
<1> HIDE DEF b
<1>6. Len(b) \in Nat /\ DOMAIN b = 1..Len(b) /\ b \in [1..Len(b) -> S]
  BY <1>5
<1>7. Len(b) \in 0..(MaxDepth + 1)
  BY <1>3, <1>4, <1>5, <1>6, DepthIsNatural
<1>8. \A k \in 1..Len(b) : b[k] # "*"
  BY <1>5, <1>6, Zenon DEF IsFile
<1>9. \A k \in 1..Len(b) : b[k] \in Segment \cup {""}
  BY <1>6, <1>8 DEF S
<1>10. b \in [1..Len(b) -> Segment \cup {""}]
  BY <1>6, <1>9
<1>11. b \in File
  BY <1>5, <1>7, <1>10 DEF File, BoundedSeq, SeqOf
<1> QED
  BY <1>2, <1>4, <1>11 DEF S, b

\* For every set of segments and every depth, two scopes of prefix patterns overlap
\* exactly when some file is covered by both: pathsOverlap (claims.ts) misses no shared
\* file and reports no pair without one.
THEOREM OverlapIsSharedFile == Spec => []OverlapIffSharedFile
<1> DEFINE S == Segment \cup {"", "*"}
<1>1. File \in SUBSET Seq(S)
  <2> SUFFICES ASSUME NEW f \in File PROVE f \in Seq(S)
    OBVIOUS
  <2>1. PICK m \in 0..(MaxDepth + 1) : f \in [1..m -> Segment \cup {""}]
    BY DEF File, BoundedSeq, SeqOf
  <2>2. m \in Nat
    <3>1. \A k \in 0..(MaxDepth + 1) : k \in Nat
      BY DepthIsNatural
    <3> QED
      BY <2>1, <3>1, Zenon
  <2>3. f \in [1..m -> S]
    BY <2>1
  <2> HIDE DEF S
  <2> QED
    BY <2>2, <2>3
<1>2. ASSUME NEW left \in Pattern, NEW right \in Pattern
      PROVE  scopesOverlap(Path(left), Path(right)) <=> ShareFile(left, right, File)
  <2>1. /\ left \in Seq(S) /\ IsPrefixPattern(left) /\ pathBase(left).base \in File
        /\ right \in Seq(S) /\ IsPrefixPattern(right) /\ pathBase(right).base \in File
    BY BaseIsFile
  <2>2. left # <<>>
    BY <2>1, Zenon DEF IsPrefixPattern, IsPath
  <2>3. scopesOverlap(Path(left), Path(right)) <=> pathsOverlap(left, right)
    BY <2>2 DEF scopesOverlap, Path
  <2> HIDE DEF S
  <2>4. pathsOverlap(left, right) <=> ShareFile(left, right, File)
    BY <1>1, <2>1, PathsOverlapByFile
  <2> QED
    BY <2>3, <2>4
<1>3. OverlapIffSharedFile
  BY <1>2 DEF OverlapIffSharedFile
<1> QED
  BY <1>3, PTL
=============================================================================
