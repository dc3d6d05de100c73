-------------------------- MODULE ClaimsStoreProofs --------------------------
(***************************************************************************)
(* The steps of the artifact-status queue, for every number of sessions,   *)
(* processes and requests.  In one process the mutation queue makes each   *)
(* call atomic: the steps implement ArtifactClaims, no two sessions are in *)
(* possession of overlapping write claims, and what a session was told it  *)
(* holds stays in the file.                                                *)
(***************************************************************************)
EXTENDS ClaimsStore, ClaimsFileProofs

\* All sessions run in the same pi process: one mutation queue orders them.
OneQueue == \A s, t \in Session : ProcessOf[s] = ProcessOf[t]

-----------------------------------------------------------------------------
(* ArtifactClaims computes with copies of the operators of ClaimsFile, which *)
(* the instance gives names of their own: the copies say the same.          *)

LEMMA SameConflict ==
    ASSUME NEW l, NEW r
    PROVE  Abstract!Conflicting(l, r) = Conflicting(l, r)
<1>1. Abstract!Touching = Touching
  BY DEF Touching, Abstract!Touching, scopesOverlap, Abstract!scopesOverlap,
         pathsOverlap, Abstract!pathsOverlap, pathBase, Abstract!pathBase,
         IsEmptyBase, Abstract!IsEmptyBase, Beneath, Abstract!Beneath,
         IsGlob, Abstract!IsGlob, DropTrailingSlash, Abstract!DropTrailingSlash,
         IsPrefix, Abstract!IsPrefix, Last, Abstract!Last, Front, Abstract!Front
<1> QED
  BY <1>1 DEF Abstract!Conflicting, Conflicting, Abstract!scopesMeet, scopesMeet

LEMMA SameBlocking ==
    ASSUME NEW w, NEW claims, NEW t
    PROVE  Abstract!blockingClaimIdsForWaiter(w, claims, t) = blockingClaimIdsForWaiter(w, claims, t)
  BY SameConflict DEF Abstract!blockingClaimIdsForWaiter, blockingClaimIdsForWaiter,
         Abstract!isClaimActive, isClaimActive

LEMMA SameRefresh ==
    ASSUME NEW f, NEW t
    PROVE  Abstract!refreshWaiters(f, t) = refreshWaiters(f, t)
  BY SameBlocking DEF Abstract!refreshWaiters, refreshWaiters, Abstract!refreshedWaiter, refreshedWaiter

LEMMA SameOpened ==
    ASSUME NEW f, NEW t
    PROVE  Abstract!opened(f, t) = opened(f, t)
<1>1. Abstract!normalizeClaimsFile(f) = normalizeClaimsFile(f)
  BY DEF Abstract!normalizeClaimsFile, normalizeClaimsFile, Abstract!Max, Max
<1>2. ASSUME NEW g PROVE Abstract!markExpired(g, t) = markExpired(g, t)
  BY DEF Abstract!markExpired, markExpired, Abstract!isClaimActive, isClaimActive,
         Abstract!isClaimWaiterActive, isClaimWaiterActive
<1> QED
  BY <1>1, <1>2, SameRefresh DEF Abstract!opened, opened

LEMMA SameWrite ==
    ASSUME NEW f
    PROVE  /\ Abstract!writeClaimsFile(f) = writeClaimsFile(f)
           /\ Abstract!Write(f) = Write(f)
           /\ Abstract!Leave(f) = Leave(f)
           /\ Abstract!Throw(f) = Throw(f)
<1>1. Abstract!writeClaimsFile(f) = writeClaimsFile(f)
  BY DEF Abstract!writeClaimsFile, writeClaimsFile, Abstract!newest, newest,
         Abstract!Restrict, Restrict, Abstract!Cardinality, Cardinality
<1> QED
  BY <1>1 DEF Abstract!Write, Write, Abstract!Leave, Leave, Abstract!Throw, Throw

LEMMA SameTargets ==
    ASSUME NEW record, NEW kind, NEW id, NEW target, NEW s
    PROVE  Abstract!Targets(record, kind, id, target, s) = Targets(record, kind, id, target, s)
  BY DEF Abstract!Targets, Targets, Abstract!OwnRecords, OwnRecords

LEMMA SameList ==
    ASSUME NEW f, NEW t
    PROVE  Abstract!listOutcome(f, t) = listOutcome(f, t)
  BY SameOpened, SameWrite DEF Abstract!listOutcome, listOutcome

LEMMA SameRelease ==
    ASSUME NEW f, NEW t, NEW target, NEW s
    PROVE  Abstract!releaseOutcome(f, t, target, s) = releaseOutcome(f, t, target, s)
<1>1. ASSUME NEW g PROVE /\ Abstract!releaseClaims(g, target, s) = releaseClaims(g, target, s)
                         /\ Abstract!cancelWaiters(g, target, s) = cancelWaiters(g, target, s)
  BY SameTargets DEF Abstract!releaseClaims, releaseClaims, Abstract!cancelWaiters, cancelWaiters
<1> QED
  BY <1>1, SameOpened, SameRefresh, SameWrite DEF Abstract!releaseOutcome, releaseOutcome

LEMMA SameHeartbeat ==
    ASSUME NEW f, NEW t, NEW target, NEW s, NEW ttl
    PROVE  Abstract!heartbeatOutcome(f, t, target, s, ttl) = heartbeatOutcome(f, t, target, s, ttl)
<1>1. ASSUME NEW g
      PROVE  /\ Abstract!heartbeatClaims(g, target, s, t + ttl) = heartbeatClaims(g, target, s, t + ttl)
             /\ Abstract!heartbeatWaiters(g, target, s, t + ttl) = heartbeatWaiters(g, target, s, t + ttl)
             /\ Abstract!Reaches(g, target, s) = Reaches(g, target, s)
  BY SameTargets DEF Abstract!heartbeatClaims, heartbeatClaims, Abstract!heartbeatWaiters, heartbeatWaiters,
         Abstract!Reaches, Reaches
<1> QED
  BY <1>1, SameOpened, SameRefresh, SameWrite DEF Abstract!heartbeatOutcome, heartbeatOutcome

LEMMA SameWait ==
    ASSUME NEW f, NEW t, NEW s, NEW ask, NEW ttl
    PROVE  Abstract!waitOutcome(f, t, s, ask, ttl) = waitOutcome(f, t, s, ask, ttl)
  BY SameOpened, SameBlocking, SameWrite DEF Abstract!waitOutcome, waitOutcome,
         Abstract!refreshedWaiter, refreshedWaiter

LEMMA SameClaim ==
    ASSUME NEW f, NEW t, NEW s, NEW ask, NEW ttl, NEW force
    PROVE  Abstract!claimOutcome(f, t, s, ask, ttl, force) = claimOutcome(f, t, s, ask, ttl, force)
  BY SameOpened, SameBlocking, SameWrite DEF Abstract!claimOutcome, claimOutcome

-----------------------------------------------------------------------------
(* What a request comes to.                                                 *)

LEMMA RequestFields ==
    ASSUME NEW req \in Request
    PROVE  /\ req.action \in {"list", "release", "heartbeat", "wait", "claim"}
           /\ req.action = "release" => req.target \in AnyTarget
           /\ req.action = "heartbeat" => req.target \in AnyTarget /\ req.ttl \in TTL
           /\ req.action = "wait" => req.ask \in Ask /\ req.ttl \in TTL
           /\ req.action = "claim" => req.ask \in Ask /\ req.ttl \in TTL /\ req.force \in BOOLEAN
  BY DEF Request

LEMMA ResultCases ==
    ASSUME NEW f, NEW t, NEW s, NEW req
    PROVE  /\ req.action = "list" => Result(f, t, s, req) = listOutcome(f, t)
           /\ req.action = "release" => Result(f, t, s, req) = releaseOutcome(f, t, req.target, s)
           /\ req.action = "heartbeat" => Result(f, t, s, req) = heartbeatOutcome(f, t, req.target, s, req.ttl)
           /\ req.action = "wait" => Result(f, t, s, req) = waitOutcome(f, t, s, req.ask, req.ttl)
           /\ req.action = "claim" => Result(f, t, s, req) = claimOutcome(f, t, s, req.ask, req.ttl, req.force)
  BY DEF Result

\* What the file becomes: the claims that were in it, each aged and then released or
\* prolonged if the request reaches it, and the claim the request makes.
Fate(claim, i, t, s, req) ==
    CASE req.action = "release"   -> Freed(Aged(claim, t), i, req.target, s)
      [] req.action = "heartbeat" -> Prolonged(Aged(claim, t), i, req.target, s, t + req.ttl)
      [] OTHER                    -> Aged(claim, t)

ClaimsAfter(f, t, s, req) ==
    IF req.action = "claim" THEN WithClaim(f, t, Candidate(t, s, req.ask, req.ttl))
    ELSE [i \in DOMAIN f.claims |-> Fate(f.claims[i], i, t, s, req)]

Made(req) == IF req.action = "claim" THEN 1 ELSE 0
Queued(req) == IF req.action = "wait" THEN 1 ELSE 0

LEMMA ResultDraft ==
    ASSUME NEW f, IsClaimsFile(f), NEW t \in Nat, NEW s \in Session, NEW req \in Request
    PROVE  \E g : /\ Drafted(f, g, ClaimsAfter(f, t, s, req), Made(req), Queued(req))
                  /\ Result(f, t, s, req) \in {Leave(f), Throw(f), Write(g)}
<1>1. CASE req.action = "list"
  <2>1. ClaimsAfter(f, t, s, req) = [i \in DOMAIN f.claims |-> Aged(f.claims[i], t)]
    BY <1>1 DEF ClaimsAfter, Fate
  <2>2. Made(req) = 0 /\ Queued(req) = 0
    BY <1>1 DEF Made, Queued
  <2> QED
    BY <1>1, <2>1, <2>2, ListDraft, ResultCases
<1>2. CASE req.action = "release"
  <2>1. ClaimsAfter(f, t, s, req) = [i \in DOMAIN f.claims |-> Freed(Aged(f.claims[i], t), i, req.target, s)]
    BY <1>2 DEF ClaimsAfter, Fate
  <2>2. Made(req) = 0 /\ Queued(req) = 0
    BY <1>2 DEF Made, Queued
  <2> QED
    BY <1>2, <2>1, <2>2, ReleaseDraft, ResultCases
<1>3. CASE req.action = "heartbeat"
  <2>1. ClaimsAfter(f, t, s, req) =
            [i \in DOMAIN f.claims |-> Prolonged(Aged(f.claims[i], t), i, req.target, s, t + req.ttl)]
    BY <1>3 DEF ClaimsAfter, Fate
  <2>2. Made(req) = 0 /\ Queued(req) = 0 /\ req.ttl \in TTL
    BY <1>3, RequestFields DEF Made, Queued
  <2>3. \E g : /\ Drafted(f, g, ClaimsAfter(f, t, s, req), 0, 0)
               /\ heartbeatOutcome(f, t, req.target, s, req.ttl) \in {Leave(f), Write(g)}
    BY <2>1, <2>2, HeartbeatDraft
  <2> QED
    BY <1>3, <2>2, <2>3, ResultCases
<1>4. CASE req.action = "wait"
  <2>1. ClaimsAfter(f, t, s, req) = [i \in DOMAIN f.claims |-> Aged(f.claims[i], t)]
    BY <1>4 DEF ClaimsAfter, Fate
  <2>2. Made(req) = 0 /\ Queued(req) = 1 /\ req.ask \in Ask /\ req.ttl \in TTL
    BY <1>4, RequestFields DEF Made, Queued
  <2> QED
    BY <1>4, <2>1, <2>2, WaitDraft, ResultCases
<1>5. CASE req.action = "claim"
  <2>1. ClaimsAfter(f, t, s, req) = WithClaim(f, t, Candidate(t, s, req.ask, req.ttl))
    BY <1>5 DEF ClaimsAfter
  <2>2. Made(req) = 1 /\ Queued(req) = 0 /\ req.ask \in Ask /\ req.ttl \in TTL /\ req.force \in BOOLEAN
    BY <1>5, RequestFields DEF Made, Queued
  <2>3. \E g : /\ Drafted(f, g, ClaimsAfter(f, t, s, req), 1, 0)
               /\ claimOutcome(f, t, s, req.ask, req.ttl, req.force) \in {Throw(f), Write(g)}
    <3>1. PICK force \in BOOLEAN : force = req.force
      BY <2>2
    <3>2. \E g : /\ Drafted(f, g, WithClaim(f, t, Candidate(t, s, req.ask, req.ttl)), 1, 0)
                 /\ claimOutcome(f, t, s, req.ask, req.ttl, force) \in {Throw(f), Write(g)}
      BY <2>2, ClaimDraft, AskIsAnyAsk
    <3> QED
      BY <2>1, <3>1, <3>2
  <2> QED
    BY <1>5, <2>2, <2>3, ResultCases
<1> QED
  BY <1>1, <1>2, <1>3, <1>4, <1>5, RequestFields

\* A call that does not write leaves the file as it is.
LEMMA ResultKinds ==
    ASSUME NEW f, IsClaimsFile(f), NEW t \in Nat, NEW s \in Session, NEW req \in Request
    PROVE  /\ Result(f, t, s, req).kind \in {"write", "leave", "throw"}
           /\ Result(f, t, s, req).kind # "write" => Result(f, t, s, req).file = f
  BY ResultDraft DEF Write, Leave, Throw

LEMMA ResultWrites ==
    ASSUME NEW f, IsClaimsFile(f), NEW t \in Nat, NEW s \in Session, NEW req \in Request,
           Result(f, t, s, req).kind = "write"
    PROVE  /\ IsClaimsFile(Result(f, t, s, req).file)
           /\ Result(f, t, s, req).file.next_sequence = f.next_sequence + Made(req)
           /\ Result(f, t, s, req).file.next_wait_sequence = f.next_wait_sequence + Queued(req)
           /\ f.next_sequence + Made(req) <= Keep + 1
                => Result(f, t, s, req).file.claims = ClaimsAfter(f, t, s, req)
<1>1. PICK g : /\ Drafted(f, g, ClaimsAfter(f, t, s, req), Made(req), Queued(req))
               /\ Result(f, t, s, req) \in {Leave(f), Throw(f), Write(g)}
  BY ResultDraft
<1>2. Result(f, t, s, req).file = writeClaimsFile(g)
  BY <1>1 DEF Write, Leave, Throw
<1>3. /\ IsClaimsFile(g) /\ g.claims = ClaimsAfter(f, t, s, req)
      /\ g.next_sequence = f.next_sequence + Made(req)
      /\ g.next_wait_sequence = f.next_wait_sequence + Queued(req)
  BY <1>1 DEF Drafted
<1>4. /\ IsClaimsFile(writeClaimsFile(g))
      /\ writeClaimsFile(g).next_sequence = g.next_sequence
      /\ writeClaimsFile(g).next_wait_sequence = g.next_wait_sequence
  BY <1>3, WriteType, WriteCounters
<1>5. f.next_sequence + Made(req) <= Keep + 1 => writeClaimsFile(g).claims = g.claims
  BY <1>3, NothingCut
<1> QED
  BY <1>2, <1>3, <1>4, <1>5

\* A claim that is refused without force and goes through all the same was forced.
LEMMA ForceNeeded ==
    ASSUME NEW f, IsClaimsFile(f), NEW t \in Nat, NEW s \in Session, NEW req \in Request
    PROVE  /\ NeedsForce(f, t, s, req) \in BOOLEAN
           /\ req.action = "claim" => 
                /\ NeedsForce(f, t, s, req) /\ Result(f, t, s, req).kind = "write" => req.force
                /\ NeedsForce(f, t, s, req) /\ req.force => Result(f, t, s, req).kind = "write"
<1>1. NeedsForce(f, t, s, req) \in BOOLEAN
  BY DEF NeedsForce
<1>2. ASSUME req.action = "claim", NeedsForce(f, t, s, req)
      PROVE  Result(f, t, s, req).kind = "write" <=> req.force
  <2>1. PICK force \in BOOLEAN : force = req.force
    BY <1>2, RequestFields
  <2>2. req.ask \in Ask /\ req.ttl \in TTL
    BY <1>2, RequestFields
  <2>3. Result(f, t, s, req) = claimOutcome(f, t, s, req.ask, req.ttl, force)
    BY <1>2, <2>1, ResultCases
  <2>4. claimOutcome(f, t, s, req.ask, req.ttl, FALSE).kind = "throw"
    BY <1>2 DEF NeedsForce
  <2>5. PICK g : /\ Drafted(f, g, WithClaim(f, t, Candidate(t, s, req.ask, req.ttl)), 1, 0)
                 /\ claimOutcome(f, t, s, req.ask, req.ttl, force) \in {Throw(f), Write(g)}
                 /\ force => claimOutcome(f, t, s, req.ask, req.ttl, force) = Write(g)
    BY <2>2, ClaimDraft, AskIsAnyAsk
  <2>6. CASE force = TRUE
    BY <2>1, <2>3, <2>5, <2>6 DEF Write
  <2>7. CASE force = FALSE
    <3>1. claimOutcome(f, t, s, req.ask, req.ttl, force).kind = "throw"
      BY <2>4, <2>7
    <3>2. Result(f, t, s, req).kind # "write"
      BY <2>3, <3>1
    <3> QED
      BY <2>1, <2>7, <3>2
  <2> QED
    BY <2>6, <2>7
<1> QED
  BY <1>1, <1>2

\* Exclusion at the clock a call sampled becomes exclusion by status in what it writes.
LEMMA ResultExclusive ==
    ASSUME NEW f, IsClaimsFile(f), NEW t \in Nat, NEW s \in Session, NEW req \in Request, NEW past,
           ExclusiveAt(f, t, past),
           Result(f, t, s, req).kind = "write",
           NeedsForce(f, t, s, req) => f.next_sequence \in past
    PROVE  Result(f, t, s, req).file = f \/ Exclusive(Result(f, t, s, req).file, past)
<1>1. Exclusive(opened(f, t), past)
  BY OpenedExclusive
<1>2. ASSUME NEW g, g = f \/ Descends(opened(f, t), g)
      PROVE  g = f \/ Exclusive(g, past)
  BY <1>1, <1>2, DescendsExclusive
<1>3. CASE req.action = "list"
  BY <1>2, <1>3, ListOutcomeType, ResultCases
<1>4. CASE req.action = "release"
  BY <1>2, <1>4, ReleaseOutcomeType, ResultCases
<1>5. CASE req.action = "heartbeat"
  BY <1>2, <1>5, HeartbeatOutcomeType, ResultCases, RequestFields
<1>6. CASE req.action = "wait"
  BY <1>2, <1>6, WaitOutcomeType, ResultCases, RequestFields
<1>7. CASE req.action = "claim"
  <2>1. req.ask \in Ask /\ req.ttl \in TTL /\ req.force \in BOOLEAN
    BY <1>7, RequestFields
  <2>2. claimOutcome(f, t, s, req.ask, req.ttl, FALSE).kind = "throw" => f.next_sequence \in past
    BY <1>7 DEF NeedsForce
  <2>3. \/ claimOutcome(f, t, s, req.ask, req.ttl, req.force).file = f
        \/ Exclusive(claimOutcome(f, t, s, req.ask, req.ttl, req.force).file, past)
    BY <1>1, <2>1, <2>2, ClaimOutcomeType, AskIsAnyAsk
  <2> QED
    BY <1>7, <2>3, ResultCases
<1> QED
  BY <1>3, <1>4, <1>5, <1>6, <1>7, RequestFields

-----------------------------------------------------------------------------
(* The inductive invariant.                                                 *)

Writing(s) == pc[s] \in {"write", "writing"}

\* What a call works out from the file as it is, at clock t.
Computed(s, t) ==
    [file |-> Result(file, t, s, call[s]).file, at |-> t, id |-> file.next_sequence,
     forced |-> NeedsForce(file, t, s, call[s])]

\* The types, for any number of processes: a call that is going to write carries a
\* well-formed file, however old the one it read may be.
Shape ==
    /\ TypeOK
    /\ call \in [Session -> Call \cup {NoCall}]
    /\ outcome = [s \in Session |-> outcome[s]]
    /\ \A s \in Session : Writing(s) => IsClaimsFile(outcome[s].file)
    /\ calls \in [Session -> 0..MaxCalls]
    /\ \A s \in Session : pc[s] # "idle" => calls[s] # 0
    /\ crashes \in Nat

\* Whoever has made a call stands in the line of its process, and whoever has read the
\* file is at the head of it.
InLine ==
    \A s \in Session :
        /\ pc[s] # "idle" => \E i \in DOMAIN queue[ProcessOf[s]] : queue[ProcessOf[s]][i] = s
        /\ pc[s] \notin {"idle", "queued"} => Head(queue[ProcessOf[s]]) = s

\* The file is half written while somebody is between truncating and filling it, and
\* after one died there.
TornOnlyThen ==
    /\ \A s \in Session : pc[s] = "writing" => torn
    /\ torn => crashes > 0 \/ \E s \in Session : pc[s] = "writing"

\* What a call is going to write it worked out from the file as it still is, at a clock
\* no later call's effect has overtaken.
UpToDate ==
    \A s \in Session : Writing(s) =>
        \E t \in synced..now :
            outcome[s] = Computed(s, t) /\ Result(file, t, s, call[s]).kind = "write"

\* The calls whose effect the file can show: those made, but for the ones on their way.
Done ==
    {c \in Session \X (1..MaxCalls) :
        c[2] <= calls[c[1]] /\ (c[2] = calls[c[1]] => pc[c[1]] \notin {"queued", "write", "writing"})}

\* Every id handed out was handed out by a call of its own.
Counted ==
    /\ file.next_sequence <= Cardinality(Done) + 1
    /\ file.next_wait_sequence <= Cardinality(Done) + 1

\* Exclusion at `synced`, as in ArtifactClaims.
Excluded ==
    /\ \A i \in forced : i \in Nat /\ i < file.next_sequence
    /\ ExclusiveAt(file, synced, forced)

\* A claim somebody was told they hold, as it stands in the file.
Recorded(h) ==
    /\ h.id \in DOMAIN file.claims
    /\ file.claims[h.id].session = h.session
    /\ file.claims[h.id].mode = h.mode
    /\ file.claims[h.id].scopes = h.scopes
    /\ file.claims[h.id].expires = h.expires
    /\ file.claims[h.id].status = "active" \/ h.expires <= now

ToldTrue ==
    \A h \in told :
        /\ h = [id |-> h.id, session |-> h.session, mode |-> h.mode, scopes |-> h.scopes,
                expires |-> h.expires, forced |-> h.forced]
        /\ h.id \in Nat /\ h.id < file.next_sequence
        /\ h.id \in forced => h.forced
        /\ file.next_sequence <= Keep + 1 => Recorded(h)

-----------------------------------------------------------------------------
(* The four ways a read goes.                                               *)

Reads(s, kind) == ~torn /\ Result(file, now, s, call[s]).kind = kind

ReadTorn(s) ==
    /\ torn
    /\ pc' = [pc EXCEPT ![s] = "failed"]
    /\ UNCHANGED <<outcome, synced, told>>

ReadToWrite(s) ==
    /\ Reads(s, "write")
    /\ pc' = [pc EXCEPT ![s] = "write"]
    /\ outcome' = [outcome EXCEPT ![s] = Computed(s, now)]
    /\ UNCHANGED <<synced, told>>

ReadToReturn(s) ==
    /\ Reads(s, "leave")
    /\ pc' = [pc EXCEPT ![s] = "return"]
    /\ synced' = now
    /\ told' = Told(s, Computed(s, now))
    /\ UNCHANGED outcome

ReadToThrow(s) ==
    /\ Reads(s, "throw")
    /\ pc' = [pc EXCEPT ![s] = "failed"]
    /\ synced' = now
    /\ UNCHANGED <<outcome, told>>

LEMMA ShapeFacts ==
    ASSUME Shape
    PROVE  /\ IsClaimsFile(file) /\ now \in Nat /\ synced \in Nat /\ synced <= now
           /\ pc \in [Session -> {"idle", "queued", "write", "writing", "return", "failed"}]
           /\ \A s \in Session : pc[s] # "idle" => call[s] \in Request
  BY BoundsType, CallType DEF Shape, TypeOK

LEMMA ReadCases ==
    ASSUME Shape, NEW s \in Session, Read(s)
    PROVE  /\ HoldsFile(s)
           /\ UNCHANGED <<file, torn, now, queue, call, forced, calls, crashes>>
           /\ ReadTorn(s) \/ ReadToWrite(s) \/ ReadToReturn(s) \/ ReadToThrow(s)
<1>1. HoldsFile(s) /\ UNCHANGED <<file, torn, now, queue, call, forced, calls, crashes>>
  BY DEF Read
<1>2. IsClaimsFile(file) /\ now \in Nat /\ call[s] \in Request
  BY <1>1, ShapeFacts DEF HoldsFile
<1>3. Result(file, now, s, call[s]).kind \in {"write", "leave", "throw"}
  BY <1>2, ResultKinds
<1>4. CASE torn
  BY <1>1, <1>4 DEF Read, ReadTorn
<1>5. CASE ~torn /\ Result(file, now, s, call[s]).kind = "write"
  BY <1>1, <1>5 DEF Read, ReadToWrite, Reads, Computed
<1>6. CASE ~torn /\ Result(file, now, s, call[s]).kind = "leave"
  BY <1>1, <1>6 DEF Read, ReadToReturn, Reads, Computed
<1>7. CASE ~torn /\ Result(file, now, s, call[s]).kind = "throw"
  BY <1>1, <1>7 DEF Read, ReadToThrow, Reads, Computed
<1> QED
  BY <1>1, <1>3, <1>4, <1>5, <1>6, <1>7

-----------------------------------------------------------------------------
(* Shape.                                                                   *)

LEMMA InitShape == Init => Shape
<1> SUFFICES ASSUME Init PROVE Shape
  OBVIOUS
<1>1. IsClaimsFile(file) /\ torn \in BOOLEAN /\ now \in 0..MaxTime /\ synced \in 0..now
  <2>1. IsClaimsFile(file)
    BY EmptyFileType DEF Init
  <2>2. torn \in BOOLEAN
    BY DEF Init
  <2> QED
    BY <2>1, <2>2, BoundsType DEF Init
<1>2. queue \in [Process -> Seq(Session)]
  BY DEF Init
<1>3. /\ pc \in [Session -> {"idle", "queued", "write", "writing", "return", "failed"}]
      /\ call \in [Session -> Call \cup {NoCall}]
      /\ calls \in [Session -> 0..MaxCalls]
  BY BoundsType DEF Init
<1>4. \A s \in Session : pc[s] = "idle" /\ call[s] = NoCall /\ ~Writing(s)
  BY DEF Init, Writing
<1>5. outcome = [s \in Session |-> outcome[s]] /\ crashes \in Nat
  BY DEF Init
<1> QED
  BY <1>1, <1>2, <1>3, <1>4, <1>5 DEF Shape, TypeOK

LEMMA TickShape ==
    ASSUME Shape, Tick
    PROVE  Shape'
<1>1. now' \in 0..MaxTime /\ synced' \in 0..now'
  BY BoundsType DEF Tick, Shape, TypeOK
<1> QED
  BY <1>1 DEF Tick, Shape, TypeOK, Writing

LEMMA EnqueueShape ==
    ASSUME Shape, NEW s \in Session, Enqueue(s)
    PROVE  Shape'
<1>1. PICK req \in Call : call' = [call EXCEPT ![s] = req]
  BY DEF Enqueue
<1>2. /\ queue' \in [Process -> Seq(Session)]
      /\ pc' \in [Session -> {"idle", "queued", "write", "writing", "return", "failed"}]
      /\ call' \in [Session -> Call \cup {NoCall}]
      /\ calls' \in [Session -> 0..MaxCalls]
  <2>1. queue' \in [Process -> Seq(Session)]
    <3>1. Append(queue[ProcessOf[s]], s) \in Seq(Session)
      BY ProcessOfType DEF Shape, TypeOK
    <3> QED
      BY <3>1 DEF Enqueue, Shape, TypeOK
  <2>2. calls[s] + 1 \in 0..MaxCalls
    BY BoundsType DEF Enqueue, Shape
  <2>3. calls' \in [Session -> 0..MaxCalls]
    BY <2>2 DEF Enqueue, Shape
  <2> QED
    BY <1>1, <2>1, <2>3 DEF Enqueue, Shape, TypeOK
<1>3. ASSUME NEW x \in Session
      PROVE  /\ call'[x] \in Call \cup {NoCall}
             /\ call'[x] = NoCall <=> pc'[x] = "idle"
             /\ pc'[x] # "idle" => calls'[x] # 0
             /\ Writing(x)' => Writing(x)
  <2>1. CASE x = s
    BY <1>1, <1>2, <2>1, CallType, BoundsType DEF Enqueue, Shape, TypeOK, Writing
  <2>2. CASE x # s
    BY <1>1, <1>2, <2>2 DEF Enqueue, Shape, TypeOK, Writing
  <2> QED
    BY <2>1, <2>2
<1> QED
  BY <1>2, <1>3 DEF Enqueue, Shape, TypeOK

LEMMA ReadShape ==
    ASSUME Shape, NEW s \in Session, Read(s)
    PROVE  Shape'
<1>1. /\ HoldsFile(s)
      /\ UNCHANGED <<file, torn, now, queue, call, forced, calls, crashes>>
      /\ ReadTorn(s) \/ ReadToWrite(s) \/ ReadToReturn(s) \/ ReadToThrow(s)
  BY ReadCases
<1>2. IsClaimsFile(file) /\ now \in Nat /\ call[s] \in Request
  BY <1>1, ShapeFacts DEF HoldsFile
<1>3. PICK step \in {"write", "return", "failed"} : pc' = [pc EXCEPT ![s] = step]
  BY <1>1 DEF ReadTorn, ReadToWrite, ReadToReturn, ReadToThrow
<1>4. pc' \in [Session -> {"idle", "queued", "write", "writing", "return", "failed"}]
  BY <1>3 DEF Shape, TypeOK
<1>5. synced' \in 0..now'
  BY <1>1, <1>2 DEF ReadTorn, ReadToWrite, ReadToReturn, ReadToThrow, Shape, TypeOK
<1>6. outcome' = [x \in Session |-> outcome'[x]]
  BY <1>1 DEF ReadTorn, ReadToWrite, ReadToReturn, ReadToThrow, Shape
<1>7. ASSUME NEW x \in Session
      PROVE  /\ call'[x] = NoCall <=> pc'[x] = "idle"
             /\ pc'[x] # "idle" => calls'[x] # 0
  BY <1>1, <1>3, <1>4 DEF Shape, TypeOK, HoldsFile
<1>8. ASSUME NEW x \in Session, Writing(x)'
      PROVE  IsClaimsFile(outcome[x].file)'
  <2>1. CASE x # s
    <3>1. Writing(x) /\ outcome'[x] = outcome[x]
      BY <1>1, <1>3, <1>4, <1>8, <2>1
         DEF ReadTorn, ReadToWrite, ReadToReturn, ReadToThrow, Shape, TypeOK, Writing
    <3> QED
      BY <3>1 DEF Shape
  <2>2. CASE x = s
    <3>1. ReadToWrite(s)
      BY <1>1, <1>8, <2>2 DEF ReadTorn, ReadToReturn, ReadToThrow, Shape, TypeOK, Writing
    <3>2. outcome'[s].file = Result(file, now, s, call[s]).file
      BY <3>1 DEF ReadToWrite, Computed, Shape
    <3>3. Result(file, now, s, call[s]).kind = "write"
      BY <3>1 DEF ReadToWrite, Reads
    <3> QED
      BY <1>2, <2>2, <3>2, <3>3, ResultWrites
  <2> QED
    BY <2>1, <2>2
<1> QED
  BY <1>1, <1>4, <1>5, <1>6, <1>7, <1>8 DEF Shape, TypeOK

LEMMA TruncateShape ==
    ASSUME Shape, NEW s \in Session, Truncate(s)
    PROVE  Shape'
  BY DEF Truncate, Shape, TypeOK, Writing

LEMMA FillShape ==
    ASSUME Shape, NEW s \in Session, Fill(s)
    PROVE  Shape'
<1>1. IsClaimsFile(file')
  BY DEF Fill, Shape, Writing
<1>2. synced' \in 0..now'
  BY BoundsType DEF Fill, Shape, TypeOK
<1>3. torn' \in BOOLEAN
  <2>1. CASE torn
    BY <2>1 DEF Fill
  <2>2. CASE ~torn
    BY <2>2 DEF Fill
  <2> QED
    BY <2>1, <2>2
<1> QED
  BY <1>1, <1>2, <1>3 DEF Fill, Shape, TypeOK, Writing

LEMMA ReturnShape ==
    ASSUME Shape, InLine, NEW s \in Session, Return(s)
    PROVE  Shape'
<1>1. queue' \in [Process -> Seq(Session)]
  <2>1. ProcessOf[s] \in Process /\ queue[ProcessOf[s]] \in Seq(Session)
    BY ProcessOfType DEF Shape, TypeOK
  <2>2. queue[ProcessOf[s]] # <<>>
    BY DEF Return, InLine
  <2>3. Tail(queue[ProcessOf[s]]) \in Seq(Session)
    BY <2>1, <2>2
  <2> QED
    BY <2>1, <2>3 DEF Return, Shape, TypeOK
<1>2. /\ pc' \in [Session -> {"idle", "queued", "write", "writing", "return", "failed"}]
      /\ call' \in [Session -> Call \cup {NoCall}]
      /\ outcome' = [x \in Session |-> outcome'[x]]
  BY DEF Return, Shape, TypeOK
<1>3. ASSUME NEW x \in Session
      PROVE  /\ call'[x] \in Call \cup {NoCall}
             /\ call'[x] = NoCall <=> pc'[x] = "idle"
             /\ pc'[x] # "idle" => calls'[x] # 0
             /\ Writing(x)' => Writing(x) /\ outcome'[x] = outcome[x]
  BY <1>2 DEF Return, Shape, TypeOK, Writing
<1> QED
  BY <1>1, <1>2, <1>3 DEF Return, Shape, TypeOK

LEMMA CrashShape ==
    ASSUME Shape, NEW p \in Process, Crash(p)
    PROVE  Shape'
<1>1. /\ queue' \in [Process -> Seq(Session)]
      /\ pc' \in [Session -> {"idle", "queued", "write", "writing", "return", "failed"}]
      /\ call' \in [Session -> Call \cup {NoCall}]
      /\ outcome' = [x \in Session |-> outcome'[x]]
  BY DEF Crash, Shape, TypeOK
<1>2. ASSUME NEW x \in Session
      PROVE  /\ call'[x] \in Call \cup {NoCall}
             /\ call'[x] = NoCall <=> pc'[x] = "idle"
             /\ pc'[x] # "idle" => calls'[x] # 0
             /\ Writing(x)' => Writing(x) /\ outcome'[x] = outcome[x]
  BY <1>1 DEF Crash, Shape, TypeOK, Writing
<1> QED
  BY <1>1, <1>2 DEF Crash, Shape, TypeOK

-----------------------------------------------------------------------------
(* The line.                                                                *)

\* Only the head of the line has read the file.
LEMMA AtHead ==
    ASSUME InLine, NEW s \in Session, NEW t \in Session, ProcessOf[s] = ProcessOf[t],
           pc[s] \notin {"idle", "queued"},
           pc[t] \notin {"idle", "queued"} \/ HoldsFile(t)
    PROVE  s = t
  BY DEF InLine, HoldsFile

\* A step that only moves the head of a line on.
LEMMA MovesOn ==
    ASSUME Shape, InLine, NEW s \in Session, NEW step,
           pc[s] # "idle", Head(queue[ProcessOf[s]]) = s,
           UNCHANGED queue, pc' = [pc EXCEPT ![s] = step]
    PROVE  InLine'
<1>1. \A x \in Session : x # s => pc'[x] = pc[x]
  BY DEF Shape, TypeOK
<1> QED
  BY <1>1 DEF InLine

LEMMA ReadInLine ==
    ASSUME Shape, InLine, NEW s \in Session, Read(s)
    PROVE  InLine'
<1>1. /\ HoldsFile(s) /\ UNCHANGED queue
      /\ ReadTorn(s) \/ ReadToWrite(s) \/ ReadToReturn(s) \/ ReadToThrow(s)
  BY ReadCases
<1>2. PICK step \in {"write", "return", "failed"} : pc' = [pc EXCEPT ![s] = step]
  BY <1>1 DEF ReadTorn, ReadToWrite, ReadToReturn, ReadToThrow
<1> QED
  BY <1>1, <1>2, MovesOn DEF HoldsFile

LEMMA TruncateInLine ==
    ASSUME Shape, InLine, NEW s \in Session, Truncate(s)
    PROVE  InLine'
<1>1. pc[s] # "idle" /\ Head(queue[ProcessOf[s]]) = s
  BY DEF Truncate, InLine
<1> QED
  BY <1>1, MovesOn DEF Truncate

LEMMA FillInLine ==
    ASSUME Shape, InLine, NEW s \in Session, Fill(s)
    PROVE  InLine'
<1>1. pc[s] # "idle" /\ Head(queue[ProcessOf[s]]) = s
  BY DEF Fill, InLine
<1> QED
  BY <1>1, MovesOn DEF Fill

LEMMA EnqueueInLine ==
    ASSUME Shape, InLine, NEW s \in Session, Enqueue(s)
    PROVE  InLine'
<1> SUFFICES ASSUME NEW x \in Session
             PROVE  /\ pc'[x] # "idle" => \E i \in DOMAIN queue'[ProcessOf[x]] : queue'[ProcessOf[x]][i] = x
                    /\ pc'[x] \notin {"idle", "queued"} => Head(queue'[ProcessOf[x]]) = x
  BY DEF InLine
<1> DEFINE old == queue[ProcessOf[x]]
           new == queue'[ProcessOf[x]]
<1>1. /\ old \in Seq(Session)
      /\ new = IF ProcessOf[x] = ProcessOf[s] THEN Append(old, s) ELSE old
      /\ pc'[x] = IF x = s THEN "queued" ELSE pc[x]
  BY ProcessOfType DEF Enqueue, Shape, TypeOK
<1>2. (pc[x] # "idle" => \E i \in DOMAIN old : old[i] = x) /\ (pc[x] \notin {"idle", "queued"} => Head(old) = x)
  BY DEF InLine
<1> HIDE DEF old, new
<1>3. /\ \A i \in DOMAIN old : i \in DOMAIN new /\ new[i] = old[i]
      /\ old # <<>> => Head(new) = Head(old)
      /\ x = s => \E i \in DOMAIN new : new[i] = x
  <2>1. CASE new = old
    BY <1>1, <2>1
  <2>2. CASE new = Append(old, s)
    <3>1. /\ Len(new) = Len(old) + 1 /\ Len(old) \in Nat
          /\ DOMAIN new = 1..(Len(old) + 1) /\ DOMAIN old = 1..Len(old)
          /\ \A i \in 1..Len(old) : new[i] = old[i]
          /\ new[Len(old) + 1] = s
      BY <1>1, <2>2
    <3>2. old # <<>> => Head(new) = Head(old)
      BY <1>1, <2>2
    <3> QED
      BY <3>1, <3>2
  <2>3. new = old \/ new = Append(old, s)
    BY <1>1
  <2>4. x = s => new = Append(old, s)
    BY <1>1
  <2> QED
    BY <1>1, <2>1, <2>2, <2>3, <2>4
<1>4. (\E i \in DOMAIN old : old[i] = x) => old # <<>>
  BY <1>1
<1> QED
  BY <1>1, <1>2, <1>3, <1>4 DEF new

LEMMA ReturnInLine ==
    ASSUME Shape, InLine, NEW s \in Session, Return(s)
    PROVE  InLine'
<1> SUFFICES ASSUME NEW x \in Session
             PROVE  /\ pc'[x] # "idle" => \E i \in DOMAIN queue'[ProcessOf[x]] : queue'[ProcessOf[x]][i] = x
                    /\ pc'[x] \notin {"idle", "queued"} => Head(queue'[ProcessOf[x]]) = x
  BY DEF InLine
<1> DEFINE old == queue[ProcessOf[x]]
           new == queue'[ProcessOf[x]]
<1>1. /\ old \in Seq(Session)
      /\ new = IF ProcessOf[x] = ProcessOf[s] THEN Tail(old) ELSE old
      /\ pc'[x] = IF x = s THEN "idle" ELSE pc[x]
  BY ProcessOfType DEF Return, Shape, TypeOK
<1>2. (pc[x] # "idle" => \E i \in DOMAIN old : old[i] = x) /\ (pc[x] \notin {"idle", "queued"} => Head(old) = x)
  BY DEF InLine
<1>3. ProcessOf[x] = ProcessOf[s] => Head(old) = s
  BY DEF Return, InLine
<1> HIDE DEF old, new
<1>4. CASE ProcessOf[x] = ProcessOf[s] /\ x # s /\ pc[x] # "idle"
  <2>1. pc[x] = "queued"
    BY <1>2, <1>3, <1>4, <1>1 DEF Shape, TypeOK
  <2>2. PICK i \in DOMAIN old : old[i] = x
    BY <1>2, <1>4
  <2>3. i \in 1..Len(old) /\ i # 1 /\ Len(old) \in Nat
    BY <1>1, <1>3, <1>4, <2>2
  <2>4. i - 1 \in DOMAIN Tail(old) /\ Tail(old)[i - 1] = old[i]
    <3>1. old # <<>> /\ Len(Tail(old)) = Len(old) - 1 /\ DOMAIN Tail(old) = 1..(Len(old) - 1)
      BY <1>1, <2>3
    <3>2. i - 1 \in 1..(Len(old) - 1)
      BY <2>3
    <3> QED
      BY <1>1, <2>3, <3>1, <3>2
  <2> QED
    BY <1>1, <1>4, <2>1, <2>2, <2>4 DEF new
<1>5. CASE ProcessOf[x] # ProcessOf[s]
  BY <1>1, <1>2, <1>5 DEF new
<1>6. CASE x = s \/ pc[x] = "idle"
  BY <1>1, <1>6
<1> QED
  BY <1>4, <1>5, <1>6

LEMMA CrashInLine ==
    ASSUME Shape, InLine, NEW p \in Process, Crash(p)
    PROVE  InLine'
  BY ProcessOfType DEF InLine, Crash, Shape, TypeOK

LEMMA NextCases ==
    ASSUME Next
    PROVE  \/ Tick
           \/ \E s \in Session : Enqueue(s) \/ Read(s) \/ Truncate(s) \/ Fill(s) \/ Return(s)
           \/ \E p \in Process : Crash(p)
  BY DEF Next, Step

LEMMA InitLine == Init => Shape /\ InLine
<1>1. Init => InLine
  BY DEF Init, InLine
<1> QED
  BY <1>1, InitShape

LEMMA NextLine == Shape /\ InLine /\ [Next]_vars => (Shape /\ InLine)'
<1> SUFFICES ASSUME Shape, InLine, [Next]_vars PROVE (Shape /\ InLine)'
  OBVIOUS
<1>1. CASE Tick
  <2>1. InLine'
    BY <1>1 DEF Tick, InLine
  <2> QED
    BY <1>1, <2>1, TickShape
<1>2. ASSUME NEW s \in Session, Enqueue(s) PROVE (Shape /\ InLine)'
  BY <1>2, EnqueueShape, EnqueueInLine
<1>3. ASSUME NEW s \in Session, Read(s) PROVE (Shape /\ InLine)'
  BY <1>3, ReadShape, ReadInLine
<1>4. ASSUME NEW s \in Session, Truncate(s) PROVE (Shape /\ InLine)'
  BY <1>4, TruncateShape, TruncateInLine
<1>5. ASSUME NEW s \in Session, Fill(s) PROVE (Shape /\ InLine)'
  BY <1>5, FillShape, FillInLine
<1>6. ASSUME NEW s \in Session, Return(s) PROVE (Shape /\ InLine)'
  BY <1>6, ReturnShape, ReturnInLine
<1>7. ASSUME NEW p \in Process, Crash(p) PROVE (Shape /\ InLine)'
  BY <1>7, CrashShape, CrashInLine
<1>8. CASE UNCHANGED vars
  BY <1>8 DEF vars, Shape, TypeOK, Writing, InLine
<1> QED
  BY <1>1, <1>2, <1>3, <1>4, <1>5, <1>6, <1>7, <1>8, NextCases

LEMMA LineHolds == Spec => [](Shape /\ InLine)
  BY InitLine, NextLine, PTL DEF Spec

\* In any number of processes, with any interleaving of their reads and writes and any
\* crashes, the queue file's last whole content is well formed: two writers that overwrite
\* one another lose records but never mix them.
THEOREM TypeCorrect == Spec => []TypeOK
<1>1. Shape => TypeOK
  BY DEF Shape
<1> QED
  BY <1>1, LineHolds, PTL

-----------------------------------------------------------------------------
(* One queue: torn files, and calls that write what they read.              *)

LEMMA NextTorn ==
    OneQueue /\ Shape /\ InLine /\ TornOnlyThen /\ [Next]_vars => TornOnlyThen'
<1> SUFFICES ASSUME OneQueue, Shape, InLine, TornOnlyThen, [Next]_vars PROVE TornOnlyThen'
  OBVIOUS
<1>1. CASE Tick
  BY <1>1 DEF Tick, TornOnlyThen
<1>2. ASSUME NEW s \in Session, Enqueue(s) PROVE TornOnlyThen'
  <2>1. \A x \in Session : pc'[x] = "writing" <=> pc[x] = "writing"
    BY <1>2 DEF Enqueue, Shape, TypeOK
  <2> QED
    BY <1>2, <2>1 DEF Enqueue, TornOnlyThen
<1>3. ASSUME NEW s \in Session, Read(s) PROVE TornOnlyThen'
  <2>1. /\ HoldsFile(s) /\ UNCHANGED <<torn, crashes>>
        /\ ReadTorn(s) \/ ReadToWrite(s) \/ ReadToReturn(s) \/ ReadToThrow(s)
    BY <1>3, ReadCases
  <2>2. \A x \in Session : pc'[x] = "writing" <=> pc[x] = "writing"
    BY <2>1 DEF ReadTorn, ReadToWrite, ReadToReturn, ReadToThrow, HoldsFile, Shape, TypeOK
  <2> QED
    BY <2>1, <2>2 DEF TornOnlyThen
<1>4. ASSUME NEW s \in Session, Truncate(s) PROVE TornOnlyThen'
  BY <1>4 DEF Truncate, TornOnlyThen, Shape, TypeOK
<1>5. ASSUME NEW s \in Session, Fill(s) PROVE TornOnlyThen'
  <2>1. \A x \in Session : pc[x] = "writing" => x = s
    BY <1>5, AtHead DEF Fill, OneQueue
  <2>2. \A x \in Session : pc'[x] # "writing"
    BY <1>5, <2>1 DEF Fill, Shape, TypeOK
  <2>3. torn
    BY <1>5 DEF Fill, TornOnlyThen
  <2>4. torn' = FALSE
    BY <1>5, <2>3 DEF Fill
  <2> QED
    BY <2>2, <2>4 DEF TornOnlyThen
<1>6. ASSUME NEW s \in Session, Return(s) PROVE TornOnlyThen'
  <2>1. \A x \in Session : pc'[x] = "writing" <=> pc[x] = "writing"
    BY <1>6 DEF Return, Shape, TypeOK
  <2> QED
    BY <1>6, <2>1 DEF Return, TornOnlyThen
<1>7. ASSUME NEW p \in Process, Crash(p) PROVE TornOnlyThen'
  <2>1. crashes' > 0 /\ torn' = torn
    BY <1>7 DEF Crash, Shape
  <2>2. \A x \in Session : pc'[x] = "writing" => pc[x] = "writing"
    BY <1>7 DEF Crash
  <2> QED
    BY <2>1, <2>2 DEF TornOnlyThen
<1>8. CASE UNCHANGED vars
  BY <1>8 DEF vars, TornOnlyThen
<1> QED
  BY <1>1, <1>2, <1>3, <1>4, <1>5, <1>6, <1>7, <1>8, NextCases

\* A step that leaves the file and the calls on their way to write to it.
LEMMA StillUpToDate ==
    ASSUME Shape, UpToDate, UNCHANGED <<file, synced>>, now' \in Nat, now <= now',
           \A x \in Session : Writing(x)' => /\ Writing(x)
                                             /\ outcome'[x] = outcome[x]
                                             /\ call'[x] = call[x]
    PROVE  UpToDate'
<1> SUFFICES ASSUME NEW x \in Session, Writing(x)'
             PROVE  \E t \in synced'..now' :
                        outcome'[x] = Computed(x, t)' /\ Result(file', t, x, call'[x]).kind = "write"
  BY DEF UpToDate
<1>1. Writing(x) /\ outcome'[x] = outcome[x] /\ call'[x] = call[x]
  OBVIOUS
<1>2. PICK t \in synced..now : outcome[x] = Computed(x, t) /\ Result(file, t, x, call[x]).kind = "write"
  BY <1>1 DEF UpToDate
<1>3. t \in synced'..now'
  BY <1>2, ShapeFacts
<1>4. Computed(x, t)' = Computed(x, t)
  BY <1>1 DEF Computed
<1> QED
  BY <1>1, <1>2, <1>3, <1>4

LEMMA NextUpToDate ==
    OneQueue /\ Shape /\ InLine /\ UpToDate /\ [Next]_vars => UpToDate'
<1> SUFFICES ASSUME OneQueue, Shape, InLine, UpToDate, [Next]_vars PROVE UpToDate'
  OBVIOUS
<1>0. now \in Nat
  BY ShapeFacts
<1>1. CASE Tick
  <2>1. now' \in Nat /\ now <= now' /\ UNCHANGED <<file, synced>>
    BY <1>0, <1>1 DEF Tick
  <2>2. \A x \in Session : Writing(x)' => Writing(x) /\ outcome'[x] = outcome[x] /\ call'[x] = call[x]
    BY <1>1 DEF Tick, Writing
  <2> QED
    BY <2>1, <2>2, StillUpToDate
<1>2. ASSUME NEW s \in Session, Enqueue(s) PROVE UpToDate'
  <2>1. now' \in Nat /\ now <= now' /\ UNCHANGED <<file, synced>>
    BY <1>0, <1>2 DEF Enqueue
  <2>2. \A x \in Session : Writing(x)' => Writing(x) /\ outcome'[x] = outcome[x] /\ call'[x] = call[x]
    BY <1>2 DEF Enqueue, Writing, Shape, TypeOK
  <2> QED
    BY <2>1, <2>2, StillUpToDate
<1>3. ASSUME NEW s \in Session, Read(s) PROVE UpToDate'
  <2>1. /\ HoldsFile(s) /\ UNCHANGED <<file, now, call>>
        /\ ReadTorn(s) \/ ReadToWrite(s) \/ ReadToReturn(s) \/ ReadToThrow(s)
    BY <1>3, ReadCases
  <2>2. \A x \in Session : Writing(x)' => x = s /\ ReadToWrite(s)
    <3> SUFFICES ASSUME NEW x \in Session, Writing(x)' PROVE x = s /\ ReadToWrite(s)
      OBVIOUS
    <3>1. CASE x # s
      <4>1. Writing(x)
        BY <2>1, <3>1 DEF ReadTorn, ReadToWrite, ReadToReturn, ReadToThrow, Writing, Shape, TypeOK
      <4>2. x = s
        BY <2>1, <4>1, AtHead DEF OneQueue, Writing
      <4> QED
        BY <3>1, <4>2
    <3>2. CASE x = s
      BY <2>1, <3>2 DEF ReadTorn, ReadToReturn, ReadToThrow, Writing, Shape, TypeOK
    <3> QED
      BY <3>1, <3>2
  <2>3. ASSUME ReadToWrite(s)
        PROVE  /\ now' \in synced'..now' /\ outcome'[s] = Computed(s, now)
               /\ Result(file, now, s, call[s]).kind = "write"
    <3>1. outcome'[s] = Computed(s, now)
      BY <2>3 DEF ReadToWrite, Shape
    <3>2. synced' = synced /\ now' = now /\ synced \in 0..now
      BY <2>1, <2>3 DEF ReadToWrite, Shape, TypeOK
    <3> QED
      BY <1>0, <2>3, <3>1, <3>2 DEF ReadToWrite, Reads
  <2>4. Computed(s, now)' = Computed(s, now)
    BY <2>1 DEF Computed
  <2> QED
    BY <2>1, <2>2, <2>3, <2>4 DEF UpToDate
<1>4. ASSUME NEW s \in Session, Truncate(s) PROVE UpToDate'
  <2>1. now' \in Nat /\ now <= now' /\ UNCHANGED <<file, synced>>
    BY <1>0, <1>4 DEF Truncate
  <2>2. \A x \in Session : Writing(x)' => Writing(x) /\ outcome'[x] = outcome[x] /\ call'[x] = call[x]
    BY <1>4 DEF Truncate, Writing, Shape, TypeOK
  <2> QED
    BY <2>1, <2>2, StillUpToDate
<1>5. ASSUME NEW s \in Session, Fill(s) PROVE UpToDate'
  <2>1. \A x \in Session : Writing(x) => x = s
    BY <1>5, AtHead DEF Fill, OneQueue, Writing
  <2>2. \A x \in Session : ~Writing(x)'
    BY <1>5, <2>1 DEF Fill, Shape, TypeOK, Writing
  <2> QED
    BY <2>2 DEF UpToDate
<1>6. ASSUME NEW s \in Session, Return(s) PROVE UpToDate'
  <2>1. now' \in Nat /\ now <= now' /\ UNCHANGED <<file, synced>>
    BY <1>0, <1>6 DEF Return
  <2>2. \A x \in Session : Writing(x)' => Writing(x) /\ outcome'[x] = outcome[x] /\ call'[x] = call[x]
    BY <1>6 DEF Return, Writing, Shape, TypeOK
  <2> QED
    BY <2>1, <2>2, StillUpToDate
<1>7. ASSUME NEW p \in Process, Crash(p) PROVE UpToDate'
  <2>1. now' \in Nat /\ now <= now' /\ UNCHANGED <<file, synced>>
    BY <1>0, <1>7 DEF Crash
  <2>2. \A x \in Session : Writing(x)' => Writing(x) /\ outcome'[x] = outcome[x] /\ call'[x] = call[x]
    BY <1>7 DEF Crash, Writing, Shape, TypeOK
  <2> QED
    BY <2>1, <2>2, StillUpToDate
<1>8. CASE UNCHANGED vars
  BY <1>8, <1>0, StillUpToDate DEF vars, Writing
<1> QED
  BY <1>1, <1>2, <1>3, <1>4, <1>5, <1>6, <1>7, <1>8, NextCases

-----------------------------------------------------------------------------
(* Every id has its call.                                                   *)

Places == Session \X (1..MaxCalls)

LEMMA DoneFinite ==
    /\ IsFiniteSet(Done) /\ Cardinality(Done) \in Nat
    /\ Done \subseteq Places
    /\ IsFiniteSet(Places) /\ Cardinality(Places) = MaxCalls * Cardinality(Session)
<1>1. MaxCalls \in Nat /\ MaxCalls \in Int
  BY BoundsType
<1>2. IsFiniteSet(1..MaxCalls) /\ Cardinality(1..MaxCalls) = MaxCalls
  <2>1. Cardinality(1..MaxCalls) = IF 1 > MaxCalls THEN 0 ELSE MaxCalls - 1 + 1
    BY <1>1, FS_Interval
  <2> QED
    BY <1>1, <2>1, FS_Interval
<1>3. Cardinality(Session) \in Nat
  BY SessionsFinite, FS_CardinalityType
<1>4. IsFiniteSet(Places) /\ Cardinality(Places) = Cardinality(Session) * MaxCalls
  BY <1>2, SessionsFinite, FS_Product DEF Places
<1>5. Done \subseteq Places
  BY DEF Done, Places
<1>6. IsFiniteSet(Done)
  BY <1>4, <1>5, FS_Subset
<1>7. Cardinality(Done) \in Nat
  BY <1>6, FS_CardinalityType
<1>8. Cardinality(Session) * MaxCalls = MaxCalls * Cardinality(Session)
  BY <1>1, <1>3
<1> QED
  BY <1>4, <1>5, <1>6, <1>7, <1>8

LEMMA DoneStaysFinite == (IsFiniteSet(Done) /\ Cardinality(Done) \in Nat)'
  BY DoneFinite, PTL

\* A call on its way has a place that is not done yet.
LEMMA PlaceLeft ==
    ASSUME Shape, NEW s \in Session, pc[s] \in {"queued", "write", "writing"}
    PROVE  /\ <<s, calls[s]>> \in Places /\ <<s, calls[s]>> \notin Done
           /\ Cardinality(Done) < MaxCalls * Cardinality(Session)
<1>1. calls[s] \in 1..MaxCalls
  BY BoundsType DEF Shape
<1>2. <<s, calls[s]>> \in Places /\ <<s, calls[s]>> \notin Done
  BY <1>1 DEF Places, Done
<1>3. Done # Places /\ Done \in SUBSET Places
  BY <1>2, DoneFinite
<1>4. Cardinality(Done) <= Cardinality(Places) /\ Cardinality(Done) # Cardinality(Places)
  BY <1>3, DoneFinite, FS_Subset
<1>5. Cardinality(Done) \in Nat /\ Cardinality(Places) \in Nat
  BY DoneFinite, FS_CardinalityType
<1> QED
  BY <1>2, <1>4, <1>5, DoneFinite

\* A step that hands out no id and takes no call back.
LEMMA StillCounted ==
    ASSUME Shape, Counted, file' = file, Done \subseteq Done'
    PROVE  Counted'
<1>1. IsFiniteSet(Done') /\ Cardinality(Done') \in Nat /\ Cardinality(Done) \in Nat
  BY DoneFinite, DoneStaysFinite
<1>2. Cardinality(Done) <= Cardinality(Done')
  BY <1>1, FS_Subset
<1>3. file.next_sequence \in Nat /\ file.next_wait_sequence \in Nat
  BY ShapeFacts DEF IsClaimsFile
<1> QED
  BY <1>1, <1>2, <1>3 DEF Counted

\* A step that keeps the numbers of calls and puts none on its way keeps what is done.
LEMMA DoneStays ==
    ASSUME calls' = calls,
           \A x \in Session : pc'[x] \in {"queued", "write", "writing"} => pc[x] \in {"queued", "write", "writing"}
    PROVE  Done \subseteq Done'
  BY DEF Done

\* A fill has worked the new content out from the file as it is.
LEMMA FillWrites ==
    ASSUME Shape, UpToDate, NEW s \in Session, Fill(s)
    PROVE  \E t \in synced..now :
              /\ t \in Nat /\ call[s] \in Request
              /\ outcome[s] = Computed(s, t)
              /\ Result(file, t, s, call[s]).kind = "write"
              /\ file' = Result(file, t, s, call[s]).file
              /\ forced' = IF NeedsForce(file, t, s, call[s])
                           THEN forced \cup {file.next_sequence} ELSE forced
              /\ told' = Told(s, Computed(s, t))
              /\ file'.next_sequence = file.next_sequence + Made(call[s])
              /\ file'.next_wait_sequence = file.next_wait_sequence + Queued(call[s])
<1>1. Writing(s) /\ pc[s] = "writing"
  BY DEF Fill, Writing
<1>2. PICK t \in synced..now : outcome[s] = Computed(s, t) /\ Result(file, t, s, call[s]).kind = "write"
  BY <1>1 DEF UpToDate
<1>3. t \in Nat /\ call[s] \in Request /\ IsClaimsFile(file)
  BY <1>1, <1>2, ShapeFacts
<1>4. /\ Result(file, t, s, call[s]).file.next_sequence = file.next_sequence + Made(call[s])
      /\ Result(file, t, s, call[s]).file.next_wait_sequence = file.next_wait_sequence + Queued(call[s])
  BY <1>2, <1>3, ResultWrites
<1>5. /\ outcome[s].file = Result(file, t, s, call[s]).file
      /\ outcome[s].id = file.next_sequence
      /\ outcome[s].forced = NeedsForce(file, t, s, call[s])
  BY <1>2 DEF Computed
<1> QED
  BY <1>2, <1>3, <1>4, <1>5 DEF Fill

LEMMA NextCounted ==
    Shape /\ UpToDate /\ Counted /\ [Next]_vars => Counted'
<1> SUFFICES ASSUME Shape, UpToDate, Counted, [Next]_vars PROVE Counted'
  OBVIOUS
<1>1. CASE Tick
  BY <1>1, DoneStays, StillCounted DEF Tick
<1>2. ASSUME NEW s \in Session, Enqueue(s) PROVE Counted'
  <2>1. Done \subseteq Done'
    <3> SUFFICES ASSUME NEW c \in Done PROVE c \in Done'
      OBVIOUS
    <3>1. c \in Session \X (1..MaxCalls) /\ c[1] \in Session /\ c[2] \in Nat /\ c[2] <= calls[c[1]]
      BY BoundsType DEF Done
    <3>2. CASE c[1] = s
      <4>1. calls'[s] = calls[s] + 1 /\ calls[s] \in Nat
        BY <1>2, BoundsType DEF Enqueue, Shape
      <4>2. c[2] <= calls'[c[1]] /\ c[2] # calls'[c[1]]
        BY <3>1, <3>2, <4>1
      <4> QED
        BY <3>1, <4>2 DEF Done
    <3>3. CASE c[1] # s
      <4>1. calls'[c[1]] = calls[c[1]] /\ pc'[c[1]] = pc[c[1]]
        BY <1>2, <3>1, <3>3 DEF Enqueue, Shape, TypeOK
      <4> QED
        BY <3>1, <4>1 DEF Done
    <3> QED
      BY <3>2, <3>3
  <2> QED
    BY <1>2, <2>1, StillCounted DEF Enqueue
<1>3. ASSUME NEW s \in Session, Read(s) PROVE Counted'
  <2>1. /\ HoldsFile(s) /\ UNCHANGED <<file, calls>>
        /\ ReadTorn(s) \/ ReadToWrite(s) \/ ReadToReturn(s) \/ ReadToThrow(s)
    BY <1>3, ReadCases
  <2>2. \A x \in Session : x # s => pc'[x] = pc[x]
    BY <2>1 DEF ReadTorn, ReadToWrite, ReadToReturn, ReadToThrow, Shape, TypeOK
  <2>3. Done \subseteq Done'
    BY <2>1, <2>2, DoneStays DEF HoldsFile
  <2> QED
    BY <2>1, <2>3, StillCounted
<1>4. ASSUME NEW s \in Session, Truncate(s) PROVE Counted'
  <2>1. Done \subseteq Done'
    BY <1>4, DoneStays DEF Truncate, Shape, TypeOK
  <2> QED
    BY <1>4, <2>1, StillCounted DEF Truncate
<1>5. ASSUME NEW s \in Session, Fill(s) PROVE Counted'
  <2>1. PICK t \in synced..now :
            /\ file'.next_sequence = file.next_sequence + Made(call[s])
            /\ file'.next_wait_sequence = file.next_wait_sequence + Queued(call[s])
    BY <1>5, FillWrites
  <2>2. Made(call[s]) \in {0, 1} /\ Queued(call[s]) \in {0, 1}
    BY DEF Made, Queued
  <2>3. <<s, calls[s]>> \in Places /\ <<s, calls[s]>> \notin Done
    BY <1>5, PlaceLeft DEF Fill
  <2>4. Done \cup {<<s, calls[s]>>} \subseteq Done'
    <3>1. Done \subseteq Done'
      BY <1>5, DoneStays DEF Fill, Shape, TypeOK
    <3>2. calls'[s] = calls[s] /\ pc'[s] = "return" /\ calls[s] \in Nat
      BY <1>5, BoundsType DEF Fill, Shape, TypeOK
    <3>3. <<s, calls[s]>> \in Done'
      BY <2>3, <3>2 DEF Done, Places
    <3> QED
      BY <3>1, <3>3
  <2>5. Cardinality(Done) + 1 <= Cardinality(Done')
    <3>1. IsFiniteSet(Done) /\ Cardinality(Done) \in Nat
      BY DoneFinite
    <3>2. IsFiniteSet(Done') /\ Cardinality(Done)' \in Nat
      BY DoneStaysFinite
    <3>3. Cardinality(Done \cup {<<s, calls[s]>>}) = Cardinality(Done) + 1
      BY <2>3, <3>1, FS_AddElement
    <3>4. Cardinality(Done \cup {<<s, calls[s]>>}) <= Cardinality(Done')
      BY <2>4, <3>2, FS_Subset
    <3> QED
      BY <3>3, <3>4
  <2>6. /\ file.next_sequence \in Nat /\ file.next_wait_sequence \in Nat
        /\ Cardinality(Done) \in Nat /\ Cardinality(Done)' \in Nat
    BY ShapeFacts, DoneFinite, DoneStaysFinite DEF IsClaimsFile
  <2>7. /\ file'.next_sequence <= file.next_sequence + 1
        /\ file'.next_wait_sequence <= file.next_wait_sequence + 1
    BY <2>1, <2>2, <2>6
  <2>8. file'.next_sequence \in Nat /\ file'.next_wait_sequence \in Nat
    BY <2>1, <2>2, <2>6
  <2> QED
    BY <2>5, <2>6, <2>7, <2>8 DEF Counted
<1>6. ASSUME NEW s \in Session, Return(s) PROVE Counted'
  <2>1. Done \subseteq Done'
    BY <1>6, DoneStays DEF Return, Shape, TypeOK
  <2> QED
    BY <1>6, <2>1, StillCounted DEF Return
<1>7. ASSUME NEW p \in Process, Crash(p) PROVE Counted'
  <2>1. Done \subseteq Done'
    BY <1>7, DoneStays DEF Crash
  <2> QED
    BY <1>7, <2>1, StillCounted DEF Crash
<1>8. CASE UNCHANGED vars
  BY <1>8, DoneStays, StillCounted DEF vars
<1> QED
  BY <1>1, <1>2, <1>3, <1>4, <1>5, <1>6, <1>7, <1>8, NextCases

-----------------------------------------------------------------------------
(* Exclusion at `synced`.                                                   *)

\* Time passes and calls come to nothing.
LEMMA StillExcluded ==
    ASSUME Shape, Excluded, UNCHANGED <<file, forced>>, synced' \in Nat, synced <= synced'
    PROVE  Excluded'
  BY ShapeFacts, ExclusiveLater DEF Excluded

LEMMA FillExcluded ==
    ASSUME Shape, UpToDate, Excluded, NEW s \in Session, Fill(s)
    PROVE  Excluded'
<1>1. PICK t \in synced..now :
            /\ t \in Nat /\ call[s] \in Request
            /\ Result(file, t, s, call[s]).kind = "write"
            /\ file' = Result(file, t, s, call[s]).file
            /\ forced' = IF NeedsForce(file, t, s, call[s])
                         THEN forced \cup {file.next_sequence} ELSE forced
            /\ file'.next_sequence = file.next_sequence + Made(call[s])
  BY FillWrites
<1>2. /\ IsClaimsFile(file) /\ file.next_sequence \in Nat /\ synced \in Nat /\ now \in Nat
      /\ synced <= t /\ t <= now /\ synced' = now
  BY <1>1, ShapeFacts DEF Fill, IsClaimsFile
<1>3. Made(call[s]) \in {0, 1} /\ (NeedsForce(file, t, s, call[s]) => Made(call[s]) = 1)
  BY DEF Made, NeedsForce
<1>4. \A i \in forced' : i \in Nat /\ i < file'.next_sequence
  BY <1>1, <1>2, <1>3 DEF Excluded
<1>5. ExclusiveAt(file, t, forced')
  <2>1. ExclusiveAt(file, t, forced)
    BY <1>1, <1>2, ExclusiveLater DEF Excluded
  <2>2. forced \subseteq forced'
    BY <1>1
  <2> QED
    BY <2>1, <2>2, MoreForced
<1>6. file' = file \/ Exclusive(file', forced')
  BY <1>1, <1>2, <1>5, ResultExclusive
<1>7. ExclusiveAt(file', now, forced')
  <2>1. CASE file' = file
    BY <1>1, <1>2, <1>5, <2>1, ExclusiveLater
  <2>2. CASE Exclusive(file', forced')
    BY <2>2, ExclusiveByStatus
  <2> QED
    BY <1>6, <2>1, <2>2
<1> QED
  BY <1>2, <1>4, <1>7 DEF Excluded

LEMMA NextExcluded ==
    Shape /\ UpToDate /\ Excluded /\ [Next]_vars => Excluded'
<1> SUFFICES ASSUME Shape, UpToDate, Excluded, [Next]_vars PROVE Excluded'
  OBVIOUS
<1>0. now \in Nat /\ synced \in Nat /\ synced <= now
  BY ShapeFacts
<1>1. CASE Tick
  BY <1>0, <1>1, StillExcluded DEF Tick
<1>2. ASSUME NEW s \in Session, Enqueue(s) PROVE Excluded'
  BY <1>0, <1>2, StillExcluded DEF Enqueue
<1>3. ASSUME NEW s \in Session, Read(s) PROVE Excluded'
  <2>1. UNCHANGED <<file, forced>> /\ (synced' = synced \/ synced' = now)
    BY <1>3, ReadCases DEF ReadTorn, ReadToWrite, ReadToReturn, ReadToThrow
  <2> QED
    BY <1>0, <2>1, StillExcluded
<1>4. ASSUME NEW s \in Session, Truncate(s) PROVE Excluded'
  BY <1>0, <1>4, StillExcluded DEF Truncate
<1>5. ASSUME NEW s \in Session, Fill(s) PROVE Excluded'
  BY <1>5, FillExcluded
<1>6. ASSUME NEW s \in Session, Return(s) PROVE Excluded'
  BY <1>0, <1>6, StillExcluded DEF Return
<1>7. ASSUME NEW p \in Process, Crash(p) PROVE Excluded'
  BY <1>0, <1>7, StillExcluded DEF Crash
<1>8. CASE UNCHANGED vars
  BY <1>0, <1>8, StillExcluded DEF vars
<1> QED
  BY <1>1, <1>2, <1>3, <1>4, <1>5, <1>6, <1>7, <1>8, NextCases

-----------------------------------------------------------------------------
(* What the sessions were told.                                             *)

\* A call that names nothing but its own records, or one id, reaches the claims Told
\* takes away.
Reached(s, h) ==
    \/ call[s].target = OwnRecords /\ h.session = s
    \/ call[s].target = [kind |-> "claim", id |-> h.id]

Renewed(s, h, g) ==
    call[s].action = "heartbeat" /\ h.id \in DOMAIN g.claims /\ g.claims[h.id].session = h.session

\* Where a claim that a session is told it holds comes from.
LEMMA ToldComesFrom ==
    ASSUME NEW s, NEW done, NEW h \in Told(s, done)
    PROVE  /\ call[s].action = "claim" =>
                \/ h \in told
                \/ h = [id |-> done.id, session |-> s, mode |-> call[s].ask.mode,
                        scopes |-> call[s].ask.scopes, expires |-> done.at + call[s].ttl,
                        forced |-> done.forced]
           /\ call[s].action # "claim" =>
                \E k \in told :
                    /\ call[s].action = "release" => ~Reached(s, k)
                    /\ h = IF Renewed(s, k, done.file)
                           THEN [k EXCEPT !.expires = done.file.claims[k.id].expires] ELSE k
  BY DEF Told, Reached, Renewed

\* A claim's fate: whose it is, its mode and its scopes stay, and its end stays unless a
\* heartbeat moves it.
LEMMA AgedKeeps ==
    ASSUME NEW c \in ClaimRecord, NEW t \in Nat, NEW u \in Nat, t <= u
    PROVE  /\ Aged(c, t) \in ClaimRecord
           /\ Aged(c, t).session = c.session /\ Aged(c, t).mode = c.mode
           /\ Aged(c, t).scopes = c.scopes /\ Aged(c, t).expires = c.expires
           /\ c.status = "active" \/ c.expires <= u => Aged(c, t).status = "active" \/ c.expires <= u
  BY DEF Aged, ClaimRecord, isClaimActive

LEMMA FateKeeps ==
    ASSUME NEW c \in ClaimRecord, NEW t \in Nat, NEW u \in Nat, t <= u,
           NEW i, NEW s, NEW req \in Request,
           req.action # "claim",
           req.action = "release" => ~Targets(Aged(c, t), "claim", i, req.target, s),
           c.status = "active" \/ c.expires <= u
    PROVE  LET d == Fate(c, i, t, s, req) IN
           /\ d.session = c.session /\ d.mode = c.mode /\ d.scopes = c.scopes
           /\ req.action # "heartbeat" => d.expires = c.expires
           /\ d.status = "active" \/ d.expires <= u
<1> DEFINE a == Aged(c, t)
<1>1. /\ a \in ClaimRecord
      /\ a.session = c.session /\ a.mode = c.mode /\ a.scopes = c.scopes /\ a.expires = c.expires
      /\ a.status = "active" \/ a.expires <= u
  BY AgedKeeps
<1> HIDE DEF a
<1>2. CASE req.action = "release"
  <2>1. Fate(c, i, t, s, req) = Freed(a, i, req.target, s)
    BY <1>2 DEF Fate, a
  <2>2. ~Targets(a, "claim", i, req.target, s)
    BY <1>2 DEF a
  <2>3. Fate(c, i, t, s, req) = a
    BY <2>1, <2>2 DEF Freed
  <2> QED
    BY <1>1, <1>2, <2>3
<1>3. CASE req.action = "heartbeat"
  <2>1. PICK e \in Nat : e = t + req.ttl
    <3>1. req.ttl \in TTL
      BY <1>3, RequestFields
    <3>2. PICK n \in Nat : n = req.ttl
      BY <3>1, TTLType
    <3>3. t + n \in Nat
      OBVIOUS
    <3> QED
      BY <3>2, <3>3
  <2>2. Fate(c, i, t, s, req) = Prolonged(a, i, req.target, s, e)
    BY <1>3, <2>1 DEF Fate, a
  <2>3. CASE Prolonged(a, i, req.target, s, e) = [a EXCEPT !.expires = e] /\ a.status = "active"
    BY <1>1, <1>3, <2>2, <2>3 DEF ClaimRecord
  <2>4. CASE Prolonged(a, i, req.target, s, e) = a
    BY <1>1, <1>3, <2>2, <2>4
  <2> QED
    BY <2>3, <2>4 DEF Prolonged
<1>4. CASE req.action \in {"list", "wait"}
  BY <1>1, <1>4 DEF Fate, a
<1> QED
  BY <1>2, <1>3, <1>4, RequestFields

\* A call that leaves the file takes nothing away that is not given up, and a claim is
\* never left at that.
LEMMA LeaveTold ==
    ASSUME Shape, ToldTrue, NEW s \in Session, HoldsFile(s), ReadToReturn(s),
           UNCHANGED <<file, now, forced>>
    PROVE  ToldTrue'
<1>1. IsClaimsFile(file) /\ now \in Nat /\ call[s] \in Request
  BY ShapeFacts DEF HoldsFile
<1>2. Result(file, now, s, call[s]).kind = "leave" /\ Result(file, now, s, call[s]).file = file
  BY <1>1, ResultKinds DEF ReadToReturn, Reads
<1>3. call[s].action # "claim"
  <2> SUFFICES ASSUME call[s].action = "claim" PROVE FALSE
    OBVIOUS
  <2>1. PICK force \in BOOLEAN : force = call[s].force
    BY <1>1, RequestFields
  <2>2. call[s].ask \in Ask /\ call[s].ttl \in TTL
    BY <1>1, RequestFields
  <2>3. Result(file, now, s, call[s]) = claimOutcome(file, now, s, call[s].ask, call[s].ttl, force)
    BY <2>1, ResultCases
  <2>4. PICK g : /\ Drafted(file, g, WithClaim(file, now, Candidate(now, s, call[s].ask, call[s].ttl)), 1, 0)
                 /\ claimOutcome(file, now, s, call[s].ask, call[s].ttl, force) \in {Throw(file), Write(g)}
    BY <1>1, <2>2, ClaimDraft, AskIsAnyAsk
  <2> QED
    BY <1>2, <2>3, <2>4 DEF Throw, Write
<1> SUFFICES ASSUME NEW h \in told'
             PROVE  /\ h = [id |-> h.id, session |-> h.session, mode |-> h.mode, scopes |-> h.scopes,
                            expires |-> h.expires, forced |-> h.forced]
                    /\ h.id \in Nat /\ h.id < file.next_sequence
                    /\ h.id \in forced => h.forced
                    /\ file.next_sequence <= Keep + 1 => Recorded(h)'
  BY DEF ToldTrue
<1>4. h \in Told(s, Computed(s, now)) /\ Computed(s, now).file = file
  BY <1>2 DEF ReadToReturn, Computed
<1>5. PICK k \in told : h = IF Renewed(s, k, file) THEN [k EXCEPT !.expires = file.claims[k.id].expires] ELSE k
  BY <1>3, <1>4, ToldComesFrom
<1>6. /\ k = [id |-> k.id, session |-> k.session, mode |-> k.mode, scopes |-> k.scopes,
              expires |-> k.expires, forced |-> k.forced]
      /\ k.id \in Nat /\ k.id < file.next_sequence
      /\ k.id \in forced => k.forced
      /\ file.next_sequence <= Keep + 1 => Recorded(k)
  BY DEF ToldTrue
<1>7. Recorded(k)' <=> Recorded(k)
  BY DEF Recorded
<1>8. CASE h = k
  BY <1>6, <1>7, <1>8
<1>9. CASE Renewed(s, k, file) /\ h = [k EXCEPT !.expires = file.claims[k.id].expires]
  <2>1. /\ h = [id |-> k.id, session |-> k.session, mode |-> k.mode, scopes |-> k.scopes,
                expires |-> file.claims[k.id].expires, forced |-> k.forced]
    BY <1>6, <1>9
  <2>2. file.next_sequence <= Keep + 1 => h = k
    BY <1>6, <2>1 DEF Recorded
  <2> QED
    BY <1>6, <1>7, <2>1, <2>2
<1> QED
  BY <1>5, <1>8, <1>9

\* A fill keeps every claim that somebody is told they hold, and the new one is in it.
LEMMA FillTold ==
    ASSUME Shape, UpToDate, Excluded, ToldTrue, NEW s \in Session, Fill(s)
    PROVE  ToldTrue'
<1>1. PICK t \in synced..now :
            /\ t \in Nat /\ call[s] \in Request
            /\ Result(file, t, s, call[s]).kind = "write"
            /\ file' = Result(file, t, s, call[s]).file
            /\ forced' = IF NeedsForce(file, t, s, call[s])
                         THEN forced \cup {file.next_sequence} ELSE forced
            /\ told' = Told(s, Computed(s, t))
            /\ file'.next_sequence = file.next_sequence + Made(call[s])
  BY FillWrites
<1>2. PICK req \in Request : req = call[s]
  BY <1>1
<1>3. /\ IsClaimsFile(file) /\ file.next_sequence \in Nat /\ now \in Nat /\ t <= now /\ now' = now
  BY <1>1, ShapeFacts DEF Fill, IsClaimsFile
<1>4. file.next_sequence + Made(req) <= Keep + 1 => file'.claims = ClaimsAfter(file, t, s, req)
  BY <1>1, <1>2, <1>3, ResultWrites
<1>5. /\ Computed(s, t).file = file' /\ Computed(s, t).at = t
      /\ Computed(s, t).id = file.next_sequence
      /\ Computed(s, t).forced = NeedsForce(file, t, s, req)
  BY <1>1, <1>2 DEF Computed
<1>6. /\ Made(req) \in {0, 1} /\ (req.action = "claim" <=> Made(req) = 1)
      /\ NeedsForce(file, t, s, req) => Made(req) = 1
  <2>1. Made(req) = IF req.action = "claim" THEN 1 ELSE 0
    BY DEF Made
  <2>2. NeedsForce(file, t, s, req) => req.action = "claim"
    BY DEF NeedsForce
  <2> QED
    BY <2>1, <2>2
<1>7. Keep \in Nat
  BY KeepType
<1> SUFFICES ASSUME NEW h \in told'
             PROVE  /\ h = [id |-> h.id, session |-> h.session, mode |-> h.mode, scopes |-> h.scopes,
                            expires |-> h.expires, forced |-> h.forced]
                    /\ h.id \in Nat /\ h.id < file'.next_sequence
                    /\ h.id \in forced' => h.forced
                    /\ file'.next_sequence <= Keep + 1 => Recorded(h)'
  BY DEF ToldTrue
<1>8. ASSUME NEW k \in told
      PROVE  /\ k = [id |-> k.id, session |-> k.session, mode |-> k.mode, scopes |-> k.scopes,
                     expires |-> k.expires, forced |-> k.forced]
             /\ k.id \in Nat /\ k.id < file.next_sequence /\ k.id < file'.next_sequence
             /\ k.id \in forced' => k.forced
             /\ file'.next_sequence <= Keep + 1 =>
                    /\ Recorded(k) /\ file.claims[k.id] \in ClaimRecord
                    /\ file.claims[k.id].status = "active" \/ file.claims[k.id].expires <= now
                    /\ file'.claims = ClaimsAfter(file, t, s, req)
  <2>1. /\ k = [id |-> k.id, session |-> k.session, mode |-> k.mode, scopes |-> k.scopes,
                expires |-> k.expires, forced |-> k.forced]
        /\ k.id \in Nat /\ k.id < file.next_sequence
        /\ k.id \in forced => k.forced
        /\ file.next_sequence <= Keep + 1 => Recorded(k)
    BY DEF ToldTrue
  <2>2. k.id < file'.next_sequence /\ (file'.next_sequence <= Keep + 1 => file.next_sequence <= Keep + 1)
    BY <1>1, <1>2, <1>3, <1>6, <1>7, <2>1
  <2>3. k.id \in forced' => k.id \in forced
    BY <1>1, <1>3, <2>1
  <2>4. Recorded(k) => /\ file.claims[k.id] \in ClaimRecord
                       /\ file.claims[k.id].status = "active" \/ file.claims[k.id].expires <= now
    BY <1>3 DEF Recorded, IsClaimsFile, IsArrayOf
  <2> QED
    BY <1>1, <1>2, <1>4, <2>1, <2>2, <2>3, <2>4
<1>9. CASE req.action = "claim"
  <2>1. \/ h \in told
        \/ h = [id |-> file.next_sequence, session |-> s, mode |-> req.ask.mode,
                scopes |-> req.ask.scopes, expires |-> t + req.ttl, forced |-> NeedsForce(file, t, s, req)]
    BY <1>1, <1>2, <1>5, <1>9, ToldComesFrom
  <2>2. ClaimsAfter(file, t, s, req) = WithClaim(file, t, Candidate(t, s, req.ask, req.ttl))
    BY <1>9 DEF ClaimsAfter
  <2>3. CASE h \in told
    <3>1. ASSUME file'.next_sequence <= Keep + 1 PROVE Recorded(h)'
      <4>1. /\ Recorded(h) /\ file.claims[h.id] \in ClaimRecord
            /\ file.claims[h.id].status = "active" \/ file.claims[h.id].expires <= now
            /\ file'.claims = WithClaim(file, t, Candidate(t, s, req.ask, req.ttl))
        BY <1>8, <2>2, <2>3, <3>1
      <4>2. h.id \in DOMAIN file'.claims /\ file'.claims[h.id] = Aged(file.claims[h.id], t)
        BY <1>3, <1>8, <2>3, <4>1 DEF WithClaim, Recorded
      <4>3. PICK c \in ClaimRecord : c = file.claims[h.id]
        BY <4>1
      <4>4. /\ Aged(c, t).session = c.session /\ Aged(c, t).mode = c.mode
            /\ Aged(c, t).scopes = c.scopes /\ Aged(c, t).expires = c.expires
            /\ Aged(c, t).status = "active" \/ c.expires <= now
        BY <1>1, <1>3, <4>1, <4>3, AgedKeeps
      <4> QED
        BY <1>3, <4>1, <4>2, <4>3, <4>4 DEF Recorded
    <3> QED
      BY <1>8, <2>3, <3>1
  <2>4. CASE h = [id |-> file.next_sequence, session |-> s, mode |-> req.ask.mode,
                  scopes |-> req.ask.scopes, expires |-> t + req.ttl, forced |-> NeedsForce(file, t, s, req)]
    <3>1. h.id \in Nat /\ h.id < file'.next_sequence
      BY <1>1, <1>2, <1>3, <1>6, <1>9, <2>4
    <3>2. h.id \in forced' => h.forced
      <4>1. file.next_sequence \notin forced
        BY <1>3 DEF Excluded
      <4> QED
        BY <1>1, <1>2, <2>4, <4>1
    <3>3. ASSUME file'.next_sequence <= Keep + 1 PROVE Recorded(h)'
      <4>1. file'.claims = WithClaim(file, t, Candidate(t, s, req.ask, req.ttl))
        BY <1>1, <1>2, <1>4, <2>2, <3>3
      <4>2. /\ h.id \in DOMAIN file'.claims
            /\ file'.claims[h.id] = Candidate(t, s, req.ask, req.ttl)
        BY <2>4, <4>1 DEF WithClaim
      <4> QED
        BY <2>4, <4>2 DEF Recorded, Candidate
    <3> QED
      BY <2>4, <3>1, <3>2, <3>3
  <2> QED
    BY <2>1, <2>3, <2>4
<1>10. CASE req.action # "claim"
  <2>1. PICK k \in told :
            /\ req.action = "release" => ~Reached(s, k)
            /\ h = IF Renewed(s, k, file') THEN [k EXCEPT !.expires = file'.claims[k.id].expires] ELSE k
    BY <1>1, <1>2, <1>5, <1>10, ToldComesFrom
  <2>2. /\ k = [id |-> k.id, session |-> k.session, mode |-> k.mode, scopes |-> k.scopes,
                expires |-> k.expires, forced |-> k.forced]
        /\ k.id \in Nat /\ k.id < file'.next_sequence
        /\ k.id \in forced' => k.forced
    BY <1>8
  <2>3. /\ h = [id |-> k.id, session |-> k.session, mode |-> k.mode, scopes |-> k.scopes,
                expires |-> IF Renewed(s, k, file') THEN file'.claims[k.id].expires ELSE k.expires,
                forced |-> k.forced]
    BY <2>1, <2>2
  <2>4. ASSUME file'.next_sequence <= Keep + 1 PROVE Recorded(h)'
    <3>1. /\ Recorded(k) /\ file.claims[k.id] \in ClaimRecord
          /\ file.claims[k.id].status = "active" \/ file.claims[k.id].expires <= now
          /\ file'.claims = [i \in DOMAIN file.claims |-> Fate(file.claims[i], i, t, s, req)]
      BY <1>8, <1>10, <2>4 DEF ClaimsAfter
    <3>2. PICK c \in ClaimRecord : c = file.claims[k.id]
      BY <3>1
    <3>3. /\ k.id \in DOMAIN file.claims /\ k.id \in DOMAIN file'.claims
          /\ file'.claims[k.id] = Fate(c, k.id, t, s, req)
          /\ c.session = k.session /\ c.mode = k.mode /\ c.scopes = k.scopes /\ c.expires = k.expires
          /\ c.status = "active" \/ c.expires <= now
      BY <3>1, <3>2 DEF Recorded
    <3>4. req.action = "release" => ~Targets(Aged(c, t), "claim", k.id, req.target, s)
      <4> SUFFICES ASSUME req.action = "release", Targets(Aged(c, t), "claim", k.id, req.target, s)
                   PROVE  Reached(s, k)
        BY <2>1
      <4>1. Aged(c, t).session = c.session
        BY <1>1, <1>3, AgedKeeps
      <4>2. CASE req.target = OwnRecords
        BY <1>2, <3>3, <4>1, <4>2 DEF Targets, Reached
      <4>3. CASE req.target # OwnRecords
        <5>1. req.target \in AnyTarget /\ req.target.kind = "claim" /\ req.target.id = k.id
          BY <4>3, RequestFields DEF Targets
        <5>2. req.target = [kind |-> "claim", id |-> k.id]
          BY <4>3, <5>1 DEF AnyTarget
        <5> QED
          BY <1>2, <5>2 DEF Reached
      <4> QED
        BY <4>2, <4>3
    <3> DEFINE d == Fate(c, k.id, t, s, req)
    <3>5. /\ d.session = c.session /\ d.mode = c.mode /\ d.scopes = c.scopes
          /\ req.action # "heartbeat" => d.expires = c.expires
          /\ d.status = "active" \/ d.expires <= now
      BY <1>1, <1>3, <1>10, <3>3, <3>4, FateKeeps
    <3> HIDE DEF d
    <3>6. file'.claims[k.id] = d
      BY <3>3 DEF d
    <3>7. h.id = k.id /\ h.session = k.session /\ h.mode = k.mode /\ h.scopes = k.scopes /\ h.expires = d.expires
      <4>1. req.action = "heartbeat" => Renewed(s, k, file')
        BY <1>2, <3>3, <3>5, <3>6 DEF Renewed
      <4>2. req.action # "heartbeat" => ~Renewed(s, k, file')
        BY <1>2 DEF Renewed
      <4> QED
        BY <2>3, <3>3, <3>5, <3>6, <4>1, <4>2
    <3> QED
      BY <1>3, <3>3, <3>5, <3>6, <3>7 DEF Recorded
  <2> QED
    BY <2>2, <2>3, <2>4
<1> QED
  BY <1>9, <1>10

LEMMA StillTold ==
    ASSUME Shape, ToldTrue, UNCHANGED <<file, forced, told>>, now' \in Nat, now <= now'
    PROVE  ToldTrue'
<1> SUFFICES ASSUME NEW h \in told, Recorded(h)
             PROVE  Recorded(h)'
  BY DEF ToldTrue
<1>1. file.claims[h.id].expires \in Nat
  BY ShapeFacts DEF Recorded, IsClaimsFile, IsArrayOf, ClaimRecord
<1>2. h.expires \in Nat /\ now \in Nat
  BY <1>1, ShapeFacts DEF Recorded
<1> QED
  BY <1>2 DEF Recorded

LEMMA NextTold ==
    Shape /\ UpToDate /\ Excluded /\ ToldTrue /\ [Next]_vars => ToldTrue'
<1> SUFFICES ASSUME Shape, UpToDate, Excluded, ToldTrue, [Next]_vars PROVE ToldTrue'
  OBVIOUS
<1>0. now \in Nat
  BY ShapeFacts
<1>1. CASE Tick
  BY <1>0, <1>1, StillTold DEF Tick
<1>2. ASSUME NEW s \in Session, Enqueue(s) PROVE ToldTrue'
  BY <1>0, <1>2, StillTold DEF Enqueue
<1>3. ASSUME NEW s \in Session, Read(s) PROVE ToldTrue'
  <2>1. /\ HoldsFile(s) /\ UNCHANGED <<file, now, forced>>
        /\ ReadTorn(s) \/ ReadToWrite(s) \/ ReadToReturn(s) \/ ReadToThrow(s)
    BY <1>3, ReadCases
  <2>2. CASE ReadToReturn(s)
    BY <2>1, <2>2, LeaveTold
  <2>3. CASE ~ReadToReturn(s)
    BY <1>0, <2>1, <2>3, StillTold DEF ReadTorn, ReadToWrite, ReadToThrow
  <2> QED
    BY <2>2, <2>3
<1>4. ASSUME NEW s \in Session, Truncate(s) PROVE ToldTrue'
  BY <1>0, <1>4, StillTold DEF Truncate
<1>5. ASSUME NEW s \in Session, Fill(s) PROVE ToldTrue'
  BY <1>5, FillTold
<1>6. ASSUME NEW s \in Session, Return(s) PROVE ToldTrue'
  BY <1>0, <1>6, StillTold DEF Return
<1>7. ASSUME NEW p \in Process, Crash(p) PROVE ToldTrue'
  BY <1>0, <1>7, StillTold DEF Crash
<1>8. CASE UNCHANGED vars
  BY <1>0, <1>8, StillTold DEF vars
<1> QED
  BY <1>1, <1>2, <1>3, <1>4, <1>5, <1>6, <1>7, <1>8, NextCases

-----------------------------------------------------------------------------
(* The invariant of one queue.                                              *)

IInv == Shape /\ InLine /\ TornOnlyThen /\ UpToDate /\ Counted /\ Excluded /\ ToldTrue

LEMMA InitInv == Init => IInv
<1> SUFFICES ASSUME Init PROVE IInv
  OBVIOUS
<1>1. Shape /\ InLine
  BY InitLine
<1>2. TornOnlyThen /\ UpToDate /\ ToldTrue
  BY DEF Init, TornOnlyThen, UpToDate, Writing, ToldTrue
<1>3. Counted
  <2>1. file.next_sequence = 1 /\ file.next_wait_sequence = 1
    BY DEF Init, EmptyFile
  <2>2. Cardinality(Done) \in Nat
    BY DoneFinite
  <2> QED
    BY <2>1, <2>2 DEF Counted
<1>4. Excluded
  BY DEF Init, Excluded, ExclusiveAt, EmptyFile
<1> QED
  BY <1>1, <1>2, <1>3, <1>4 DEF IInv

LEMMA NextInv == OneQueue /\ IInv /\ [Next]_vars => IInv'
  BY NextLine, NextTorn, NextUpToDate, NextCounted, NextExcluded, NextTold DEF IInv

LEMMA InvHolds == OneQueue /\ Spec => []IInv
<1>1. ASSUME OneQueue PROVE Spec => []IInv
  <2>1. IInv /\ [Next]_vars => IInv'
    BY <1>1, NextInv
  <2> QED
    BY InitInv, <2>1, PTL DEF Spec
<1> QED
  BY <1>1

-----------------------------------------------------------------------------
\* In one process a call fails over a half-written queue file only after a crash left it
\* behind: withLockedPaths keeps it out of the sight of every other call.
THEOREM TornOnlyAfterCrash ==
    ASSUME OneQueue
    PROVE  Spec => []TornSeenOnlyAfterCrash
<1>1. IInv => TornSeenOnlyAfterCrash
  <2> SUFFICES ASSUME IInv, NEW s \in Session, HoldsFile(s), torn PROVE crashes > 0
    BY DEF TornSeenOnlyAfterCrash
  <2>1. \A x \in Session : pc[x] = "writing" => x = s
    BY AtHead DEF IInv, OneQueue
  <2>2. pc[s] = "queued"
    BY DEF HoldsFile
  <2> QED
    BY <2>1, <2>2 DEF IInv, TornOnlyThen
<1> QED
  BY <1>1, InvHolds, PTL

\* In one process, until more than Keep claims have been made in all (slice(-200)), no
\* write loses a claim: what a session was told it holds is in the file and active until
\* it is released or runs out.
THEOREM HeldIsRecorded ==
    ASSUME OneQueue
    PROVE  Spec => [](file.next_sequence <= Keep + 1 => ToldHeld)
<1>1. IInv => (file.next_sequence <= Keep + 1 => ToldHeld)
  <2> SUFFICES ASSUME IInv, file.next_sequence <= Keep + 1, NEW h \in told, Live(h)
               PROVE  /\ h.id \in DOMAIN file.claims
                      /\ file.claims[h.id].session = h.session
                      /\ file.claims[h.id].status = "active"
    BY DEF ToldHeld
  <2>1. Recorded(h)
    BY DEF IInv, ToldTrue
  <2>2. h.expires \in Nat /\ now \in Nat
    BY <2>1, ShapeFacts DEF IInv, Recorded, IsClaimsFile, IsArrayOf, ClaimRecord
  <2> QED
    BY <2>1, <2>2 DEF Recorded, Live
<1> QED
  BY <1>1, InvHolds, PTL

\* In one process, and as long as slice(-200) has dropped nothing, no two sessions are in
\* possession of overlapping write claims that were both granted without force, whatever
\* the interleaving of their calls, the clock and the crashes.
THEOREM HoldersExclude ==
    ASSUME OneQueue
    PROVE  Spec => [](file.next_sequence <= Keep + 1 => HolderExclusion)
<1>1. IInv => (file.next_sequence <= Keep + 1 => HolderExclusion)
  <2> SUFFICES ASSUME IInv, file.next_sequence <= Keep + 1, NEW a \in told, NEW b \in told,
                      Live(a), Live(b), Conflicting(a, b)
               PROVE  a.forced \/ b.forced
    BY DEF HolderExclusion
  <2>1. \A h \in {a, b} : /\ Recorded(h) /\ h.id \in Nat
                          /\ h.id \in forced => h.forced
    BY DEF IInv, ToldTrue
  <2>2. /\ now \in Nat /\ IsClaimsFile(file)
        /\ ExclusiveAt(file, now, forced)
    BY ShapeFacts, ExclusiveLater DEF IInv, Excluded
  <2>3. \A h \in {a, b} : isClaimActive(file.claims[h.id], now)
    <3> SUFFICES ASSUME NEW h \in {a, b} PROVE isClaimActive(file.claims[h.id], now)
      OBVIOUS
    <3>1. h.expires \in Nat /\ Live(h)
      BY <2>1, <2>2 DEF Recorded, IsClaimsFile, IsArrayOf, ClaimRecord
    <3> QED
      BY <2>1, <2>2, <3>1 DEF Recorded, Live, isClaimActive
  <2>4. a.session # b.session
    BY DEF Conflicting
  <2>5. a.id # b.id
    BY <2>1, <2>4 DEF Recorded
  <2>6. Conflicting(file.claims[a.id], file.claims[b.id])
    BY <2>1 DEF Conflicting, Recorded
  <2>7. Conflicting(file.claims[b.id], file.claims[a.id])
    BY <2>6, ConflictCommutes
  <2>8. CASE a.id < b.id
    BY <2>1, <2>2, <2>3, <2>6, <2>8 DEF ExclusiveAt, Recorded
  <2>9. CASE b.id < a.id
    BY <2>1, <2>2, <2>3, <2>7, <2>9 DEF ExclusiveAt, Recorded
  <2> QED
    BY <2>1, <2>5, <2>8, <2>9
<1> QED
  BY <1>1, InvHolds, PTL

-----------------------------------------------------------------------------
(* What the file itself says. The properties of ArtifactClaims are about    *)
(* the file between two calls; here it is read and written in steps, and it *)
(* is enough that a write was worked out from the file it replaces, no      *)
(* later than now.                                                          *)

\* The requests of the sessions, as the lemmas of ClaimsFileProofs have them.
LEMMA ResultFollows ==
    ASSUME NEW f, IsClaimsFile(f), NEW t \in Nat, NEW s \in Session, NEW req \in Request
    PROVE  \E g : Follows(f, g, t) /\ Result(f, t, s, req) \in {Leave(f), Throw(f), Write(g)}
<1>1. CASE req.action = "list"
  BY <1>1, ListFollows, ResultCases
<1>2. CASE req.action = "release"
  BY <1>2, ReleaseFollows, ResultCases
<1>3. CASE req.action = "heartbeat"
  <2>1. req.ttl \in TTL
    BY <1>3, RequestFields
  <2> QED
    BY <1>3, <2>1, HeartbeatFollows, ResultCases
<1>4. CASE req.action = "wait"
  <2>1. req.ask \in Ask /\ req.ttl \in TTL
    BY <1>4, RequestFields
  <2>2. \E g : Follows(f, g, t) /\ waitOutcome(f, t, s, req.ask, req.ttl) = Write(g)
    BY <2>1, WaitFollows
  <2> QED
    BY <1>4, <2>2, ResultCases
<1>5. CASE req.action = "claim"
  <2>1. req.ask \in AnyAsk /\ req.ttl \in TTL /\ req.force \in BOOLEAN
    BY <1>5, RequestFields, AskIsAnyAsk
  <2>2. PICK force \in BOOLEAN : force = req.force
    BY <2>1
  <2>3. \E g : /\ Follows(f, g, t)
               /\ claimOutcome(f, t, s, req.ask, req.ttl, force) \in {Throw(f), Write(g)}
    BY <2>1, ClaimFollows
  <2> QED
    BY <1>5, <2>2, <2>3, ResultCases
<1> QED
  BY <1>1, <1>2, <1>3, <1>4, <1>5, RequestFields

\* A step leaves the file or fills it with a cut of what follows from it.
LEMMA StoreEffect ==
    ASSUME IInv, [Next]_vars
    PROVE  /\ now \in Nat /\ now' \in Nat /\ now <= now' /\ IsClaimsFile(file)
           /\ \/ file' = file
              \/ \E t, g : /\ t \in Nat /\ t <= now /\ now' = now
                          /\ Follows(file, g, t) /\ file' = writeClaimsFile(g)
<1>1. now \in Nat /\ synced \in Nat /\ IsClaimsFile(file)
  BY ShapeFacts DEF IInv
<1>2. ASSUME NEW s \in Session, Fill(s)
      PROVE  \/ file' = file
             \/ \E t, g : t \in Nat /\ t <= now /\ Follows(file, g, t) /\ file' = writeClaimsFile(g)
  <2>1. PICK t \in synced..now :
            t \in Nat /\ call[s] \in Request /\ file' = Result(file, t, s, call[s]).file
    BY <1>2, FillWrites DEF IInv
  <2>2. t <= now
    BY <1>1, <2>1
  <2>3. PICK g : /\ Follows(file, g, t)
                 /\ Result(file, t, s, call[s]) \in {Leave(file), Throw(file), Write(g)}
    BY <1>1, <2>1, ResultFollows
  <2>4. file' = file \/ file' = writeClaimsFile(g)
    BY <2>1, <2>3 DEF Leave, Throw, Write
  <2> QED
    BY <2>1, <2>2, <2>3, <2>4
<1>3. ASSUME NEW s \in Session, Enqueue(s) \/ Read(s) \/ Truncate(s) \/ Return(s)
      PROVE  file' = file /\ now' = now
  BY <1>3 DEF Enqueue, Read, Truncate, Return
<1>4. ASSUME NEW s \in Session, Fill(s) PROVE now' = now
  BY <1>4 DEF Fill
<1>5. ASSUME Tick PROVE file' = file /\ now' = now + 1
  BY <1>5 DEF Tick
<1>6. ASSUME NEW p \in Process, Crash(p) PROVE file' = file /\ now' = now
  BY <1>6 DEF Crash
<1>7. ASSUME UNCHANGED vars PROVE file' = file /\ now' = now
  BY <1>7 DEF vars
<1>8. now' \in Nat /\ now <= now'
  <2>1. now' = now \/ now' = now + 1
    BY <1>3, <1>4, <1>5, <1>6, <1>7, NextCases
  <2> QED
    BY <1>1, <2>1
<1>9. \/ file' = file
      \/ \E t, g : /\ t \in Nat /\ t <= now /\ now' = now
                  /\ Follows(file, g, t) /\ file' = writeClaimsFile(g)
  BY <1>2, <1>3, <1>4, <1>5, <1>6, <1>7, NextCases
<1> QED
  BY <1>1, <1>8, <1>9

\* What is known of the waiters in the file in every state.
WaitersTrue == PendingNamed(file) /\ ReadyTrue(file, now)

LEMMA InitWaiters == Init => WaitersTrue
  BY DEF Init, WaitersTrue, PendingNamed, ReadyTrue, EmptyFile

LEMMA NextWaiters == IInv /\ WaitersTrue /\ [Next]_vars => WaitersTrue'
<1> SUFFICES ASSUME IInv, WaitersTrue, [Next]_vars PROVE WaitersTrue'
  OBVIOUS
<1>1. now \in Nat /\ now' \in Nat /\ now <= now' /\ IsClaimsFile(file)
  BY StoreEffect
<1>2. CASE file' = file
  <2>1. ReadyTrue(file, now')
    BY <1>1, ReadyLater DEF WaitersTrue
  <2> QED
    BY <1>2, <2>1 DEF WaitersTrue
<1>3. CASE \E t, g : /\ t \in Nat /\ t <= now /\ now' = now
                     /\ Follows(file, g, t) /\ file' = writeClaimsFile(g)
  <2>1. PICK t, g : /\ t \in Nat /\ t <= now /\ now' = now
                    /\ Follows(file, g, t) /\ file' = writeClaimsFile(g)
    BY <1>3
  <2>2. PendingNamed(writeClaimsFile(g)) /\ ReadyTrue(writeClaimsFile(g), now)
    BY <1>1, <2>1, WrittenSettled DEF Follows
  <2> QED
    BY <2>1, <2>2 DEF WaitersTrue
<1> QED
  BY <1>2, <1>3, StoreEffect

LEMMA WaitersHold == OneQueue /\ Spec => []WaitersTrue
<1>1. ASSUME OneQueue PROVE Spec => []WaitersTrue
  <2>1. Spec => []IInv
    BY <1>1, InvHolds
  <2> QED
    BY <2>1, InitWaiters, NextWaiters, PTL DEF Spec
<1> QED
  BY <1>1

\* In one process two live write claims in the queue file overlap only if the later one
\* was forced, at every moment of the reads and writes of the calls and after any crash:
\* slice(-200) or not, for it is about the records that are there.
THEOREM WritesExclude ==
    ASSUME OneQueue
    PROVE  Spec => []Abstract!WriteExclusion
<1>1. IInv => Abstract!WriteExclusion
  <2> SUFFICES ASSUME IInv, NEW i \in DOMAIN file.claims, NEW j \in DOMAIN file.claims,
                      i < j,
                      isClaimActive(file.claims[i], now), isClaimActive(file.claims[j], now),
                      Conflicting(file.claims[i], file.claims[j])
               PROVE  j \in forced
    BY SameConflict DEF Abstract!WriteExclusion, Abstract!isClaimActive, isClaimActive
  <2>1. ExclusiveAt(file, now, forced)
    BY ShapeFacts, ExclusiveLater DEF IInv, Excluded
  <2> QED
    BY <2>1 DEF ExclusiveAt
<1> QED
  BY <1>1, InvHolds, PTL

\* In one process no wake-up is lost between the steps of the calls: a waiter is pending
\* in the file only while a claim it names is active there and conflicts with it, or was
\* cut off and is older than all that are left.
THEOREM PendingForAReason ==
    ASSUME OneQueue
    PROVE  Spec => []Abstract!PendingHasBlockers
<1>1. WaitersTrue => Abstract!PendingHasBlockers
  BY SameConflict DEF WaitersTrue, PendingNamed, Abstract!PendingHasBlockers
<1> QED
  BY <1>1, WaitersHold, PTL

\* In one process a waiter that is marked ready in the file is blocked at most by the
\* newest claim there, also while a call is between its read and its write.
THEOREM ReadyButForNewest ==
    ASSUME OneQueue
    PROVE  Spec => []Abstract!ReadyStaleOnlyByNewest
<1>1. WaitersTrue => Abstract!ReadyStaleOnlyByNewest
  BY SameBlocking DEF WaitersTrue, ReadyTrue, Abstract!ReadyStaleOnlyByNewest
<1> QED
  BY <1>1, WaitersHold, PTL

\* In one process no write revives an ended record or gives one to another session: none
\* puts back what its call had read before somebody else's write.
THEOREM RecordsStayEnded ==
    ASSUME OneQueue
    PROVE  Spec => Abstract!RecordsOnlyEnd
<1>1. IInv /\ [Next]_vars => RecordsKept(file, file')
  <2> SUFFICES ASSUME IInv, [Next]_vars PROVE RecordsKept(file, file')
    OBVIOUS
  <2>1. CASE file' = file
    BY <2>1 DEF RecordsKept
  <2>2. CASE \E t, g : /\ t \in Nat /\ t <= now /\ now' = now
                       /\ Follows(file, g, t) /\ file' = writeClaimsFile(g)
    BY <2>2, StoreEffect, WrittenKept
  <2> QED
    BY <2>1, <2>2, StoreEffect
<1>2. IInv /\ [Next]_vars =>
        [/\ \A i \in DOMAIN file.claims \cap DOMAIN file'.claims :
              /\ [file'.claims[i] EXCEPT !.status = "", !.expires = 0]
                  = [file.claims[i] EXCEPT !.status = "", !.expires = 0]
              /\ file.claims[i].status # "active" => file'.claims[i] = file.claims[i]
         /\ \A w \in DOMAIN file.waiters \cap DOMAIN file'.waiters :
              file.waiters[w].status \in {"cancelled", "expired"} => file'.waiters[w] = file.waiters[w]
        ]_(Abstract!vars)
  BY <1>1 DEF RecordsKept
<1> QED
  BY <1>2, InvHolds, PTL DEF Spec, Abstract!RecordsOnlyEnd

-----------------------------------------------------------------------------
(* One queue implements ArtifactClaims.                                     *)

\* The target is an id that is not in the file.
Misses(f, target) ==
    /\ target # OwnRecords
    /\ \A i \in DOMAIN f.claims : target.kind # "claim" \/ target.id # i
    /\ \A i \in DOMAIN f.waiters : target.kind # "wait" \/ target.id # i

LEMMA AllMissesAlike ==
    ASSUME NEW f, NEW target, NEW other, Misses(f, target), Misses(f, other), NEW s, NEW e
    PROVE  /\ releaseClaims(f, target, s) = releaseClaims(f, other, s)
           /\ cancelWaiters(f, target, s) = cancelWaiters(f, other, s)
           /\ heartbeatClaims(f, target, s, e) = heartbeatClaims(f, other, s, e)
           /\ heartbeatWaiters(f, target, s, e) = heartbeatWaiters(f, other, s, e)
           /\ Reaches(f, target, s) <=> Reaches(f, other, s)
<1>1. ASSUME NEW i \in DOMAIN f.claims
      PROVE  ~Targets(f.claims[i], "claim", i, target, s) /\ ~Targets(f.claims[i], "claim", i, other, s)
  BY DEF Misses, Targets
<1>2. ASSUME NEW i \in DOMAIN f.waiters
      PROVE  ~Targets(f.waiters[i], "wait", i, target, s) /\ ~Targets(f.waiters[i], "wait", i, other, s)
  BY DEF Misses, Targets
<1>3. releaseClaims(f, target, s) = releaseClaims(f, other, s)
  BY <1>1 DEF releaseClaims
<1>4. cancelWaiters(f, target, s) = cancelWaiters(f, other, s)
  BY <1>2 DEF cancelWaiters
<1>5. heartbeatClaims(f, target, s, e) = heartbeatClaims(f, other, s, e)
  BY <1>1 DEF heartbeatClaims
<1>6. heartbeatWaiters(f, target, s, e) = heartbeatWaiters(f, other, s, e)
  BY <1>2 DEF heartbeatWaiters
<1>7. Reaches(f, target, s) <=> Reaches(f, other, s)
  BY <1>1, <1>2 DEF Reaches
<1> QED
  BY <1>3, <1>4, <1>5, <1>6, <1>7

LEMMA MissesStay ==
    ASSUME NEW f, NEW g, NEW target, Misses(f, target),
           DOMAIN g.claims = DOMAIN f.claims, DOMAIN g.waiters = DOMAIN f.waiters
    PROVE  Misses(g, target)
  BY DEF Misses

LEMMA OpenedDomains ==
    ASSUME NEW f, IsClaimsFile(f), NEW t \in Nat
    PROVE  DOMAIN opened(f, t).claims = DOMAIN f.claims /\ DOMAIN opened(f, t).waiters = DOMAIN f.waiters
<1>1. DOMAIN opened(f, t).claims = DOMAIN f.claims
  BY OpenedClaims
<1>2. opened(f, t) = refreshWaiters(markExpired(f, t), t)
  BY NormalizeType DEF opened
<1>3. DOMAIN opened(f, t).waiters = DOMAIN f.waiters
  BY <1>2 DEF refreshWaiters, markExpired, IsClaimsFile
<1> QED
  BY <1>1, <1>3

LEMMA UnknownAlike ==
    ASSUME NEW f, IsClaimsFile(f), NEW target \in AnyTarget, target \notin TargetsIn(f),
           NEW t \in Nat, NEW s, NEW ttl
    PROVE  /\ releaseOutcome(f, t, target, s) = releaseOutcome(f, t, UnknownRecord, s)
           /\ heartbeatOutcome(f, t, target, s, ttl) = heartbeatOutcome(f, t, UnknownRecord, s, ttl)
<1> DEFINE read == opened(f, t)
           e == t + ttl
<1>1. Misses(f, target)
  BY DEF Misses, AnyTarget, TargetsIn
<1>2. Misses(f, UnknownRecord)
  BY DEF Misses, UnknownRecord, OwnRecords, IsClaimsFile, IsArrayOf
<1>3. IsClaimsFile(read) /\ Misses(read, target) /\ Misses(read, UnknownRecord)
  BY <1>1, <1>2, OpenedDomains, OpenedType, MissesStay
<1> HIDE DEF read, e
<1>4. releaseOutcome(f, t, target, s) = releaseOutcome(f, t, UnknownRecord, s)
  <2> DEFINE freed == releaseClaims(read, target, s)
  <2>1. freed = releaseClaims(read, UnknownRecord, s)
    BY <1>3, AllMissesAlike
  <2>2. DOMAIN freed.claims = DOMAIN read.claims /\ DOMAIN freed.waiters = DOMAIN read.waiters
    BY <1>3 DEF releaseClaims, IsClaimsFile
  <2> HIDE DEF freed
  <2>3. cancelWaiters(freed, target, s) = cancelWaiters(freed, UnknownRecord, s)
    BY <1>3, <2>2, MissesStay, AllMissesAlike
  <2> QED
    BY <2>1, <2>3 DEF releaseOutcome, read, freed
<1>5. heartbeatOutcome(f, t, target, s, ttl) = heartbeatOutcome(f, t, UnknownRecord, s, ttl)
  <2> DEFINE beaten == heartbeatClaims(read, target, s, e)
  <2>1. beaten = heartbeatClaims(read, UnknownRecord, s, e)
    BY <1>3, AllMissesAlike
  <2>2. DOMAIN beaten.claims = DOMAIN read.claims /\ DOMAIN beaten.waiters = DOMAIN read.waiters
    BY <1>3 DEF heartbeatClaims, IsClaimsFile
  <2> HIDE DEF beaten
  <2>3. heartbeatWaiters(beaten, target, s, e) = heartbeatWaiters(beaten, UnknownRecord, s, e)
    BY <1>3, <2>2, MissesStay, AllMissesAlike
  <2>4. Reaches(read, target, s) <=> Reaches(read, UnknownRecord, s)
    BY <1>3, AllMissesAlike
  <2> QED
    BY <2>1, <2>3, <2>4 DEF heartbeatOutcome, read, beaten, e
<1> QED
  BY <1>4, <1>5

\* The target a step of ArtifactClaims takes for a call's.
LEMMA TargetTaken ==
    ASSUME NEW f, IsClaimsFile(f), NEW target \in AnyTarget
    PROVE  \E known \in Abstract!TargetsIn(f) :
              \A t \in Nat, s \in Session :
                /\ releaseOutcome(f, t, target, s) = releaseOutcome(f, t, known, s)
                /\ \A ttl \in TTL :
                      heartbeatOutcome(f, t, target, s, ttl) = heartbeatOutcome(f, t, known, s, ttl)
<1>1. Abstract!TargetsIn(f) = TargetsIn(f) /\ UnknownRecord \in TargetsIn(f)
  BY DEF Abstract!TargetsIn, TargetsIn, Abstract!OwnRecords, OwnRecords, Abstract!UnknownRecord, UnknownRecord
<1>2. CASE target \in TargetsIn(f)
  BY <1>1, <1>2
<1>3. CASE target \notin TargetsIn(f)
  BY <1>1, <1>3, UnknownAlike
<1> QED
  BY <1>2, <1>3

\* A call takes effect: the step of ArtifactClaims is the one of its request.
LEMMA EffectIsStep ==
    ASSUME Shape, Counted, NEW s \in Session, pc[s] \in {"queued", "writing"},
           NEW t \in synced..now,
           file' = Result(file, t, s, call[s]).file,
           forced' = IF NeedsForce(file, t, s, call[s]) /\ Result(file, t, s, call[s]).kind = "write"
                     THEN forced \cup {file.next_sequence} ELSE forced,
           synced' = now, now' = now
    PROVE  Abstract!Next
<1>1. /\ call[s] \in Request /\ IsClaimsFile(file)
      /\ t \in Nat
  BY ShapeFacts
<1>2. PICK req \in Request : req = call[s]
  BY <1>1
<1>3. req.action # "claim" => UNCHANGED forced
  BY <1>2 DEF NeedsForce
<1>4. /\ file.next_sequence <= MaxCalls * Cardinality(Session)
      /\ file.next_wait_sequence <= MaxCalls * Cardinality(Session)
  <2>1. Cardinality(Done) < MaxCalls * Cardinality(Session)
    BY PlaceLeft
  <2>2. /\ Cardinality(Done) \in Nat /\ MaxCalls * Cardinality(Session) \in Nat
        /\ file.next_sequence \in Nat /\ file.next_wait_sequence \in Nat
    BY <1>1, DoneFinite, FS_CardinalityType DEF IsClaimsFile
  <2> QED
    BY <2>1, <2>2 DEF Counted
<1>5. CASE req.action = "list"
  <2>1. file' = Abstract!listOutcome(file, t).file
    BY <1>2, <1>5, ResultCases, SameList
  <2>2. Abstract!List
    BY <1>3, <1>5, <2>1 DEF Abstract!List, Abstract!Take
  <2> QED
    BY <2>2 DEF Abstract!Next
<1>6. CASE req.action = "release"
  <2>1. PICK known \in Abstract!TargetsIn(file) :
            releaseOutcome(file, t, req.target, s) = releaseOutcome(file, t, known, s)
    BY <1>1, <1>6, RequestFields, TargetTaken
  <2>2. file' = Abstract!releaseOutcome(file, t, known, s).file
    BY <1>2, <1>6, <2>1, ResultCases, SameRelease
  <2>3. Abstract!Release(s)
    BY <1>3, <1>6, <2>2 DEF Abstract!Release, Abstract!Take
  <2> QED
    BY <2>3 DEF Abstract!Next
<1>7. CASE req.action = "heartbeat"
  <2>1. req.ttl \in TTL /\ req.target \in AnyTarget
    BY <1>7, RequestFields
  <2>2. PICK known \in Abstract!TargetsIn(file) :
            heartbeatOutcome(file, t, req.target, s, req.ttl) = heartbeatOutcome(file, t, known, s, req.ttl)
    BY <1>1, <2>1, TargetTaken
  <2>3. file' = Abstract!heartbeatOutcome(file, t, known, s, req.ttl).file
    BY <1>2, <1>7, <2>2, ResultCases, SameHeartbeat
  <2>4. Abstract!Heartbeat(s)
    BY <1>3, <1>7, <2>1, <2>3 DEF Abstract!Heartbeat, Abstract!Take
  <2> QED
    BY <2>4 DEF Abstract!Next
<1>8. CASE req.action = "wait"
  <2>1. req.ttl \in TTL /\ req.ask \in Ask
    BY <1>8, RequestFields
  <2>2. file' = Abstract!waitOutcome(file, t, s, req.ask, req.ttl).file
    BY <1>2, <1>8, ResultCases, SameWait
  <2>3. Abstract!Wait(s)
    BY <1>3, <1>4, <1>8, <2>1, <2>2 DEF Abstract!Wait, Abstract!Take
  <2> QED
    BY <2>3 DEF Abstract!Next
<1>9. CASE req.action = "claim"
  <2>1. req.ttl \in TTL /\ req.ask \in Ask
    BY <1>9, RequestFields
  <2>2. PICK force \in BOOLEAN : force = req.force
    BY <1>9, RequestFields
  <2>3. file' = Abstract!claimOutcome(file, t, s, req.ask, req.ttl, force).file
    BY <1>2, <1>9, <2>2, ResultCases, SameClaim
  <2>4. NeedsForce(file, t, s, req) <=> claimOutcome(file, t, s, req.ask, req.ttl, FALSE).kind = "throw"
    BY <1>9 DEF NeedsForce
  <2>5. NeedsForce(file, t, s, req) => (Result(file, t, s, req).kind = "write" <=> req.force)
    BY <1>1, <1>9, ForceNeeded
  <2>6. Abstract!claimOutcome(file, t, s, req.ask, req.ttl, FALSE)
            = claimOutcome(file, t, s, req.ask, req.ttl, FALSE)
    BY SameClaim
  <2>7. forced' = IF Abstract!claimOutcome(file, t, s, req.ask, req.ttl, FALSE).kind = "throw" /\ force
                  THEN forced \cup {file.next_sequence} ELSE forced
    BY <1>2, <2>2, <2>4, <2>5, <2>6
  <2>8. Abstract!Claim(s)
    BY <1>4, <2>1, <2>3, <2>7 DEF Abstract!Claim, Abstract!Take
  <2> QED
    BY <2>8 DEF Abstract!Next
<1> QED
  BY <1>5, <1>6, <1>7, <1>8, <1>9, RequestFields

LEMMA StepImplements ==
    IInv /\ [Next]_vars => [Abstract!Next]_(Abstract!vars)
<1> SUFFICES ASSUME IInv, [Next]_vars, Abstract!vars' # Abstract!vars PROVE Abstract!Next
  OBVIOUS
<1>0. /\ Shape /\ UpToDate /\ Counted
      /\ now \in Nat /\ synced \in Nat /\ synced <= now
  BY ShapeFacts DEF IInv
<1>1. CASE Tick
  BY <1>1 DEF Tick, Abstract!Tick, Abstract!Next
<1>2. ASSUME NEW s \in Session, Enqueue(s) PROVE Abstract!Next
  BY <1>2 DEF Enqueue, Abstract!vars
<1>3. ASSUME NEW s \in Session, Read(s) PROVE Abstract!Next
  <2>1. /\ HoldsFile(s) /\ UNCHANGED <<file, now, forced>> /\ pc[s] = "queued"
        /\ ReadTorn(s) \/ ReadToWrite(s) \/ ReadToReturn(s) \/ ReadToThrow(s)
    BY <1>0, <1>3, ReadCases DEF HoldsFile
  <2>2. CASE ReadTorn(s) \/ ReadToWrite(s)
    BY <2>1, <2>2 DEF ReadTorn, ReadToWrite, Abstract!vars
  <2>3. CASE ReadToReturn(s) \/ ReadToThrow(s)
    <3>1. synced' = now /\ Result(file, now, s, call[s]).kind # "write"
      BY <2>3 DEF ReadToReturn, ReadToThrow, Reads
    <3>2. Result(file, now, s, call[s]).file = file
      BY <1>0, <2>1, <3>1, ShapeFacts, ResultKinds
    <3>3. now \in synced..now
      BY <1>0
    <3> QED
      BY <1>0, <2>1, <3>1, <3>2, <3>3, EffectIsStep
  <2> QED
    BY <2>1, <2>2, <2>3
<1>4. ASSUME NEW s \in Session, Truncate(s) PROVE Abstract!Next
  BY <1>4 DEF Truncate, Abstract!vars
<1>5. ASSUME NEW s \in Session, Fill(s) PROVE Abstract!Next
  <2>1. PICK t \in synced..now :
            /\ Result(file, t, s, call[s]).kind = "write"
            /\ file' = Result(file, t, s, call[s]).file
            /\ forced' = IF NeedsForce(file, t, s, call[s])
                         THEN forced \cup {file.next_sequence} ELSE forced
    BY <1>0, <1>5, FillWrites
  <2>2. synced' = now /\ now' = now /\ pc[s] = "writing"
    BY <1>5 DEF Fill
  <2> QED
    BY <1>0, <2>1, <2>2, EffectIsStep
<1>6. ASSUME NEW s \in Session, Return(s) PROVE Abstract!Next
  BY <1>6 DEF Return, Abstract!vars
<1>7. ASSUME NEW p \in Process, Crash(p) PROVE Abstract!Next
  BY <1>7 DEF Crash, Abstract!vars
<1>8. CASE UNCHANGED vars
  BY <1>8 DEF vars, Abstract!vars
<1> QED
  BY <1>1, <1>2, <1>3, <1>4, <1>5, <1>6, <1>7, <1>8, NextCases

\* In one process the lock, read, truncate and write steps of mutateChangeClaims, with
\* their crashes, are the atomic calls of ArtifactClaims: every behaviour of the one is a
\* behaviour of the other, so that whatever is proved of the atomic calls holds here.
THEOREM Implements ==
    ASSUME OneQueue
    PROVE  Spec => Abstract!Spec /\ ImplementsArtifactClaims
<1>1. Init => Abstract!Init
  BY DEF Init, Abstract!Init, EmptyFile, Abstract!EmptyFile
<1>2. IInv /\ [Next]_vars => [Abstract!Next]_(Abstract!vars)
  BY StepImplements
<1>3. IInv /\ [Next]_vars => [Abstract!vars' # Abstract!vars => Abstract!Next]_vars
  BY <1>2
<1> QED
  BY <1>1, <1>2, <1>3, InvHolds, PTL DEF Spec, Abstract!Spec, ImplementsArtifactClaims
-----------------------------------------------------------------------------
(* The queue of each process is the host's, however many processes there are. *)

\* Each place in the line of a process is a call under way there, once.
OnceInLine ==
    \A p \in Process : \A i \in DOMAIN queue[p] :
        /\ ProcessOf[queue[p][i]] = p
        /\ pc[queue[p][i]] # "idle"
        /\ \A j \in DOMAIN queue[p] : queue[p][i] = queue[p][j] => i = j

\* A step that leaves the lines and who is idle.
LEMMA StillOnce ==
    ASSUME OnceInLine, Shape, UNCHANGED queue,
           \A s \in Session : pc[s] # "idle" => pc'[s] # "idle"
    PROVE  OnceInLine'
<1>1. \A p \in Process : queue[p] \in Seq(Session)
  BY DEF Shape, TypeOK
<1>2. \A p \in Process : \A i \in DOMAIN queue[p] : queue[p][i] \in Session
  BY <1>1
<1> QED
  BY <1>2 DEF OnceInLine

LEMMA EnqueueOnce ==
    ASSUME OnceInLine, Shape, NEW s \in Session, Enqueue(s)
    PROVE  OnceInLine'
<1> SUFFICES ASSUME NEW p \in Process, NEW i \in DOMAIN queue'[p]
             PROVE  /\ ProcessOf[queue'[p][i]] = p
                    /\ pc'[queue'[p][i]] # "idle"
                    /\ \A j \in DOMAIN queue'[p] : queue'[p][i] = queue'[p][j] => i = j
  BY DEF OnceInLine
<1> DEFINE old == queue[p]
           new == queue'[p]
<1>1. /\ old \in Seq(Session)
      /\ new = IF p = ProcessOf[s] THEN Append(old, s) ELSE old
      /\ \A x \in Session : pc'[x] = IF x = s THEN "queued" ELSE pc[x]
      /\ pc[s] = "idle"
  BY ProcessOfType DEF Enqueue, Shape, TypeOK
<1>2. \A k \in DOMAIN old : /\ ProcessOf[old[k]] = p /\ pc[old[k]] # "idle" /\ old[k] \in Session
                            /\ \A j \in DOMAIN old : old[k] = old[j] => k = j
  BY <1>1 DEF OnceInLine
<1> HIDE DEF old, new
<1>3. CASE p # ProcessOf[s]
  <2>1. new = old
    BY <1>1, <1>3
  <2> QED
    BY <1>1, <1>2, <2>1 DEF new
<1>4. CASE p = ProcessOf[s]
  <2>1. /\ DOMAIN new = DOMAIN old \cup {Len(old) + 1}
        /\ \A k \in DOMAIN old : new[k] = old[k]
        /\ new[Len(old) + 1] = s
    BY <1>1, <1>4
  <2> QED
    BY <1>1, <1>2, <1>4, <2>1 DEF new
<1> QED
  BY <1>3, <1>4

LEMMA ReturnOnce ==
    ASSUME OnceInLine, Shape, InLine, NEW s \in Session, Return(s)
    PROVE  OnceInLine'
<1> SUFFICES ASSUME NEW p \in Process, NEW i \in DOMAIN queue'[p]
             PROVE  /\ ProcessOf[queue'[p][i]] = p
                    /\ pc'[queue'[p][i]] # "idle"
                    /\ \A j \in DOMAIN queue'[p] : queue'[p][i] = queue'[p][j] => i = j
  BY DEF OnceInLine
<1> DEFINE old == queue[p]
           new == queue'[p]
<1>1. /\ old \in Seq(Session)
      /\ new = IF p = ProcessOf[s] THEN Tail(old) ELSE old
      /\ \A x \in Session : pc'[x] = IF x = s THEN "idle" ELSE pc[x]
  BY ProcessOfType DEF Return, Shape, TypeOK
<1>2. \A k \in DOMAIN old : /\ ProcessOf[old[k]] = p /\ pc[old[k]] # "idle" /\ old[k] \in Session
                            /\ \A j \in DOMAIN old : old[k] = old[j] => k = j
  BY <1>1 DEF OnceInLine
<1>3. p = ProcessOf[s] => Head(old) = s /\ \E k \in DOMAIN old : old[k] = s
  BY DEF Return, InLine
<1> HIDE DEF old, new
<1>4. CASE p # ProcessOf[s]
  <2>1. new = old
    BY <1>1, <1>4
  <2> QED
    BY <1>1, <1>2, <1>4, <2>1 DEF new
<1>5. CASE p = ProcessOf[s]
  <2>1. /\ Len(old) \in Nat /\ Len(old) >= 1 /\ old # <<>>
        /\ DOMAIN old = 1..Len(old) /\ old[1] = s
    BY <1>1, <1>3, <1>5
  <2>2. /\ DOMAIN new = 1..(Len(old) - 1)
        /\ \A k \in 1..(Len(old) - 1) : new[k] = old[k + 1]
    BY <1>1, <1>5, <2>1
  <2>3. \A k \in DOMAIN new : k + 1 \in DOMAIN old /\ k + 1 # 1 /\ new[k] = old[k + 1] /\ k \in Nat
    BY <2>1, <2>2
  <2>4. 1 \in DOMAIN old
    BY <2>1
  <2>5. \A k \in DOMAIN new : new[k] # s
    BY <1>2, <2>1, <2>3, <2>4
  <2>6. \A k, j \in DOMAIN new : new[k] = new[j] => k + 1 = j + 1
    BY <1>2, <2>3
  <2>7. \A k, j \in DOMAIN new : new[k] = new[j] => k = j
    BY <2>3, <2>6
  <2>8. ASSUME NEW k \in DOMAIN new PROVE ProcessOf[new[k]] = p /\ pc'[new[k]] # "idle"
    <3>1. PICK x : x = new[k] /\ x = old[k + 1] /\ k + 1 \in DOMAIN old /\ x # s
      BY <2>3, <2>5
    <3>2. ProcessOf[x] = p /\ pc[x] # "idle" /\ x \in Session
      BY <1>2, <3>1
    <3>3. pc'[x] = pc[x]
      BY <1>1, <3>1, <3>2
    <3> QED
      BY <3>1, <3>2, <3>3
  <2> QED
    BY <2>7, <2>8 DEF new
<1> QED
  BY <1>4, <1>5

LEMMA CrashOnce ==
    ASSUME OnceInLine, Shape, NEW p \in Process, Crash(p)
    PROVE  OnceInLine'
<1>1. /\ queue' = [queue EXCEPT ![p] = <<>>]
      /\ \A s \in Session : ProcessOf[s] # p => pc'[s] = pc[s]
  BY DEF Crash
<1>2. queue \in [Process -> Seq(Session)]
  BY DEF Shape, TypeOK
<1>3. DOMAIN <<>> = {}
  OBVIOUS
<1>4. ASSUME NEW x \in Process, x # p, NEW i \in DOMAIN queue[x]
      PROVE  ProcessOf[queue[x][i]] = x /\ pc'[queue[x][i]] # "idle"
  <2>1. queue[x][i] \in Session
    BY <1>2
  <2> QED
    BY <1>1, <1>4, <2>1 DEF OnceInLine
<1>5. \A x \in Process : queue'[x] = IF x = p THEN <<>> ELSE queue[x]
  BY <1>1, <1>2
<1> QED
  BY <1>3, <1>4, <1>5 DEF OnceInLine

LEMMA NextOnce == Shape /\ InLine /\ OnceInLine /\ [Next]_vars => OnceInLine'
<1> SUFFICES ASSUME Shape, InLine, OnceInLine, [Next]_vars PROVE OnceInLine'
  OBVIOUS
<1>0. pc \in [Session -> {"idle", "queued", "write", "writing", "return", "failed"}]
  BY ShapeFacts
<1>1. CASE Tick
  BY <1>1, StillOnce DEF Tick
<1>2. ASSUME NEW s \in Session, Enqueue(s) PROVE OnceInLine'
  BY <1>2, EnqueueOnce
<1>3. ASSUME NEW s \in Session, Read(s) PROVE OnceInLine'
  <2>1. /\ UNCHANGED queue
        /\ ReadTorn(s) \/ ReadToWrite(s) \/ ReadToReturn(s) \/ ReadToThrow(s)
    BY <1>3, ReadCases
  <2>2. PICK step \in {"write", "return", "failed"} : pc' = [pc EXCEPT ![s] = step]
    BY <2>1 DEF ReadTorn, ReadToWrite, ReadToReturn, ReadToThrow
  <2> QED
    BY <1>0, <2>1, <2>2, StillOnce
<1>4. ASSUME NEW s \in Session, Truncate(s) \/ Fill(s) PROVE OnceInLine'
  <2>1. UNCHANGED queue /\ \E step \in {"writing", "return"} : pc' = [pc EXCEPT ![s] = step]
    BY <1>4 DEF Truncate, Fill
  <2>2. PICK step \in {"writing", "return"} : pc' = [pc EXCEPT ![s] = step]
    BY <2>1
  <2> QED
    BY <1>0, <2>1, <2>2, StillOnce
<1>5. ASSUME NEW s \in Session, Return(s) PROVE OnceInLine'
  BY <1>5, ReturnOnce
<1>6. ASSUME NEW p \in Process, Crash(p) PROVE OnceInLine'
  BY <1>6, CrashOnce
<1>7. CASE UNCHANGED vars
  BY <1>7 DEF vars, OnceInLine
<1> QED
  BY <1>1, <1>2, <1>3, <1>4, <1>5, <1>6, <1>7, NextCases

\* A call that is at the file is the only one of its process, and heads its line.
LEMMA AtFileAlone ==
    ASSUME Shape, InLine, NEW s \in Session, pc[s] \notin {"idle", "queued"}
    PROVE  /\ ProcessOf[s] \in Process /\ Host!AtHead(s, ProcessOf[s])
           /\ AtFile[ProcessOf[s]] = {s}
<1>1. ProcessOf[s] \in Process
  BY ProcessOfType
<1>2. Head(queue[ProcessOf[s]]) = s /\ \E i \in DOMAIN queue[ProcessOf[s]] : queue[ProcessOf[s]][i] = s
  BY DEF InLine
<1>3. queue[ProcessOf[s]] # <<>>
  BY <1>2
<1>4. s \in AtFile[ProcessOf[s]]
  BY <1>1, ShapeFacts DEF AtFile
<1>5. \A t \in AtFile[ProcessOf[s]] : t = s
  BY <1>1, AtHead DEF AtFile
<1> QED
  BY <1>1, <1>2, <1>3, <1>4, <1>5 DEF Host!AtHead

\* A step by which the call s goes on from one phase to another.
LEMMA AtFileMoves ==
    ASSUME Shape, NEW s \in Session, NEW step, pc' = [pc EXCEPT ![s] = step]
    PROVE  \A p \in Process :
              AtFile'[p] = IF p # ProcessOf[s] THEN AtFile[p]
                           ELSE IF step \in {"write", "writing", "return", "failed"} THEN AtFile[p] \cup {s}
                           ELSE AtFile[p] \ {s}
<1> SUFFICES ASSUME NEW p \in Process
             PROVE  AtFile'[p] = IF p # ProcessOf[s] THEN AtFile[p]
                                 ELSE IF step \in {"write", "writing", "return", "failed"} THEN AtFile[p] \cup {s}
                                 ELSE AtFile[p] \ {s}
  OBVIOUS
<1> DEFINE old == AtFile[p]
           new == AtFile'[p]
<1>1. old \subseteq Session /\ new \subseteq Session
  BY DEF AtFile
<1>2. \A t \in Session :
          t \in new <=> IF t = s THEN ProcessOf[s] = p /\ step \in {"write", "writing", "return", "failed"}
                        ELSE t \in old
  BY DEF AtFile, Shape, TypeOK
<1>3. p # ProcessOf[s] => s \notin old
  BY DEF AtFile
<1> HIDE DEF old, new
<1>4. CASE p # ProcessOf[s]
  BY <1>1, <1>2, <1>3, <1>4 DEF old, new
<1>5. CASE p = ProcessOf[s] /\ step \in {"write", "writing", "return", "failed"}
  <2>1. new = old \cup {s}
    BY <1>1, <1>2, <1>5
  <2> QED
    BY <1>5, <2>1 DEF old, new
<1>6. CASE p = ProcessOf[s] /\ step \notin {"write", "writing", "return", "failed"}
  <2>1. new = old \ {s}
    BY <1>1, <1>2, <1>6
  <2> QED
    BY <1>6, <2>1 DEF old, new
<1> QED
  BY <1>4, <1>5, <1>6

LEMMA AtFileSets ==
    /\ AtFile = [p \in Process |-> AtFile[p]] /\ \A p \in Process : AtFile[p] \subseteq Session
    /\ AtFile' = [p \in Process |-> AtFile'[p]] /\ \A p \in Process : AtFile'[p] \subseteq Session
  BY DEF AtFile

LEMMA EnqueueServes ==
    ASSUME Shape, OnceInLine, NEW s \in Session, Enqueue(s)
    PROVE  Host!Next
<1>1. /\ pc[s] = "idle" /\ pc' = [pc EXCEPT ![s] = "queued"]
      /\ queue' = [queue EXCEPT ![ProcessOf[s]] = Append(@, s)]
  BY DEF Enqueue
<1>2. ProcessOf[s] \in Process
  BY ProcessOfType
<1>3. \A p \in Process : s \notin AtFile[p]
  BY <1>1 DEF AtFile
<1>4. \A p \in Process : AtFile'[p] = AtFile[p]
  <2> SUFFICES ASSUME NEW p \in Process PROVE AtFile'[p] = AtFile[p]
    OBVIOUS
  <2>1. AtFile'[p] = IF p # ProcessOf[s] THEN AtFile[p] ELSE AtFile[p] \ {s}
    <3>1. PICK step : step = "queued" /\ step \notin {"write", "writing", "return", "failed"}
      OBVIOUS
    <3> QED
      BY <1>1, <3>1, AtFileMoves
  <2> QED
    BY <1>3, <2>1
<1>5. AtFile' = AtFile
  BY <1>4, AtFileSets, Zenon
<1>6. \A i \in DOMAIN queue[ProcessOf[s]] : queue[ProcessOf[s]][i] # s
  BY <1>1, <1>2 DEF OnceInLine
<1>7. Host!Join(s, ProcessOf[s])
  BY <1>1, <1>5, <1>6 DEF Host!Join
<1> QED
  BY <1>2, <1>7 DEF Host!Next

LEMMA ReadServes ==
    ASSUME Shape, InLine, NEW s \in Session, Read(s)
    PROVE  Host!Next
<1>1. /\ HoldsFile(s) /\ UNCHANGED queue
      /\ ReadTorn(s) \/ ReadToWrite(s) \/ ReadToReturn(s) \/ ReadToThrow(s)
  BY ReadCases
<1>2. PICK step \in {"write", "return", "failed"} : pc' = [pc EXCEPT ![s] = step]
  BY <1>1 DEF ReadTorn, ReadToWrite, ReadToReturn, ReadToThrow
<1>3. PICK p \in Process : p = ProcessOf[s]
  BY ProcessOfType
<1>4. Host!AtHead(s, p)
  <2>1. pc[s] = "queued" /\ Head(queue[p]) = s
    BY <1>1, <1>3 DEF HoldsFile
  <2>2. queue[p] # <<>>
    BY <1>3, <2>1 DEF InLine
  <2> QED
    BY <2>1, <2>2 DEF Host!AtHead
<1>5. \A t \in AtFile[p] : t = s
  BY <1>1, <1>3, AtHead DEF AtFile
<1>6. \A x \in Process : AtFile'[x] = IF x \in {p} THEN {s} ELSE AtFile[x]
  <2>1. \A x \in Process : AtFile'[x] = IF x # ProcessOf[s] THEN AtFile[x] ELSE AtFile[x] \cup {s}
    BY <1>2, AtFileMoves
  <2> QED
    BY <1>3, <1>5, <2>1
<1>7. AtFile' = [x \in Process |-> IF x \in {p} THEN {s} ELSE AtFile[x]]
  BY <1>6, AtFileSets
<1>8. Host!Begin(s, {p})
  BY <1>1, <1>4, <1>7 DEF Host!Begin
<1> QED
  BY <1>8 DEF Host!Next

LEMMA WriteServes ==
    ASSUME Shape, InLine, NEW s \in Session, Truncate(s) \/ Fill(s)
    PROVE  Host!vars' = Host!vars
<1>1. /\ UNCHANGED queue /\ pc[s] \in {"write", "writing"}
      /\ \E step \in {"writing", "return"} : pc' = [pc EXCEPT ![s] = step]
  BY DEF Truncate, Fill
<1>2. PICK step \in {"writing", "return"} : pc' = [pc EXCEPT ![s] = step]
  BY <1>1
<1>3. \A p \in Process : s \in AtFile[p] <=> ProcessOf[s] = p
  BY <1>1 DEF AtFile
<1>4. \A p \in Process : AtFile'[p] = AtFile[p]
  <2> SUFFICES ASSUME NEW p \in Process PROVE AtFile'[p] = AtFile[p]
    OBVIOUS
  <2>1. AtFile'[p] = IF p # ProcessOf[s] THEN AtFile[p] ELSE AtFile[p] \cup {s}
    BY <1>2, AtFileMoves
  <2> QED
    BY <1>3, <2>1
<1>5. AtFile' = AtFile
  BY <1>4, AtFileSets, Zenon
<1> QED
  BY <1>1, <1>5 DEF Host!vars

LEMMA ReturnServes ==
    ASSUME Shape, InLine, NEW s \in Session, Return(s)
    PROVE  Host!Next
<1>1. /\ pc[s] \in {"return", "failed"} /\ pc' = [pc EXCEPT ![s] = "idle"]
      /\ queue' = [queue EXCEPT ![ProcessOf[s]] = Tail(@)]
  BY DEF Return
<1>2. PICK p \in Process : p = ProcessOf[s]
  BY ProcessOfType
<1>3. Host!AtHead(s, p) /\ AtFile[p] = {s}
  BY <1>1, <1>2, AtFileAlone
<1>4. \A x \in Process : AtFile'[x] = IF x = p THEN {} ELSE AtFile[x]
  <2>1. \A x \in Process : AtFile'[x] = IF x # ProcessOf[s] THEN AtFile[x] ELSE AtFile[x] \ {s}
    <3>1. PICK step : step = "idle" /\ step \notin {"write", "writing", "return", "failed"}
      OBVIOUS
    <3>2. pc' = [pc EXCEPT ![s] = step]
      BY <1>1, <3>1
    <3> QED
      BY <3>1, <3>2, AtFileMoves
  <2> QED
    BY <1>2, <1>3, <2>1
<1>5. AtFile' = [AtFile EXCEPT ![p] = {}]
  BY <1>4, AtFileSets
<1>6. Host!Leave(s, p)
  BY <1>1, <1>2, <1>3, <1>5 DEF Host!Leave
<1> QED
  BY <1>6 DEF Host!Next

LEMMA CrashServes ==
    ASSUME NEW p \in Process, Crash(p)
    PROVE  Host!Next
<1>1. /\ queue' = [queue EXCEPT ![p] = <<>>]
      /\ pc' = [s \in Session |-> IF ProcessOf[s] = p THEN "idle" ELSE pc[s]]
  BY DEF Crash
<1>2. AtFile' = [AtFile EXCEPT ![p] = {}]
  BY <1>1 DEF AtFile
<1>3. Host!Die(p)
  BY <1>1, <1>2 DEF Host!Die
<1> QED
  BY <1>3 DEF Host!Next

LEMMA StepServes ==
    Shape /\ InLine /\ OnceInLine /\ [Next]_vars => [Host!Next]_(Host!vars)
<1> SUFFICES ASSUME Shape, InLine, OnceInLine, [Next]_vars, Host!vars' # Host!vars PROVE Host!Next
  OBVIOUS
<1>1. CASE Tick
  BY <1>1 DEF Tick, Host!vars, AtFile
<1>2. ASSUME NEW s \in Session, Enqueue(s) PROVE Host!Next
  BY <1>2, EnqueueServes
<1>3. ASSUME NEW s \in Session, Read(s) PROVE Host!Next
  BY <1>3, ReadServes
<1>4. ASSUME NEW s \in Session, Truncate(s) \/ Fill(s) PROVE Host!Next
  BY <1>4, WriteServes
<1>5. ASSUME NEW s \in Session, Return(s) PROVE Host!Next
  BY <1>5, ReturnServes
<1>6. ASSUME NEW p \in Process, Crash(p) PROVE Host!Next
  BY <1>6, CrashServes
<1>7. CASE UNCHANGED vars
  BY <1>7 DEF vars, Host!vars, AtFile
<1> QED
  BY <1>1, <1>2, <1>3, <1>4, <1>5, <1>6, <1>7, NextCases

\* Each process serves its calls of mutateChangeClaims as the host's queue for one file
\* does, in any number of processes, whatever the calls come to and whenever one dies:
\* the queue this specification assumes is the one withLockedPaths gives its callers.
THEOREM ServesInTurn == Spec => Host!Spec /\ ImplementsHostQueue
<1>1. Init => Host!Init /\ OnceInLine
  <2>1. DOMAIN <<>> = {}
    OBVIOUS
  <2> QED
    BY <2>1 DEF Init, Host!Init, AtFile, OnceInLine
<1>2. Shape /\ InLine /\ OnceInLine /\ [Next]_vars => [Host!Next]_(Host!vars)
  BY StepServes
<1>3. Shape /\ InLine /\ OnceInLine /\ [Next]_vars => [Host!vars' # Host!vars => Host!Next]_vars
  BY <1>2
<1>4. Spec => [](Shape /\ InLine /\ OnceInLine)
  BY <1>1, LineHolds, NextOnce, PTL DEF Spec
<1> QED
  BY <1>1, <1>2, <1>3, <1>4, PTL DEF Spec, Host!Spec, ImplementsHostQueue
=============================================================================
