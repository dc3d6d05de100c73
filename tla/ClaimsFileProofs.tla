-------------------------- MODULE ClaimsFileProofs --------------------------
(***************************************************************************)
(* Facts about the pure functions of ClaimsFile, for every vocabulary of   *)
(* scopes, sessions and lifetimes: each of them takes a well-formed queue  *)
(* file to a well-formed one, and only ends claims, never makes one        *)
(* active, changes its owner, its mode or its scopes; and what is written  *)
(* leaves waiters pending for a reason and ready but for the newest claim. *)
(***************************************************************************)
EXTENDS ClaimsFile, FiniteSetTheorems, SequenceTheorems, WellFoundedInduction, TLAPS

\* Every claim of g was in f, with the same owner, mode and scopes, and is active in g
\* only if it was in f.
Descends(f, g) ==
    /\ DOMAIN g.claims \subseteq DOMAIN f.claims
    /\ \A i \in DOMAIN g.claims :
        /\ g.claims[i].session = f.claims[i].session
        /\ g.claims[i].mode = f.claims[i].mode
        /\ g.claims[i].scopes = f.claims[i].scopes
        /\ g.claims[i].status = "active" => f.claims[i].status = "active"

\* No two claims marked active conflict, but for those that force let in.
Exclusive(f, forced) ==
    \A i, j \in DOMAIN f.claims :
        /\ i < j
        /\ f.claims[i].status = "active" /\ f.claims[j].status = "active"
        /\ Conflicting(f.claims[i], f.claims[j])
        => j \in forced

-----------------------------------------------------------------------------
(* Overlap and conflict look the same from both sides.                      *)

\* scopesOverlap(left, right) and scopesOverlap(right, left) agree, whatever the scopes.
THEOREM OverlapCommutes ==
    ASSUME NEW left, NEW right
    PROVE  scopesOverlap(left, right) <=> scopesOverlap(right, left)
<1>1. pathsOverlap(left.path, right.path) <=> pathsOverlap(right.path, left.path)
  BY DEF pathsOverlap
<1>2. /\ {left.task_id, right.task_id} = {right.task_id, left.task_id}
      /\ {left.ref, right.ref} = {right.ref, left.ref}
      /\ {left.path, right.path} = {right.path, left.path}
  OBVIOUS
<1> QED
  BY <1>1, <1>2 DEF scopesOverlap

LEMMA ConflictCommutes ==
    ASSUME NEW left, NEW right, Conflicting(left, right)
    PROVE  Conflicting(right, left)
<1>1. PICK p \in (left.scopes \X right.scopes) \cap Touching : TRUE
  BY DEF Conflicting, scopesMeet
<1>2. PICK a \in left.scopes, b \in right.scopes : p = <<a, b>>
  BY <1>1
<1>3. a \in Scope /\ b \in Scope /\ scopesOverlap(a, b)
  BY <1>1, <1>2 DEF Touching
<1>4. scopesOverlap(b, a)
  BY <1>3, OverlapCommutes
<1>5. <<b, a>> \in (right.scopes \X left.scopes) \cap Touching
  BY <1>2, <1>3, <1>4 DEF Touching
<1> QED
  BY <1>5 DEF Conflicting, scopesMeet

-----------------------------------------------------------------------------
(* Well-formed files.                                                       *)

LEMMA EmptyFileType == IsClaimsFile(EmptyFile)
  BY DEF EmptyFile, IsClaimsFile, IsArrayOf

\* What replacing the two arrays, with no new ids, does to a file.
LEMMA ClaimsReplaced ==
    ASSUME NEW f, IsClaimsFile(f), NEW c, IsArrayOf(c, ClaimRecord),
           DOMAIN c \subseteq DOMAIN f.claims
    PROVE  /\ IsClaimsFile([f EXCEPT !.claims = c])
           /\ [f EXCEPT !.claims = c].claims = c
           /\ [f EXCEPT !.claims = c].waiters = f.waiters
           /\ [f EXCEPT !.claims = c].next_sequence = f.next_sequence
           /\ [f EXCEPT !.claims = c].next_wait_sequence = f.next_wait_sequence
  BY DEF IsClaimsFile

LEMMA WaitersReplaced ==
    ASSUME NEW f, IsClaimsFile(f), NEW w, IsArrayOf(w, WaiterRecord),
           DOMAIN w \subseteq DOMAIN f.waiters
    PROVE  /\ IsClaimsFile([f EXCEPT !.waiters = w])
           /\ [f EXCEPT !.waiters = w].claims = f.claims
           /\ [f EXCEPT !.waiters = w].waiters = w
           /\ [f EXCEPT !.waiters = w].next_sequence = f.next_sequence
           /\ [f EXCEPT !.waiters = w].next_wait_sequence = f.next_wait_sequence
  BY DEF IsClaimsFile

\* What adding the record of the next id does to a file.
LEMMA WaiterAdded ==
    ASSUME NEW f, IsClaimsFile(f), NEW w, IsArrayOf(w, WaiterRecord),
           DOMAIN w = DOMAIN f.waiters \cup {f.next_wait_sequence}
    PROVE  /\ IsClaimsFile([f EXCEPT !.waiters = w, !.next_wait_sequence = @ + 1])
           /\ [f EXCEPT !.waiters = w, !.next_wait_sequence = @ + 1].claims = f.claims
           /\ [f EXCEPT !.waiters = w, !.next_wait_sequence = @ + 1].waiters = w
           /\ [f EXCEPT !.waiters = w, !.next_wait_sequence = @ + 1].next_sequence = f.next_sequence
           /\ [f EXCEPT !.waiters = w, !.next_wait_sequence = @ + 1].next_wait_sequence
                = f.next_wait_sequence + 1
<1> DEFINE g == [claims |-> f.claims, waiters |-> w, next_sequence |-> f.next_sequence,
                 next_wait_sequence |-> f.next_wait_sequence + 1]
<1>1. [f EXCEPT !.waiters = w, !.next_wait_sequence = @ + 1] = g
  <2> DEFINE h == [claims |-> f.claims, waiters |-> w, next_sequence |-> f.next_sequence,
                 next_wait_sequence |-> f.next_wait_sequence]
  <2>1. [f EXCEPT !.waiters = w] = h
    BY DEF IsClaimsFile
  <2>2. [h EXCEPT !.next_wait_sequence = @ + 1] = g
    OBVIOUS
  <2>3. [f EXCEPT !.waiters = w, !.next_wait_sequence = @ + 1]
            = [[f EXCEPT !.waiters = w] EXCEPT !.next_wait_sequence = @ + 1]
    OBVIOUS
  <2> HIDE DEF g, h
  <2> QED
    BY <2>1, <2>2, <2>3
<1>2. /\ g = [claims |-> g.claims, waiters |-> g.waiters, next_sequence |-> g.next_sequence,
              next_wait_sequence |-> g.next_wait_sequence]
      /\ g.claims = f.claims /\ g.waiters = w
      /\ g.next_sequence = f.next_sequence /\ g.next_wait_sequence = f.next_wait_sequence + 1
  OBVIOUS
<1>3. IsArrayOf(g.claims, ClaimRecord) /\ IsArrayOf(g.waiters, WaiterRecord)
  BY <1>2 DEF IsClaimsFile
<1>4. /\ g.next_sequence \in Nat \ {0} /\ g.next_wait_sequence \in Nat \ {0}
      /\ \A i \in DOMAIN g.claims : i < g.next_sequence
      /\ \A i \in DOMAIN g.waiters : i < g.next_wait_sequence
  BY <1>2 DEF IsClaimsFile, IsArrayOf
<1>5. IsClaimsFile(g)
  <2> HIDE DEF g
  <2> QED
    BY <1>2, <1>3, <1>4 DEF IsClaimsFile
<1> QED
  BY <1>1, <1>2, <1>5

LEMMA ClaimAdded ==
    ASSUME NEW f, IsClaimsFile(f), NEW c, IsArrayOf(c, ClaimRecord),
           DOMAIN c = DOMAIN f.claims \cup {f.next_sequence}
    PROVE  /\ IsClaimsFile([f EXCEPT !.claims = c, !.next_sequence = @ + 1])
           /\ [f EXCEPT !.claims = c, !.next_sequence = @ + 1].claims = c
           /\ [f EXCEPT !.claims = c, !.next_sequence = @ + 1].waiters = f.waiters
           /\ [f EXCEPT !.claims = c, !.next_sequence = @ + 1].next_sequence = f.next_sequence + 1
           /\ [f EXCEPT !.claims = c, !.next_sequence = @ + 1].next_wait_sequence
                = f.next_wait_sequence
<1> DEFINE g == [claims |-> c, waiters |-> f.waiters, next_sequence |-> f.next_sequence + 1,
                 next_wait_sequence |-> f.next_wait_sequence]
<1>1. [f EXCEPT !.claims = c, !.next_sequence = @ + 1] = g
  <2> DEFINE h == [claims |-> c, waiters |-> f.waiters, next_sequence |-> f.next_sequence,
                 next_wait_sequence |-> f.next_wait_sequence]
  <2>1. [f EXCEPT !.claims = c] = h
    BY DEF IsClaimsFile
  <2>2. [h EXCEPT !.next_sequence = @ + 1] = g
    OBVIOUS
  <2>3. [f EXCEPT !.claims = c, !.next_sequence = @ + 1]
            = [[f EXCEPT !.claims = c] EXCEPT !.next_sequence = @ + 1]
    OBVIOUS
  <2> HIDE DEF g, h
  <2> QED
    BY <2>1, <2>2, <2>3
<1>2. /\ g = [claims |-> g.claims, waiters |-> g.waiters, next_sequence |-> g.next_sequence,
              next_wait_sequence |-> g.next_wait_sequence]
      /\ g.claims = c /\ g.waiters = f.waiters
      /\ g.next_sequence = f.next_sequence + 1 /\ g.next_wait_sequence = f.next_wait_sequence
  OBVIOUS
<1>3. IsArrayOf(g.claims, ClaimRecord) /\ IsArrayOf(g.waiters, WaiterRecord)
  BY <1>2 DEF IsClaimsFile
<1>4. /\ g.next_sequence \in Nat \ {0} /\ g.next_wait_sequence \in Nat \ {0}
      /\ \A i \in DOMAIN g.claims : i < g.next_sequence
      /\ \A i \in DOMAIN g.waiters : i < g.next_wait_sequence
  BY <1>2 DEF IsClaimsFile, IsArrayOf
<1>5. IsClaimsFile(g)
  <2> HIDE DEF g
  <2> QED
    BY <1>2, <1>3, <1>4 DEF IsClaimsFile
<1> QED
  BY <1>1, <1>2, <1>5

\* A file whose counters are ahead of its ids is its own normalisation.
LEMMA NormalizeType ==
    ASSUME NEW f, IsClaimsFile(f)
    PROVE  normalizeClaimsFile(f) = f
<1>1. ASSUME NEW n \in Nat, NEW D, D \subseteq Nat, \A i \in D : i < n
      PROVE  Max({n} \cup {i + 1 : i \in D}) = n
  <2> DEFINE S == {n} \cup {i + 1 : i \in D}
  <2>1. n \in S /\ \A y \in S : n >= y
    BY <1>1
  <2>2. \A x \in S : (\A y \in S : x >= y) => x = n
    BY <2>1, <1>1
  <2> QED
    BY <2>1, <2>2 DEF Max
<1>2. Max({f.next_sequence} \cup {i + 1 : i \in DOMAIN f.claims}) = f.next_sequence
  BY <1>1 DEF IsClaimsFile, IsArrayOf
<1>3. Max({f.next_wait_sequence} \cup {i + 1 : i \in DOMAIN f.waiters}) = f.next_wait_sequence
  BY <1>1 DEF IsClaimsFile, IsArrayOf
<1> QED
  BY <1>2, <1>3 DEF normalizeClaimsFile, IsClaimsFile

-----------------------------------------------------------------------------
(* Each pass over the arrays keeps the file well formed and only ends       *)
(* claims.                                                                  *)

LEMMA DescendsReflexive ==
    ASSUME NEW f
    PROVE  Descends(f, f)
  BY DEF Descends

LEMMA DescendsTransitive ==
    ASSUME NEW f, NEW g, NEW h, Descends(f, g), Descends(g, h)
    PROVE  Descends(f, h)
  BY DEF Descends

LEMMA DescendsExclusive ==
    ASSUME NEW f, NEW g, NEW forced, Descends(f, g), Exclusive(f, forced)
    PROVE  Exclusive(g, forced)
  BY DEF Descends, Exclusive, Conflicting

LEMMA MarkExpiredType ==
    ASSUME NEW f, IsClaimsFile(f), NEW now \in Nat
    PROVE  /\ IsClaimsFile(markExpired(f, now))
           /\ Descends(f, markExpired(f, now))
           /\ \A i \in DOMAIN f.claims :
                markExpired(f, now).claims[i].status = "active" => isClaimActive(f.claims[i], now)
<1> DEFINE c == [i \in DOMAIN f.claims |->
                    IF f.claims[i].status = "active" /\ ~isClaimActive(f.claims[i], now)
                    THEN [f.claims[i] EXCEPT !.status = "expired"] ELSE f.claims[i]]
           w == [i \in DOMAIN f.waiters |->
                    IF f.waiters[i].status \in {"pending", "ready"} /\ ~isClaimWaiterActive(f.waiters[i], now)
                    THEN [f.waiters[i] EXCEPT !.status = "expired"] ELSE f.waiters[i]]
           g == [f EXCEPT !.claims = c]
<1>1. IsArrayOf(c, ClaimRecord) /\ DOMAIN c = DOMAIN f.claims
  BY DEF IsClaimsFile, IsArrayOf, ClaimRecord
<1>2. IsArrayOf(w, WaiterRecord) /\ DOMAIN w = DOMAIN f.waiters
  BY DEF IsClaimsFile, IsArrayOf, WaiterRecord
<1>3. \A i \in DOMAIN f.claims :
        /\ c[i].session = f.claims[i].session
        /\ c[i].mode = f.claims[i].mode
        /\ c[i].scopes = f.claims[i].scopes
        /\ c[i].status = "active" => isClaimActive(f.claims[i], now)
  BY DEF IsClaimsFile, IsArrayOf, ClaimRecord
<1>4. markExpired(f, now) = [g EXCEPT !.waiters = w]
  BY DEF markExpired
<1> HIDE DEF c, w
<1>5. IsClaimsFile(g) /\ g.claims = c /\ g.waiters = f.waiters
  BY <1>1, ClaimsReplaced
<1> HIDE DEF g
<1>6. IsClaimsFile([g EXCEPT !.waiters = w]) /\ [g EXCEPT !.waiters = w].claims = c
  BY <1>2, <1>5, WaitersReplaced
<1> QED
  BY <1>1, <1>3, <1>4, <1>6 DEF Descends, isClaimActive

LEMMA RefreshType ==
    ASSUME NEW f, IsClaimsFile(f), NEW now \in Nat
    PROVE  /\ IsClaimsFile(refreshWaiters(f, now))
           /\ refreshWaiters(f, now).claims = f.claims
<1> DEFINE w == [i \in DOMAIN f.waiters |->
                    IF f.waiters[i].status \in {"pending", "ready"}
                    THEN refreshedWaiter(f.waiters[i], f.claims, now) ELSE f.waiters[i]]
<1>1. ASSUME NEW i \in DOMAIN f.waiters
      PROVE  refreshedWaiter(f.waiters[i], f.claims, now) \in WaiterRecord
  <2>1. f.waiters[i] \in WaiterRecord
    BY DEF IsClaimsFile, IsArrayOf
  <2>2. blockingClaimIdsForWaiter(f.waiters[i], f.claims, now) \subseteq Nat
    BY DEF blockingClaimIdsForWaiter, IsClaimsFile, IsArrayOf
  <2> QED
    BY <2>1, <2>2 DEF refreshedWaiter, WaiterRecord
<1>2. IsArrayOf(w, WaiterRecord) /\ DOMAIN w = DOMAIN f.waiters
  BY <1>1 DEF IsClaimsFile, IsArrayOf
<1>3. refreshWaiters(f, now) = [f EXCEPT !.waiters = w]
  BY DEF refreshWaiters
<1> HIDE DEF w
<1> QED
  BY <1>2, <1>3, WaitersReplaced

\* What every action starts from: only live claims are still marked active.
LEMMA OpenedType ==
    ASSUME NEW f, IsClaimsFile(f), NEW now \in Nat
    PROVE  /\ IsClaimsFile(opened(f, now))
           /\ Descends(f, opened(f, now))
           /\ \A i \in DOMAIN opened(f, now).claims :
                opened(f, now).claims[i].status = "active" => isClaimActive(f.claims[i], now)
<1>1. opened(f, now) = refreshWaiters(markExpired(f, now), now)
  BY NormalizeType DEF opened
<1>2. /\ IsClaimsFile(opened(f, now))
      /\ opened(f, now).claims = markExpired(f, now).claims
  BY <1>1, MarkExpiredType, RefreshType
<1>3. DOMAIN opened(f, now).claims \subseteq DOMAIN f.claims
  BY <1>2, MarkExpiredType DEF Descends
<1> QED
  BY <1>2, <1>3, MarkExpiredType DEF Descends

\* Opening a file leaves its counter, and only live claims, with their old end, active.
LEMMA OpenedCounter ==
    ASSUME NEW f, IsClaimsFile(f), NEW now \in Nat
    PROVE  opened(f, now).next_sequence = f.next_sequence
<1>1. opened(f, now) = refreshWaiters(markExpired(f, now), now)
  BY NormalizeType DEF opened
<1> QED
  BY <1>1 DEF refreshWaiters, markExpired, IsClaimsFile

LEMMA OpenedLive ==
    ASSUME NEW f, IsClaimsFile(f), NEW now \in Nat,
           NEW i \in DOMAIN opened(f, now).claims, opened(f, now).claims[i].status = "active"
    PROVE  isClaimActive(opened(f, now).claims[i], now)
<1>1. opened(f, now) = refreshWaiters(markExpired(f, now), now)
  BY NormalizeType DEF opened
<1>2. opened(f, now).claims = markExpired(f, now).claims
  BY <1>1, MarkExpiredType, RefreshType
<1>3. i \in DOMAIN f.claims /\ f.claims[i] \in ClaimRecord
  BY OpenedType DEF Descends, IsClaimsFile, IsArrayOf
<1>4. markExpired(f, now).claims[i] =
        IF f.claims[i].status = "active" /\ ~isClaimActive(f.claims[i], now)
        THEN [f.claims[i] EXCEPT !.status = "expired"] ELSE f.claims[i]
  BY <1>3 DEF markExpired, IsClaimsFile
<1> QED
  BY <1>2, <1>3, <1>4 DEF ClaimRecord, isClaimActive

\* newest(m) keeps some of the ids.
LEMMA WriteType ==
    ASSUME NEW f, IsClaimsFile(f)
    PROVE  IsClaimsFile(writeClaimsFile(f)) /\ Descends(f, writeClaimsFile(f))
<1> DEFINE c == Restrict(f.claims, newest(f.claims))
           w == Restrict(f.waiters, newest(f.waiters))
           g == [f EXCEPT !.claims = c]
<1>1. newest(f.claims) \subseteq DOMAIN f.claims /\ newest(f.waiters) \subseteq DOMAIN f.waiters
  BY DEF newest
<1>2. /\ IsArrayOf(c, ClaimRecord) /\ DOMAIN c \subseteq DOMAIN f.claims
      /\ \A i \in DOMAIN c : c[i] = f.claims[i]
  BY <1>1 DEF Restrict, IsClaimsFile, IsArrayOf
<1>3. IsArrayOf(w, WaiterRecord) /\ DOMAIN w \subseteq DOMAIN f.waiters
  BY <1>1 DEF Restrict, IsClaimsFile, IsArrayOf
<1>4. writeClaimsFile(f) = [g EXCEPT !.waiters = w]
  BY DEF writeClaimsFile
<1> HIDE DEF c, w
<1>5. IsClaimsFile(g) /\ g.claims = c /\ g.waiters = f.waiters
  BY <1>2, ClaimsReplaced
<1> HIDE DEF g
<1>6. IsClaimsFile([g EXCEPT !.waiters = w]) /\ [g EXCEPT !.waiters = w].claims = c
  BY <1>3, <1>5, WaitersReplaced
<1> QED
  BY <1>2, <1>4, <1>6 DEF Descends

LEMMA ReleaseType ==
    ASSUME NEW f, IsClaimsFile(f), NEW target, NEW session
    PROVE  /\ IsClaimsFile(releaseClaims(f, target, session))
           /\ Descends(f, releaseClaims(f, target, session))
<1> DEFINE c == [i \in DOMAIN f.claims |->
                    IF f.claims[i].status = "active" /\ Targets(f.claims[i], "claim", i, target, session)
                    THEN [f.claims[i] EXCEPT !.status = "released"] ELSE f.claims[i]]
<1>1. IsArrayOf(c, ClaimRecord) /\ DOMAIN c = DOMAIN f.claims
  BY DEF IsClaimsFile, IsArrayOf, ClaimRecord
<1>2. \A i \in DOMAIN f.claims :
        /\ c[i].session = f.claims[i].session
        /\ c[i].mode = f.claims[i].mode
        /\ c[i].scopes = f.claims[i].scopes
        /\ c[i].status = "active" => f.claims[i].status = "active"
  BY DEF IsClaimsFile, IsArrayOf, ClaimRecord
<1>3. releaseClaims(f, target, session) = [f EXCEPT !.claims = c]
  BY DEF releaseClaims
<1> HIDE DEF c
<1> QED
  BY <1>1, <1>2, <1>3, ClaimsReplaced DEF Descends

LEMMA CancelType ==
    ASSUME NEW f, IsClaimsFile(f), NEW target, NEW session
    PROVE  /\ IsClaimsFile(cancelWaiters(f, target, session))
           /\ cancelWaiters(f, target, session).claims = f.claims
<1> DEFINE w == [i \in DOMAIN f.waiters |->
                    IF f.waiters[i].status \in {"pending", "ready"}
                        /\ Targets(f.waiters[i], "wait", i, target, session)
                    THEN [f.waiters[i] EXCEPT !.status = "cancelled"] ELSE f.waiters[i]]
<1>1. IsArrayOf(w, WaiterRecord) /\ DOMAIN w = DOMAIN f.waiters
  BY DEF IsClaimsFile, IsArrayOf, WaiterRecord
<1>2. cancelWaiters(f, target, session) = [f EXCEPT !.waiters = w]
  BY DEF cancelWaiters
<1> HIDE DEF w
<1> QED
  BY <1>1, <1>2, WaitersReplaced

LEMMA HeartbeatClaimsType ==
    ASSUME NEW f, IsClaimsFile(f), NEW target, NEW session, NEW expires \in Nat
    PROVE  /\ IsClaimsFile(heartbeatClaims(f, target, session, expires))
           /\ Descends(f, heartbeatClaims(f, target, session, expires))
<1> DEFINE c == [i \in DOMAIN f.claims |->
                    IF f.claims[i].status = "active" /\ Targets(f.claims[i], "claim", i, target, session)
                    THEN [f.claims[i] EXCEPT !.expires = expires] ELSE f.claims[i]]
<1>1. IsArrayOf(c, ClaimRecord) /\ DOMAIN c = DOMAIN f.claims
  BY DEF IsClaimsFile, IsArrayOf, ClaimRecord
<1>2. \A i \in DOMAIN f.claims :
        /\ c[i].session = f.claims[i].session
        /\ c[i].mode = f.claims[i].mode
        /\ c[i].scopes = f.claims[i].scopes
        /\ c[i].status = "active" => f.claims[i].status = "active"
  BY DEF IsClaimsFile, IsArrayOf, ClaimRecord
<1>3. heartbeatClaims(f, target, session, expires) = [f EXCEPT !.claims = c]
  BY DEF heartbeatClaims
<1> HIDE DEF c
<1> QED
  BY <1>1, <1>2, <1>3, ClaimsReplaced DEF Descends

LEMMA HeartbeatWaitersType ==
    ASSUME NEW f, IsClaimsFile(f), NEW target, NEW session, NEW expires \in Nat
    PROVE  /\ IsClaimsFile(heartbeatWaiters(f, target, session, expires))
           /\ heartbeatWaiters(f, target, session, expires).claims = f.claims
<1> DEFINE w == [i \in DOMAIN f.waiters |->
                    IF f.waiters[i].status \in {"pending", "ready"}
                        /\ Targets(f.waiters[i], "wait", i, target, session)
                    THEN [f.waiters[i] EXCEPT !.expires = expires] ELSE f.waiters[i]]
<1>1. IsArrayOf(w, WaiterRecord) /\ DOMAIN w = DOMAIN f.waiters
  BY DEF IsClaimsFile, IsArrayOf, WaiterRecord
<1>2. heartbeatWaiters(f, target, session, expires) = [f EXCEPT !.waiters = w]
  BY DEF heartbeatWaiters
<1> HIDE DEF w
<1> QED
  BY <1>1, <1>2, WaitersReplaced

-----------------------------------------------------------------------------
(* The outcomes: a call leaves the file as it was, or writes one that       *)
(* descends from the opened file, with at most one new claim.               *)

LEMMA ListOutcomeType ==
    ASSUME NEW f, IsClaimsFile(f), NEW t \in Nat
    PROVE  /\ IsClaimsFile(listOutcome(f, t).file)
           /\ listOutcome(f, t).file = f \/ Descends(opened(f, t), listOutcome(f, t).file)
  BY OpenedType, WriteType DEF listOutcome, Write, Leave

LEMMA ReleaseOutcomeType ==
    ASSUME NEW f, IsClaimsFile(f), NEW t \in Nat, NEW target, NEW session
    PROVE  /\ IsClaimsFile(releaseOutcome(f, t, target, session).file)
           /\ \/ releaseOutcome(f, t, target, session).file = f
              \/ Descends(opened(f, t), releaseOutcome(f, t, target, session).file)
<1> DEFINE read == opened(f, t)
           freed == releaseClaims(read, target, session)
           cancelled == cancelWaiters(freed, target, session)
           released == refreshWaiters(cancelled, t)
<1>1. IsClaimsFile(read)
  BY OpenedType
<1>2. IsClaimsFile(freed) /\ Descends(read, freed)
  BY <1>1, ReleaseType
<1>3. IsClaimsFile(cancelled) /\ cancelled.claims = freed.claims
  BY <1>2, CancelType
<1>4. IsClaimsFile(released) /\ released.claims = freed.claims
  BY <1>3, RefreshType
<1>5. Descends(read, released)
  BY <1>2, <1>4 DEF Descends
<1>6. IsClaimsFile(writeClaimsFile(released)) /\ Descends(read, writeClaimsFile(released))
  BY <1>4, <1>5, WriteType, DescendsTransitive
<1>7. releaseOutcome(f, t, target, session).file \in {f, writeClaimsFile(released)}
  BY DEF releaseOutcome, Write, Leave
<1> QED
  BY <1>6, <1>7

LEMMA HeartbeatOutcomeType ==
    ASSUME NEW f, IsClaimsFile(f), NEW t \in Nat, NEW target, NEW session, NEW ttl \in TTL
    PROVE  /\ IsClaimsFile(heartbeatOutcome(f, t, target, session, ttl).file)
           /\ \/ heartbeatOutcome(f, t, target, session, ttl).file = f
              \/ Descends(opened(f, t), heartbeatOutcome(f, t, target, session, ttl).file)
<1> DEFINE read == opened(f, t)
           beaten == heartbeatClaims(read, target, session, t + ttl)
           extended == heartbeatWaiters(beaten, target, session, t + ttl)
           fresh == refreshWaiters(extended, t)
<1>1. IsClaimsFile(read) /\ t + ttl \in Nat
  BY OpenedType, TTLType
<1>2. IsClaimsFile(beaten) /\ Descends(read, beaten)
  BY <1>1, HeartbeatClaimsType
<1>3. IsClaimsFile(extended) /\ extended.claims = beaten.claims
  BY <1>1, <1>2, HeartbeatWaitersType
<1>4. IsClaimsFile(fresh) /\ fresh.claims = beaten.claims
  BY <1>3, RefreshType
<1>5. Descends(read, fresh)
  BY <1>2, <1>4 DEF Descends
<1>6. IsClaimsFile(writeClaimsFile(fresh)) /\ Descends(read, writeClaimsFile(fresh))
  BY <1>4, <1>5, WriteType, DescendsTransitive
<1>7. heartbeatOutcome(f, t, target, session, ttl).file \in {f, writeClaimsFile(fresh)}
  BY DEF heartbeatOutcome, Write, Leave
<1> QED
  BY <1>6, <1>7

LEMMA WaitOutcomeType ==
    ASSUME NEW f, IsClaimsFile(f), NEW t \in Nat, NEW session \in Session, NEW ask \in Ask, NEW ttl \in TTL
    PROVE  /\ IsClaimsFile(waitOutcome(f, t, session, ask, ttl).file)
           /\ Descends(opened(f, t), waitOutcome(f, t, session, ask, ttl).file)
<1> DEFINE read == opened(f, t)
           bare == [session |-> session, status |-> "pending", mode |-> ask.mode, scopes |-> ask.scopes,
                    expires |-> t + ttl, blocked_by |-> {}]
           waiter == refreshedWaiter(bare, read.claims, t)
           n == read.next_wait_sequence
           w == [i \in DOMAIN read.waiters \cup {n} |-> IF i = n THEN waiter ELSE read.waiters[i]]
           queued == [read EXCEPT !.waiters = w, !.next_wait_sequence = @ + 1]
<1>1. IsClaimsFile(read)
  BY OpenedType
<1>2. waiter \in WaiterRecord
  <2>1. bare \in WaiterRecord
    BY AskType, TTLType DEF WaiterRecord, Mode
  <2>2. blockingClaimIdsForWaiter(bare, read.claims, t) \subseteq Nat
    BY <1>1 DEF blockingClaimIdsForWaiter, IsClaimsFile, IsArrayOf
  <2> HIDE DEF bare
  <2> QED
    BY <2>1, <2>2 DEF refreshedWaiter, WaiterRecord
<1>3. n \in Nat \ {0} /\ \A i \in DOMAIN read.waiters : i < n
  BY <1>1 DEF IsClaimsFile
<1>4. IsArrayOf(w, WaiterRecord) /\ DOMAIN w = DOMAIN read.waiters \cup {n}
  <2> HIDE DEF waiter
  <2> QED
    BY <1>1, <1>2, <1>3 DEF IsClaimsFile, IsArrayOf
<1>5. waitOutcome(f, t, session, ask, ttl).file = writeClaimsFile(queued)
  BY DEF waitOutcome, Write
<1> HIDE DEF w
<1>6. IsClaimsFile(queued) /\ queued.claims = read.claims
  BY <1>1, <1>4, WaiterAdded
<1>7. Descends(read, queued)
  BY <1>6 DEF Descends
<1> QED
  BY <1>5, <1>6, <1>7, WriteType, DescendsTransitive

\* What a caller of the queue may ask for, of which Ask is a part.
AnyAsk == [mode : Mode, scopes : SUBSET Scope]

LEMMA AskIsAnyAsk == Ask \subseteq AnyAsk
  BY AskType DEF AnyAsk, Mode

\* A claim that goes through is active, under the next id, and conflicts with a live one
\* only if it was forced past it.
LEMMA ClaimOutcomeType ==
    ASSUME NEW f, IsClaimsFile(f), NEW t \in Nat, NEW session \in Session,
           NEW ask \in AnyAsk, NEW ttl \in TTL, NEW force \in BOOLEAN, NEW forced,
           Exclusive(opened(f, t), forced),
           claimOutcome(f, t, session, ask, ttl, FALSE).kind = "throw" /\ force
                => f.next_sequence \in forced
    PROVE  /\ IsClaimsFile(claimOutcome(f, t, session, ask, ttl, force).file)
           /\ \/ claimOutcome(f, t, session, ask, ttl, force).file = f
              \/ Exclusive(claimOutcome(f, t, session, ask, ttl, force).file, forced)
<1> DEFINE read == opened(f, t)
           candidate == [session |-> session, status |-> "active", mode |-> ask.mode,
                         scopes |-> ask.scopes, expires |-> t + ttl]
           n == read.next_sequence
           c == [i \in DOMAIN read.claims \cup {n} |-> IF i = n THEN candidate ELSE read.claims[i]]
           conflict == blockingClaimIdsForWaiter(candidate, read.claims, t) # {}
           added == [read EXCEPT !.claims = c, !.next_sequence = @ + 1]
<1>1. IsClaimsFile(read)
  BY OpenedType
<1>2. candidate \in ClaimRecord
  BY TTLType DEF ClaimRecord, Mode, AnyAsk
<1>3. n \in Nat \ {0} /\ \A i \in DOMAIN read.claims : i < n
  BY <1>1 DEF IsClaimsFile
<1>4. IsArrayOf(c, ClaimRecord) /\ DOMAIN c = DOMAIN read.claims \cup {n}
  <2> HIDE DEF candidate
  <2> QED
    BY <1>1, <1>2, <1>3 DEF IsClaimsFile, IsArrayOf
<1>5. claimOutcome(f, t, session, ask, ttl, force) =
        IF conflict /\ ~force THEN Throw(f) ELSE Write(added)
  BY DEF claimOutcome
<1>6. conflict => claimOutcome(f, t, session, ask, ttl, FALSE).kind = "throw"
  BY DEF claimOutcome, Throw
<1>7. n = f.next_sequence
  BY OpenedCounter
<1>8. IsClaimsFile(added) /\ added.claims = c
  BY <1>1, <1>4, ClaimAdded
<1>9. CASE conflict /\ ~force
  BY <1>5, <1>9 DEF Throw
<1>10. CASE ~(conflict /\ ~force)
  <2>1. Exclusive(added, forced)
    <3> SUFFICES ASSUME NEW i \in DOMAIN c, NEW j \in DOMAIN c, i < j,
                        c[i].status = "active", c[j].status = "active",
                        Conflicting(c[i], c[j])
                 PROVE  j \in forced
      BY <1>8 DEF Exclusive
    <3>1. i \in DOMAIN read.claims /\ c[i] = read.claims[i]
      <4>1. j \in DOMAIN read.claims \cup {n} /\ i \in DOMAIN read.claims \cup {n}
        BY <1>4
      <4>2. j \in Nat /\ j <= n
        BY <1>1, <1>3, <4>1 DEF IsClaimsFile, IsArrayOf
      <4>3. i # n
        BY <1>3, <4>2
      <4> QED
        BY <4>1, <4>3
    <3>2. CASE j = n
      <4>1. c[j] = candidate
        BY <3>2
      <4>2. Conflicting(candidate, read.claims[i])
        BY <3>1, <4>1, ConflictCommutes
      <4>3. isClaimActive(read.claims[i], t)
        BY <3>1, OpenedLive
      <4>4. conflict
        BY <3>1, <4>2, <4>3 DEF blockingClaimIdsForWaiter
      <4> QED
        BY <1>6, <1>7, <1>10, <3>2, <4>4
    <3>3. CASE j # n
      <4>1. j \in DOMAIN read.claims /\ c[j] = read.claims[j]
        BY <1>4, <3>3
      <4> QED
        BY <3>1, <4>1 DEF Exclusive
    <3> QED
      BY <3>2, <3>3
  <2>2. IsClaimsFile(writeClaimsFile(added)) /\ Exclusive(writeClaimsFile(added), forced)
    BY <1>8, <2>1, WriteType, DescendsExclusive
  <2> QED
    BY <1>5, <1>10, <2>2 DEF Write
<1> QED
  BY <1>9, <1>10

-----------------------------------------------------------------------------
(* Exclusion at a moment of the clock.                                      *)

\* Exclusion among the claims that are live at time t.
ExclusiveAt(f, t, past) ==
    \A i, j \in DOMAIN f.claims :
        /\ i < j
        /\ isClaimActive(f.claims[i], t) /\ isClaimActive(f.claims[j], t)
        /\ Conflicting(f.claims[i], f.claims[j])
        => j \in past

\* Exclusion at one moment is exclusion at every later one.
LEMMA ExclusiveLater ==
    ASSUME NEW f, IsClaimsFile(f), NEW s \in Nat, NEW t \in Nat, s <= t, NEW past,
           ExclusiveAt(f, s, past)
    PROVE  ExclusiveAt(f, t, past)
<1>1. \A i \in DOMAIN f.claims : f.claims[i].expires \in Nat
  BY DEF IsClaimsFile, IsArrayOf, ClaimRecord
<1>2. \A i \in DOMAIN f.claims : isClaimActive(f.claims[i], t) => isClaimActive(f.claims[i], s)
  BY <1>1 DEF isClaimActive
<1> QED
  BY <1>2 DEF ExclusiveAt

\* Exclusion by status is exclusion at any moment.
LEMMA ExclusiveByStatus ==
    ASSUME NEW f, NEW t, NEW past, Exclusive(f, past)
    PROVE  ExclusiveAt(f, t, past)
  BY DEF Exclusive, ExclusiveAt, isClaimActive

\* Opening the file at t marks every claim that is not live then, so that exclusion at
\* t becomes exclusion by status.
LEMMA OpenedExclusive ==
    ASSUME NEW f, IsClaimsFile(f), NEW t \in Nat, NEW past, ExclusiveAt(f, t, past)
    PROVE  Exclusive(opened(f, t), past)
<1> DEFINE g == opened(f, t)
<1>1. /\ Descends(f, g)
      /\ \A i \in DOMAIN g.claims : g.claims[i].status = "active" => isClaimActive(f.claims[i], t)
  BY OpenedType
<1> HIDE DEF g
<1>2. Exclusive(g, past)
  BY <1>1 DEF Descends, Exclusive, ExclusiveAt, Conflicting
<1> QED
  BY <1>2 DEF g

LEMMA MoreForced ==
    ASSUME NEW f, NEW t, NEW past, NEW more, past \subseteq more, ExclusiveAt(f, t, past)
    PROVE  ExclusiveAt(f, t, more)
  BY DEF ExclusiveAt

-----------------------------------------------------------------------------
(* What becomes of the waiters.                                             *)

\* Waiters that have ended in f are the same in g.
EndedStay(f, g) ==
    \A w \in DOMAIN f.waiters :
        /\ w \in DOMAIN g.waiters
        /\ f.waiters[w].status \in {"cancelled", "expired"} => g.waiters[w] = f.waiters[w]

\* At t every pending waiter names claims of f that do block it, and a ready one is
\* blocked by none, unless by the newest.
Settled(f, t) ==
    \A w \in DOMAIN f.waiters :
        /\ f.waiters[w].status = "pending" =>
            /\ f.waiters[w].blocked_by # {}
            /\ \A i \in f.waiters[w].blocked_by :
                  /\ i \in DOMAIN f.claims /\ f.claims[i].status = "active"
                  /\ Conflicting(f.waiters[w], f.claims[i])
        /\ f.waiters[w].status = "ready" =>
              blockingClaimIdsForWaiter(f.waiters[w], f.claims, t) \subseteq {f.next_sequence - 1}

\* A file just refreshed at t: no ready waiter is blocked at all.
ReadyFree(f, t) ==
    \A w \in DOMAIN f.waiters :
        f.waiters[w].status = "ready" => blockingClaimIdsForWaiter(f.waiters[w], f.claims, t) = {}

LEMMA EndedStayTransitive ==
    ASSUME NEW f, NEW g, NEW h, EndedStay(f, g), EndedStay(g, h)
    PROVE  EndedStay(f, h)
  BY DEF EndedStay

\* The waiters a pass leaves alone: any function of the records that keeps ended ones.
LEMMA PassKeepsEnded ==
    ASSUME NEW f, NEW g, DOMAIN g.waiters = DOMAIN f.waiters,
           \A w \in DOMAIN f.waiters :
                f.waiters[w].status \notin {"pending", "ready"} => g.waiters[w] = f.waiters[w]
    PROVE  EndedStay(f, g)
  BY DEF EndedStay

\* blocked_by and status are of no account for who blocks a waiter.
LEMMA RefreshedBlockers ==
    ASSUME NEW w \in WaiterRecord, NEW claims, IsArrayOf(claims, ClaimRecord), NEW t
    PROVE  LET r == refreshedWaiter(w, claims, t)
               blockers == blockingClaimIdsForWaiter(w, claims, t)
           IN  /\ r.session = w.session /\ r.mode = w.mode /\ r.scopes = w.scopes
               /\ r.blocked_by = blockers
               /\ r.status = IF blockers = {} THEN "ready" ELSE "pending"
               /\ blockingClaimIdsForWaiter(r, claims, t) = blockers
<1> DEFINE r == refreshedWaiter(w, claims, t)
           blockers == blockingClaimIdsForWaiter(w, claims, t)
<1>1. /\ r.session = w.session /\ r.mode = w.mode /\ r.scopes = w.scopes
      /\ r.blocked_by = blockers
      /\ r.status = IF blockers = {} THEN "ready" ELSE "pending"
  BY DEF refreshedWaiter, WaiterRecord
<1> HIDE DEF r
<1>2. \A i \in DOMAIN claims : Conflicting(r, claims[i]) <=> Conflicting(w, claims[i])
  BY <1>1 DEF Conflicting
<1>3. blockingClaimIdsForWaiter(r, claims, t) = blockers
  BY <1>2 DEF blockingClaimIdsForWaiter
<1> QED
  BY <1>1, <1>3 DEF r

LEMMA RefreshSettles ==
    ASSUME NEW f, IsClaimsFile(f), NEW t \in Nat
    PROVE  /\ Settled(refreshWaiters(f, t), t)
           /\ ReadyFree(refreshWaiters(f, t), t)
           /\ EndedStay(f, refreshWaiters(f, t))
<1> DEFINE g == refreshWaiters(f, t)
<1>1. /\ DOMAIN g.waiters = DOMAIN f.waiters /\ g.claims = f.claims
      /\ \A w \in DOMAIN f.waiters : g.waiters[w] = IF f.waiters[w].status \in {"pending", "ready"}
                                                    THEN refreshedWaiter(f.waiters[w], f.claims, t)
                                                    ELSE f.waiters[w]
  BY DEF refreshWaiters, IsClaimsFile
<1>2. IsArrayOf(f.claims, ClaimRecord) /\ \A w \in DOMAIN f.waiters : f.waiters[w] \in WaiterRecord
  BY DEF IsClaimsFile, IsArrayOf
<1> HIDE DEF g
<1>3. ASSUME NEW w \in DOMAIN f.waiters, g.waiters[w].status \in {"pending", "ready"}
      PROVE  /\ g.waiters[w].blocked_by = blockingClaimIdsForWaiter(g.waiters[w], g.claims, t)
             /\ g.waiters[w].status = "ready" <=> g.waiters[w].blocked_by = {}
  <2>1. f.waiters[w].status \in {"pending", "ready"}
    BY <1>1, <1>3
  <2>2. g.waiters[w] = refreshedWaiter(f.waiters[w], f.claims, t)
    BY <1>1, <2>1
  <2> QED
    BY <1>1, <1>2, <2>2, RefreshedBlockers
<1>4. ReadyFree(g, t)
  BY <1>1, <1>3 DEF ReadyFree
<1>6. Settled(g, t)
  BY <1>1, <1>3 DEF Settled, blockingClaimIdsForWaiter, isClaimActive
<1>5. EndedStay(f, g)
  BY <1>1, PassKeepsEnded
<1> QED
  BY <1>4, <1>5, <1>6 DEF g

LEMMA OpenedSettles ==
    ASSUME NEW f, IsClaimsFile(f), NEW t \in Nat
    PROVE  /\ Settled(opened(f, t), t) /\ ReadyFree(opened(f, t), t)
           /\ EndedStay(f, opened(f, t))
<1>1. opened(f, t) = refreshWaiters(markExpired(f, t), t)
  BY NormalizeType DEF opened
<1>2. EndedStay(f, markExpired(f, t))
  BY PassKeepsEnded DEF markExpired, IsClaimsFile
<1>3. IsClaimsFile(markExpired(f, t))
  BY MarkExpiredType
<1> QED
  BY <1>1, <1>2, <1>3, RefreshSettles, EndedStayTransitive

LEMMA CancelKeepsEnded ==
    ASSUME NEW f, IsClaimsFile(f), NEW target, NEW session
    PROVE  EndedStay(f, cancelWaiters(f, target, session))
  BY PassKeepsEnded DEF cancelWaiters, IsClaimsFile

LEMMA HeartbeatKeepsEnded ==
    ASSUME NEW f, IsClaimsFile(f), NEW target, NEW session, NEW expires
    PROVE  EndedStay(f, heartbeatWaiters(f, target, session, expires))
  BY PassKeepsEnded DEF heartbeatWaiters, IsClaimsFile

-----------------------------------------------------------------------------
(* What becomes of each claim, and of the counters.                         *)

\* The claim `claim` once a call has read it at clock t: over if its time has passed.
Aged(claim, t) ==
    IF claim.status = "active" /\ ~isClaimActive(claim, t)
    THEN [claim EXCEPT !.status = "expired"] ELSE claim

\* Opening a file ages its claims and leaves both counters.
LEMMA OpenedClaims ==
    ASSUME NEW f, IsClaimsFile(f), NEW t \in Nat
    PROVE  /\ opened(f, t).claims = [i \in DOMAIN f.claims |-> Aged(f.claims[i], t)]
           /\ opened(f, t).next_sequence = f.next_sequence
           /\ opened(f, t).next_wait_sequence = f.next_wait_sequence
<1>1. opened(f, t) = refreshWaiters(markExpired(f, t), t)
  BY NormalizeType DEF opened
<1>2. markExpired(f, t).claims = [i \in DOMAIN f.claims |-> Aged(f.claims[i], t)]
  BY DEF markExpired, Aged, IsClaimsFile
<1>3. opened(f, t).claims = markExpired(f, t).claims
  BY <1>1, MarkExpiredType, RefreshType
<1>4. /\ opened(f, t).next_sequence = f.next_sequence
      /\ opened(f, t).next_wait_sequence = f.next_wait_sequence
  BY <1>1 DEF refreshWaiters, markExpired, IsClaimsFile
<1> QED
  BY <1>2, <1>3, <1>4

\* Until more than Keep claims have been made, slice(-200) drops none of them.
LEMMA NothingCut ==
    ASSUME NEW f, IsClaimsFile(f), f.next_sequence <= Keep + 1
    PROVE  writeClaimsFile(f).claims = f.claims
<1>1. Keep \in Nat \ {0} /\ f.next_sequence \in Nat /\ DOMAIN f.claims \subseteq 1..Keep
  BY KeepType DEF IsClaimsFile, IsArrayOf
<1>2. ASSUME NEW i \in DOMAIN f.claims
      PROVE  Cardinality({j \in DOMAIN f.claims : j > i}) < Keep
  <2>1. {j \in DOMAIN f.claims : j > i} \subseteq 1..Keep
    BY <1>1
  <2>2. IsFiniteSet(1..Keep) /\ Cardinality(1..Keep) = Keep
    <3>1. Keep \in Int /\ Keep > 0
      BY <1>1
    <3>2. IsFiniteSet(1..Keep) /\ Cardinality(1..Keep) = IF 1 > Keep THEN 0 ELSE Keep - 1 + 1
      BY <3>1, FS_Interval
    <3> QED
      BY <3>1, <3>2
  <2>3. i \in 1..Keep /\ i \notin {j \in DOMAIN f.claims : j > i}
    BY <1>1
  <2> QED
    <3> DEFINE later == {j \in DOMAIN f.claims : j > i}
    <3>1. later \in SUBSET (1..Keep) /\ later # 1..Keep
      BY <2>1, <2>3
    <3> HIDE DEF later
    <3>2. IsFiniteSet(later) /\ Cardinality(later) <= Keep /\ Cardinality(later) # Keep
      BY <2>2, <3>1, FS_Subset
    <3>3. Cardinality(later) \in Nat
      BY <3>2, FS_CardinalityType
    <3>4. Cardinality(later) < Keep
      BY <1>1, <3>2, <3>3
    <3> QED
      BY <3>4 DEF later
<1>3. newest(f.claims) = DOMAIN f.claims
  BY <1>2 DEF newest
<1>4. Restrict(f.claims, DOMAIN f.claims) = f.claims
  BY DEF Restrict, IsClaimsFile, IsArrayOf
<1> QED
  BY <1>3, <1>4 DEF writeClaimsFile, IsClaimsFile

\* Writing leaves the counters.
LEMMA WriteCounters ==
    ASSUME NEW f, IsClaimsFile(f)
    PROVE  /\ writeClaimsFile(f).next_sequence = f.next_sequence
           /\ writeClaimsFile(f).next_wait_sequence = f.next_wait_sequence
  BY DEF writeClaimsFile, IsClaimsFile

\* g is what the call hands to writeClaimsFile: well formed, with these claims, and with
\* so many more claims and waiters made than f.
Drafted(f, g, claims, made, queued) ==
    /\ IsClaimsFile(g)
    /\ g.claims = claims
    /\ g.next_sequence = f.next_sequence + made
    /\ g.next_wait_sequence = f.next_wait_sequence + queued

LEMMA ListDraft ==
    ASSUME NEW f, IsClaimsFile(f), NEW t \in Nat
    PROVE  \E g : /\ Drafted(f, g, [i \in DOMAIN f.claims |-> Aged(f.claims[i], t)], 0, 0)
                  /\ Settled(g, t) /\ EndedStay(f, g)
                  /\ listOutcome(f, t) \in {Leave(f), Write(g)}
<1>1. f.next_sequence \in Nat /\ f.next_wait_sequence \in Nat
  BY DEF IsClaimsFile
<1>2. Drafted(f, opened(f, t), [i \in DOMAIN f.claims |-> Aged(f.claims[i], t)], 0, 0)
  BY <1>1, OpenedType, OpenedClaims DEF Drafted
<1> QED
  BY <1>2, OpenedSettles DEF listOutcome

\* The claim after a release that may reach it.
Freed(claim, i, target, session) ==
    IF claim.status = "active" /\ Targets(claim, "claim", i, target, session)
    THEN [claim EXCEPT !.status = "released"] ELSE claim

LEMMA ReleaseDraft ==
    ASSUME NEW f, IsClaimsFile(f), NEW t \in Nat, NEW target, NEW session
    PROVE  \E g : /\ Drafted(f, g, [i \in DOMAIN f.claims |->
                                        Freed(Aged(f.claims[i], t), i, target, session)], 0, 0)
                  /\ Settled(g, t) /\ EndedStay(f, g)
                  /\ releaseOutcome(f, t, target, session) \in {Leave(f), Write(g)}
<1> DEFINE read == opened(f, t)
           freed == releaseClaims(read, target, session)
           cancelled == cancelWaiters(freed, target, session)
           released == refreshWaiters(cancelled, t)
<1>1. /\ IsClaimsFile(read)
      /\ read.claims = [i \in DOMAIN f.claims |-> Aged(f.claims[i], t)]
      /\ read.next_sequence = f.next_sequence /\ read.next_wait_sequence = f.next_wait_sequence
      /\ EndedStay(f, read)
  BY OpenedType, OpenedClaims, OpenedSettles
<1>2. releaseOutcome(f, t, target, session) \in {Leave(f), Write(released)}
  BY DEF releaseOutcome
<1> HIDE DEF read
<1>3. /\ IsClaimsFile(freed)
      /\ freed.claims = [i \in DOMAIN read.claims |-> Freed(read.claims[i], i, target, session)]
      /\ freed.next_sequence = read.next_sequence /\ freed.next_wait_sequence = read.next_wait_sequence
      /\ freed.waiters = read.waiters
  <2>1. IsClaimsFile(freed)
    BY <1>1, ReleaseType
  <2> QED
    BY <1>1, <2>1 DEF releaseClaims, Freed, IsClaimsFile
<1> HIDE DEF freed
<1>4. /\ IsClaimsFile(cancelled) /\ cancelled.claims = freed.claims
      /\ cancelled.next_sequence = freed.next_sequence
      /\ cancelled.next_wait_sequence = freed.next_wait_sequence
      /\ EndedStay(freed, cancelled)
  <2>1. /\ IsClaimsFile(cancelled) /\ cancelled.claims = freed.claims
        /\ EndedStay(freed, cancelled)
    BY <1>3, CancelType, CancelKeepsEnded
  <2> QED
    BY <1>3, <2>1 DEF cancelWaiters, IsClaimsFile
<1> HIDE DEF cancelled
<1>5. /\ IsClaimsFile(released) /\ released.claims = cancelled.claims
      /\ released.next_sequence = cancelled.next_sequence
      /\ released.next_wait_sequence = cancelled.next_wait_sequence
      /\ Settled(released, t) /\ EndedStay(cancelled, released)
  <2>1. /\ IsClaimsFile(released) /\ released.claims = cancelled.claims
        /\ Settled(released, t) /\ EndedStay(cancelled, released)
    BY <1>4, RefreshType, RefreshSettles
  <2> QED
    BY <1>4, <2>1 DEF refreshWaiters, IsClaimsFile
<1> HIDE DEF released
<1>6. f.next_sequence \in Nat /\ f.next_wait_sequence \in Nat
  BY DEF IsClaimsFile
<1>7. released.claims = [i \in DOMAIN f.claims |-> Freed(Aged(f.claims[i], t), i, target, session)]
  BY <1>1, <1>3, <1>4, <1>5
<1>8. Drafted(f, released, [i \in DOMAIN f.claims |-> Freed(Aged(f.claims[i], t), i, target, session)], 0, 0)
  BY <1>1, <1>3, <1>4, <1>5, <1>6, <1>7 DEF Drafted
<1>9. EndedStay(f, released)
  <2>1. EndedStay(f, freed)
    BY <1>1, <1>3 DEF EndedStay
  <2> QED
    BY <2>1, <1>4, <1>5, EndedStayTransitive
<1> QED
  BY <1>2, <1>5, <1>8, <1>9

\* The claim after a heartbeat that may reach it.
Prolonged(claim, i, target, session, expires) ==
    IF claim.status = "active" /\ Targets(claim, "claim", i, target, session)
    THEN [claim EXCEPT !.expires = expires] ELSE claim

LEMMA HeartbeatDraft ==
    ASSUME NEW f, IsClaimsFile(f), NEW t \in Nat, NEW target, NEW session, NEW ttl \in TTL
    PROVE  \E g : /\ Drafted(f, g, [i \in DOMAIN f.claims |->
                                Prolonged(Aged(f.claims[i], t), i, target, session, t + ttl)], 0, 0)
                  /\ Settled(g, t) /\ EndedStay(f, g)
                  /\ heartbeatOutcome(f, t, target, session, ttl) \in {Leave(f), Write(g)}
<1> DEFINE read == opened(f, t)
           beaten == heartbeatClaims(read, target, session, t + ttl)
           extended == heartbeatWaiters(beaten, target, session, t + ttl)
           fresh == refreshWaiters(extended, t)
<1>1. /\ IsClaimsFile(read)
      /\ read.claims = [i \in DOMAIN f.claims |-> Aged(f.claims[i], t)]
      /\ read.next_sequence = f.next_sequence /\ read.next_wait_sequence = f.next_wait_sequence
      /\ t + ttl \in Nat /\ EndedStay(f, read)
  BY OpenedType, OpenedClaims, OpenedSettles, TTLType
<1>2. heartbeatOutcome(f, t, target, session, ttl) \in {Leave(f), Write(fresh)}
  BY DEF heartbeatOutcome
<1> HIDE DEF read
<1>3. /\ IsClaimsFile(beaten)
      /\ beaten.claims = [i \in DOMAIN read.claims |-> Prolonged(read.claims[i], i, target, session, t + ttl)]
      /\ beaten.next_sequence = read.next_sequence /\ beaten.next_wait_sequence = read.next_wait_sequence
      /\ beaten.waiters = read.waiters
  <2>1. IsClaimsFile(beaten)
    BY <1>1, HeartbeatClaimsType
  <2> QED
    BY <1>1, <2>1 DEF heartbeatClaims, Prolonged, IsClaimsFile
<1> HIDE DEF beaten
<1>4. /\ IsClaimsFile(extended) /\ extended.claims = beaten.claims
      /\ extended.next_sequence = beaten.next_sequence
      /\ extended.next_wait_sequence = beaten.next_wait_sequence
      /\ EndedStay(beaten, extended)
  <2>1. /\ IsClaimsFile(extended) /\ extended.claims = beaten.claims
        /\ EndedStay(beaten, extended)
    BY <1>1, <1>3, HeartbeatWaitersType, HeartbeatKeepsEnded
  <2> QED
    BY <1>3, <2>1 DEF heartbeatWaiters, IsClaimsFile
<1> HIDE DEF extended
<1>5. /\ IsClaimsFile(fresh) /\ fresh.claims = extended.claims
      /\ fresh.next_sequence = extended.next_sequence
      /\ fresh.next_wait_sequence = extended.next_wait_sequence
      /\ Settled(fresh, t) /\ EndedStay(extended, fresh)
  <2>1. /\ IsClaimsFile(fresh) /\ fresh.claims = extended.claims
        /\ Settled(fresh, t) /\ EndedStay(extended, fresh)
    BY <1>4, RefreshType, RefreshSettles
  <2> QED
    BY <1>4, <2>1 DEF refreshWaiters, IsClaimsFile
<1> HIDE DEF fresh
<1>6. f.next_sequence \in Nat /\ f.next_wait_sequence \in Nat
  BY DEF IsClaimsFile
<1>7. fresh.claims = [i \in DOMAIN f.claims |-> Prolonged(Aged(f.claims[i], t), i, target, session, t + ttl)]
  BY <1>1, <1>3, <1>4, <1>5
<1>8. Drafted(f, fresh, [i \in DOMAIN f.claims |->
                            Prolonged(Aged(f.claims[i], t), i, target, session, t + ttl)], 0, 0)
  BY <1>1, <1>3, <1>4, <1>5, <1>6, <1>7 DEF Drafted
<1>9. EndedStay(f, fresh)
  <2>1. EndedStay(f, beaten)
    BY <1>1, <1>3 DEF EndedStay
  <2> QED
    BY <2>1, <1>4, <1>5, EndedStayTransitive
<1> QED
  BY <1>2, <1>5, <1>8, <1>9

LEMMA WaitDraft ==
    ASSUME NEW f, IsClaimsFile(f), NEW t \in Nat, NEW session \in Session, NEW ask \in Ask, NEW ttl \in TTL
    PROVE  \E g : /\ Drafted(f, g, [i \in DOMAIN f.claims |-> Aged(f.claims[i], t)], 0, 1)
                  /\ Settled(g, t) /\ EndedStay(f, g)
                  /\ waitOutcome(f, t, session, ask, ttl) = Write(g)
<1> DEFINE read == opened(f, t)
           bare == [session |-> session, status |-> "pending", mode |-> ask.mode, scopes |-> ask.scopes,
                    expires |-> t + ttl, blocked_by |-> {}]
           waiter == refreshedWaiter(bare, read.claims, t)
           n == read.next_wait_sequence
           w == [i \in DOMAIN read.waiters \cup {n} |-> IF i = n THEN waiter ELSE read.waiters[i]]
           queued == [read EXCEPT !.waiters = w, !.next_wait_sequence = @ + 1]
<1>1. IsClaimsFile(read)
  BY OpenedType
<1>2. /\ waiter \in WaiterRecord
      /\ waiter.blocked_by = blockingClaimIdsForWaiter(waiter, read.claims, t)
      /\ waiter.status = IF waiter.blocked_by = {} THEN "ready" ELSE "pending"
  <2>1. bare \in WaiterRecord
    BY AskType, TTLType DEF WaiterRecord, Mode
  <2>2. blockingClaimIdsForWaiter(bare, read.claims, t) \subseteq Nat
    BY <1>1 DEF blockingClaimIdsForWaiter, IsClaimsFile, IsArrayOf
  <2> HIDE DEF bare
  <2>3. IsArrayOf(read.claims, ClaimRecord)
    BY <1>1 DEF IsClaimsFile
  <2>4. /\ waiter.blocked_by = blockingClaimIdsForWaiter(waiter, read.claims, t)
        /\ waiter.status = IF waiter.blocked_by = {} THEN "ready" ELSE "pending"
    BY <2>1, <2>3, RefreshedBlockers
  <2>5. waiter \in WaiterRecord
    BY <2>1, <2>2 DEF refreshedWaiter, WaiterRecord
  <2> QED
    BY <2>4, <2>5
<1>3. n \in Nat \ {0} /\ \A i \in DOMAIN read.waiters : i < n
  BY <1>1 DEF IsClaimsFile
<1>4. IsArrayOf(w, WaiterRecord) /\ DOMAIN w = DOMAIN read.waiters \cup {n}
  <2> HIDE DEF waiter
  <2> QED
    BY <1>1, <1>2, <1>3 DEF IsClaimsFile, IsArrayOf
<1>5. waitOutcome(f, t, session, ask, ttl) = Write(queued)
  BY DEF waitOutcome
<1>8. \A i \in DOMAIN w : w[i] = waiter \/ (i \in DOMAIN read.waiters /\ w[i] = read.waiters[i])
  BY <1>4
<1>9. \A i \in DOMAIN read.waiters : i \in DOMAIN w /\ w[i] = read.waiters[i]
  BY <1>3, <1>4
<1> HIDE DEF w, waiter
<1>6. /\ IsClaimsFile(queued) /\ queued.claims = read.claims /\ queued.waiters = w
      /\ queued.next_sequence = read.next_sequence
      /\ queued.next_wait_sequence = read.next_wait_sequence + 1
  BY <1>1, <1>4, WaiterAdded
<1> HIDE DEF queued
<1>7. Drafted(f, queued, [i \in DOMAIN f.claims |-> Aged(f.claims[i], t)], 0, 1)
  <2>1. f.next_sequence \in Nat /\ f.next_wait_sequence \in Nat
    BY DEF IsClaimsFile
  <2>2. /\ read.claims = [i \in DOMAIN f.claims |-> Aged(f.claims[i], t)]
        /\ read.next_sequence = f.next_sequence /\ read.next_wait_sequence = f.next_wait_sequence
    BY OpenedClaims
  <2> HIDE DEF read
  <2> QED
    BY <1>6, <2>1, <2>2 DEF Drafted
<1>10. Settled(queued, t)
  <2>1. Settled(read, t)
    BY OpenedSettles
  <2>2. ASSUME NEW x \in DOMAIN w, w[x] = waiter
        PROVE  /\ w[x].status = "pending" =>
                    /\ w[x].blocked_by # {}
                    /\ \A i \in w[x].blocked_by :
                          /\ i \in DOMAIN read.claims /\ read.claims[i].status = "active"
                          /\ Conflicting(w[x], read.claims[i])
               /\ w[x].status = "ready" => blockingClaimIdsForWaiter(w[x], read.claims, t) = {}
    BY <1>2, <2>2 DEF blockingClaimIdsForWaiter, isClaimActive
  <2> HIDE DEF read
  <2> QED
    BY <1>6, <1>8, <2>1, <2>2 DEF Settled
<1>11. EndedStay(f, queued)
  <2>1. EndedStay(read, queued)
    BY <1>6, <1>9 DEF EndedStay
  <2>2. EndedStay(f, read)
    BY OpenedSettles
  <2> HIDE DEF read
  <2> QED
    BY <2>1, <2>2, EndedStayTransitive
<1> QED
  BY <1>5, <1>7, <1>10, <1>11

\* The claim a call adds, and the arrays with it.
Candidate(t, session, ask, ttl) ==
    [session |-> session, status |-> "active", mode |-> ask.mode, scopes |-> ask.scopes, expires |-> t + ttl]

WithClaim(f, t, candidate) ==
    [i \in DOMAIN f.claims \cup {f.next_sequence} |->
        IF i = f.next_sequence THEN candidate ELSE Aged(f.claims[i], t)]

LEMMA ClaimDraft ==
    ASSUME NEW f, IsClaimsFile(f), NEW t \in Nat, NEW session \in Session,
           NEW ask \in AnyAsk, NEW ttl \in TTL, NEW force \in BOOLEAN
    PROVE  \E g : /\ Drafted(f, g, WithClaim(f, t, Candidate(t, session, ask, ttl)), 1, 0)
                  /\ Settled(g, t) /\ EndedStay(f, g)
                  /\ claimOutcome(f, t, session, ask, ttl, force) \in {Throw(f), Write(g)}
                  /\ force => claimOutcome(f, t, session, ask, ttl, force) = Write(g)
<1> DEFINE read == opened(f, t)
           candidate == Candidate(t, session, ask, ttl)
           n == read.next_sequence
           c == [i \in DOMAIN read.claims \cup {n} |-> IF i = n THEN candidate ELSE read.claims[i]]
           added == [read EXCEPT !.claims = c, !.next_sequence = @ + 1]
           conflict == blockingClaimIdsForWaiter(candidate, read.claims, t) # {}
<1>1. IsClaimsFile(read)
  BY OpenedType
<1>2. candidate \in ClaimRecord
  BY TTLType DEF ClaimRecord, Mode, AnyAsk, Candidate
<1>3. n \in Nat \ {0} /\ \A i \in DOMAIN read.claims : i < n
  BY <1>1 DEF IsClaimsFile
<1>4. IsArrayOf(c, ClaimRecord) /\ DOMAIN c = DOMAIN read.claims \cup {n}
  <2> HIDE DEF candidate
  <2> QED
    BY <1>1, <1>2, <1>3 DEF IsClaimsFile, IsArrayOf
<1>5. \A v \in BOOLEAN : claimOutcome(f, t, session, ask, ttl, v) =
                            IF conflict /\ ~v THEN Throw(f) ELSE Write(added)
  BY DEF claimOutcome, Candidate
<1>8. \A i \in DOMAIN read.claims : i \in DOMAIN c /\ c[i] = read.claims[i]
  BY <1>3, <1>4
<1>9. \A i \in DOMAIN c : i = n \/ (i \in DOMAIN read.claims /\ c[i] = read.claims[i])
  BY <1>4
<1> HIDE DEF c
<1>6. /\ IsClaimsFile(added) /\ added.claims = c /\ added.waiters = read.waiters
      /\ added.next_sequence = read.next_sequence + 1
      /\ added.next_wait_sequence = read.next_wait_sequence
  BY <1>1, <1>4, ClaimAdded
<1>7. Drafted(f, added, WithClaim(f, t, candidate), 1, 0)
  <2>1. f.next_sequence \in Nat /\ f.next_wait_sequence \in Nat
    BY DEF IsClaimsFile
  <2>2. /\ read.claims = [i \in DOMAIN f.claims |-> Aged(f.claims[i], t)]
        /\ read.next_sequence = f.next_sequence /\ read.next_wait_sequence = f.next_wait_sequence
    BY OpenedClaims
  <2>3. \A i \in DOMAIN f.claims : i # f.next_sequence
    BY DEF IsClaimsFile, IsArrayOf
  <2>4. c = WithClaim(f, t, candidate)
    <3> HIDE DEF read, candidate
    <3> QED
      BY <2>2, <2>3 DEF c, WithClaim
  <2> HIDE DEF read, added
  <2> QED
    BY <1>6, <2>1, <2>2, <2>4 DEF Drafted
<1>10. Settled(added, t)
  <2>1. Settled(read, t) /\ ReadyFree(read, t)
    BY OpenedSettles
  <2>2. \A i \in DOMAIN read.claims : i < n
    BY <1>3
  <2>3. added.next_sequence - 1 = n /\ n \in Nat
    BY <1>3, <1>6
  <2> HIDE DEF read, n, added
  <2> SUFFICES ASSUME NEW w \in DOMAIN read.waiters
               PROVE  /\ read.waiters[w].status = "pending" =>
                            /\ read.waiters[w].blocked_by # {}
                            /\ \A i \in read.waiters[w].blocked_by :
                                  /\ i \in DOMAIN c /\ c[i].status = "active"
                                  /\ Conflicting(read.waiters[w], c[i])
                      /\ read.waiters[w].status = "ready" =>
                            blockingClaimIdsForWaiter(read.waiters[w], c, t) \subseteq {n}
    BY <1>6, <2>3 DEF Settled
  <2>4. CASE read.waiters[w].status = "pending"
    BY <1>8, <2>1, <2>4 DEF Settled
  <2>5. CASE read.waiters[w].status = "ready"
    <3>1. blockingClaimIdsForWaiter(read.waiters[w], read.claims, t) = {}
      BY <2>1, <2>5 DEF ReadyFree
    <3> QED
      BY <1>9, <2>5, <3>1 DEF blockingClaimIdsForWaiter
  <2> QED
    BY <2>4, <2>5
<1>11. EndedStay(f, added)
  <2>1. EndedStay(f, read)
    BY OpenedSettles
  <2> HIDE DEF read
  <2> QED
    BY <1>6, <2>1 DEF EndedStay
<1> HIDE DEF added, conflict
<1> QED
  BY <1>5, <1>7, <1>10, <1>11

-----------------------------------------------------------------------------
(* Overlap is a shared file.                                                *)

\* Induction up to n, over a set.
LEMMA UpTo ==
    ASSUME NEW n \in Nat, NEW S, 0 \in S, \A m \in 0..n : m < n /\ m \in S => m + 1 \in S
    PROVE  0..n \subseteq S
<1> DEFINE bad == {m \in 0..n : m \notin S}
<1>1. SUFFICES ASSUME bad # {} PROVE FALSE
  OBVIOUS
<1>2. PICK m \in bad : \A k \in bad : m <= k
  <2>1. bad \in SUBSET Nat
    OBVIOUS
  <2> HIDE DEF bad
  <2>2. PICK m \in bad : \A k \in bad : ~ (<<k, m>> \in OpToRel(<, Nat))
    BY <1>1, <2>1, WFMin, NatLessThanWellFounded
  <2>3. \A k \in bad : ~ (<<k, m>> \in OpToRel(<, Nat)) => m <= k
    BY <2>1 DEF OpToRel
  <2> QED
    BY <2>2, <2>3
<1>3. m \in 0..n /\ m \notin S /\ m # 0
  OBVIOUS
<1>4. m - 1 \in 0..n /\ m - 1 < n /\ m - 1 \in S
  BY <1>2, <1>3
<1>5. (m - 1) + 1 \in S
  BY <1>4
<1> QED
  BY <1>3, <1>5

\* The recursion of Matches, and the functions that obey it.
ReachStep(pattern, file, g, i) ==
    IF i = 0 THEN {0}
    ELSE {j \in 0..Len(file) :
             IF pattern[i] = "**" THEN \E k \in g[i - 1] : k <= j
             ELSE j > 0 /\ j - 1 \in g[i - 1] /\ pattern[i] \in {"*", file[j]}}

Obeys(pattern, file, g) == g = [i \in 0..Len(pattern) |-> ReachStep(pattern, file, g, i)]

\* n literal segments, then nothing or a "**".
Prefixed(pattern, n) ==
    /\ n \in Nat /\ Len(pattern) \in {n, n + 1}
    /\ \A i \in 1..n : pattern[i] \notin {"*", "**"}
    /\ Len(pattern) = n + 1 => pattern[n + 1] = "**"

Agree(pattern, file, n) == \A k \in 1..n : pattern[k] = file[k]

\* How far its first i segments get: over the same segments, and from the "**" on to
\* wherever the file ends.
SegmentsReach(pattern, file, n, i) ==
    IF i <= n THEN {j \in 0..Len(file) : i = j /\ Agree(pattern, file, i)}
    ELSE {j \in 0..Len(file) : n <= j /\ Agree(pattern, file, n)}

\* One step of the recursion, from what the segments before reach.
LEMMA StepReaches ==
    ASSUME NEW pattern, NEW file, NEW n, Prefixed(pattern, n), Len(file) \in Nat, NEW g,
           NEW i \in 0..Len(pattern), i # 0 => g[i - 1] = SegmentsReach(pattern, file, n, i - 1)
    PROVE  ReachStep(pattern, file, g, i) = SegmentsReach(pattern, file, n, i)
<1>1. n \in Nat /\ i \in Nat /\ i <= n + 1
  BY DEF Prefixed
<1>2. CASE i = 0
  <2>1. Agree(pattern, file, 0)
    BY DEF Agree
  <2>2. SegmentsReach(pattern, file, n, 0) = {j \in 0..Len(file) : 0 = j}
    BY <1>1, <2>1 DEF SegmentsReach
  <2>3. ReachStep(pattern, file, g, 0) = {0}
    BY DEF ReachStep
  <2> QED
    BY <1>2, <2>2, <2>3
<1>3. CASE i # 0 /\ i <= n
  <2>1. pattern[i] # "**" /\ pattern[i] # "*"
    BY <1>1, <1>3 DEF Prefixed
  <2>2. g[i - 1] = {j \in 0..Len(file) : i - 1 = j /\ Agree(pattern, file, i - 1)}
    BY <1>1, <1>3 DEF SegmentsReach
  <2>3. SegmentsReach(pattern, file, n, i) = {j \in 0..Len(file) : i = j /\ Agree(pattern, file, i)}
    BY <1>3 DEF SegmentsReach
  <2>4. Agree(pattern, file, i) <=> Agree(pattern, file, i - 1) /\ pattern[i] = file[i]
    <3>1. 1..i = (1..(i - 1)) \cup {i}
      BY <1>1, <1>3
    <3> QED
      BY <3>1 DEF Agree
  <2>5. ReachStep(pattern, file, g, i) =
          {j \in 0..Len(file) : j > 0 /\ j - 1 \in g[i - 1] /\ pattern[i] = file[j]}
    BY <1>3, <2>1 DEF ReachStep
  <2>6. ASSUME NEW j \in 0..Len(file)
        PROVE  j > 0 /\ j - 1 \in g[i - 1] /\ pattern[i] = file[j] <=> i = j /\ Agree(pattern, file, i)
    <3>1. j > 0 => j - 1 \in 0..Len(file)
      OBVIOUS
    <3>2. j > 0 => (j - 1 \in g[i - 1] <=> i - 1 = j - 1 /\ Agree(pattern, file, i - 1))
      BY <2>2, <3>1
    <3>3. i - 1 = j - 1 <=> i = j
      BY <1>1
    <3> QED
      BY <1>1, <1>3, <2>4, <3>2, <3>3
  <2> QED
    BY <2>3, <2>5, <2>6
<1>4. CASE i = n + 1
  <2>1. pattern[i] = "**"
    BY <1>1, <1>4 DEF Prefixed
  <2>2. g[i - 1] = {j \in 0..Len(file) : n = j /\ Agree(pattern, file, n)}
    <3>1. i - 1 = n
      BY <1>1, <1>4
    <3> QED
      BY <1>1, <1>4, <3>1 DEF SegmentsReach
  <2>3. SegmentsReach(pattern, file, n, i) = {j \in 0..Len(file) : n <= j /\ Agree(pattern, file, n)}
    BY <1>1, <1>4 DEF SegmentsReach
  <2>4. ReachStep(pattern, file, g, i) = {j \in 0..Len(file) : \E k \in g[i - 1] : k <= j}
    BY <1>1, <1>4, <2>1 DEF ReachStep
  <2>5. ASSUME NEW j \in 0..Len(file)
        PROVE  (\E k \in g[i - 1] : k <= j) <=> n <= j /\ Agree(pattern, file, n)
    BY <1>1, <2>2
  <2> QED
    BY <2>3, <2>4, <2>5
<1> QED
  BY <1>1, <1>2, <1>3, <1>4

\* Those functions exist, and each of them says what is reached.
LEMMA RecursionReaches ==
    ASSUME NEW pattern, NEW file, NEW n, Prefixed(pattern, n), Len(file) \in Nat
    PROVE  /\ \E g : Obeys(pattern, file, g)
           /\ \A g : Obeys(pattern, file, g) => g[Len(pattern)] = SegmentsReach(pattern, file, n, Len(pattern))
<1>0. Len(pattern) \in Nat
  BY DEF Prefixed
<1>1. \E g : Obeys(pattern, file, g)
  <2> DEFINE h == [i \in 0..Len(pattern) |-> SegmentsReach(pattern, file, n, i)]
  <2>1. \A i \in 0..Len(pattern) : h[i] = SegmentsReach(pattern, file, n, i)
    OBVIOUS
  <2>2. h = [i \in 0..Len(pattern) |-> h[i]]
    OBVIOUS
  <2> HIDE DEF h
  <2>3. ASSUME NEW i \in 0..Len(pattern)
        PROVE  h[i] = ReachStep(pattern, file, h, i)
    <3>1. i # 0 => i - 1 \in 0..Len(pattern)
      BY <1>0
    <3> QED
      BY <2>1, <3>1, StepReaches
  <2>4. Obeys(pattern, file, h)
    BY <2>2, <2>3 DEF Obeys
  <2> QED
    BY <2>4
<1>2. ASSUME NEW g, Obeys(pattern, file, g)
      PROVE  g[Len(pattern)] = SegmentsReach(pattern, file, n, Len(pattern))
  <2> DEFINE S == {i \in 0..Len(pattern) : g[i] = SegmentsReach(pattern, file, n, i)}
  <2>1. \A i \in 0..Len(pattern) : g[i] = ReachStep(pattern, file, g, i)
    BY <1>2 DEF Obeys
  <2>2. 0 \in S
    <3>1. 0 \in 0..Len(pattern)
      BY <1>0
    <3> QED
      BY <2>1, <3>1, StepReaches
  <2>3. ASSUME NEW m \in 0..Len(pattern), m < Len(pattern), m \in S
        PROVE  m + 1 \in S
    <3>1. m + 1 \in 0..Len(pattern) /\ (m + 1) - 1 = m
      BY <1>0, <2>3
    <3>2. g[(m + 1) - 1] = SegmentsReach(pattern, file, n, (m + 1) - 1)
      BY <2>3, <3>1
    <3>3. ReachStep(pattern, file, g, m + 1) = SegmentsReach(pattern, file, n, m + 1)
      BY <3>1, <3>2, StepReaches
    <3> QED
      BY <2>1, <3>1, <3>3
  <2>4. 0..Len(pattern) \subseteq S
    <3> HIDE DEF S
    <3> QED
      BY <1>0, <2>2, <2>3, UpTo
  <2> QED
    BY <1>0, <2>4
<1> QED
  BY <1>1, <1>2

\* The files of n literal segments: itself, or with a "**" what begins with them.
LEMMA PrefixedMatches ==
    ASSUME NEW pattern, NEW file, NEW n, Prefixed(pattern, n), Len(file) \in Nat
    PROVE  Matches(pattern, file) <=>
             /\ IF Len(pattern) = n THEN n = Len(file) ELSE n <= Len(file)
             /\ Agree(pattern, file, n)
<1> DEFINE g == CHOOSE g : Obeys(pattern, file, g)
<1>1. Matches(pattern, file) <=> Len(file) \in g[Len(pattern)]
  BY DEF Matches, Obeys, ReachStep
<1>2. Obeys(pattern, file, g)
  BY RecursionReaches
<1> HIDE DEF g
<1>3. g[Len(pattern)] = SegmentsReach(pattern, file, n, Len(pattern))
  BY <1>2, RecursionReaches
<1>4. n \in Nat /\ Len(pattern) \in {n, n + 1} /\ Len(file) \in 0..Len(file)
  BY DEF Prefixed
<1>5. Matches(pattern, file) <=> Len(file) \in SegmentsReach(pattern, file, n, Len(pattern))
  BY <1>1, <1>3
<1>6. CASE Len(pattern) = n
  BY <1>4, <1>5, <1>6 DEF SegmentsReach
<1>7. CASE Len(pattern) = n + 1
  BY <1>4, <1>5, <1>7 DEF SegmentsReach
<1> QED
  BY <1>4, <1>6, <1>7

\* What a pattern keeps without its last segment.
LEMMA FrontShape ==
    ASSUME NEW S, NEW p \in Seq(S), Len(p) > 1
    PROVE  /\ Front(p) \in Seq(S) /\ Len(Front(p)) = Len(p) - 1
           /\ DOMAIN Front(p) = 1..(Len(p) - 1)
           /\ \A i \in 1..(Len(p) - 1) : Front(p)[i] = p[i]
<1>1. Len(p) \in Nat /\ DOMAIN p = 1..Len(p) /\ Len(p) - 1 \in Nat /\ (Len(p) - 1) - 1 + 1 = Len(p) - 1
  OBVIOUS
<1>2. \A i \in 1..(Len(p) - 1) : i \in 1..Len(p) /\ p[i] \in S
  OBVIOUS
<1>3. Front(p) = SubSeq(p, 1, Len(p) - 1)
  BY DEF Front
<1>4. /\ Front(p) \in Seq(S) /\ Len(Front(p)) = Len(p) - 1
      /\ \A i \in 1..(Len(p) - 1) : Front(p)[i] = p[i]
  BY <1>1, <1>2, <1>3, SubSeqProperties
<1> QED
  BY <1>4

\* A prefix pattern is its base, with a "**" behind it when it is a glob.
LEMMA PrefixPatternShape ==
    ASSUME NEW S, NEW p \in Seq(S), IsPrefixPattern(p)
    PROVE  LET b == pathBase(p).base
           IN  /\ b \in Seq(S) /\ IsFile(b) /\ Len(b) <= Len(p)
               /\ Deepened(p) = IF pathBase(p).glob THEN Append(b, "**") ELSE b
<1> DEFINE base == pathBase(p).base
<1>a. ~IsEmptyBase(base) /\ \A i \in DOMAIN base : base[i] \notin {"*", "**"}
  BY Zenon DEF IsPrefixPattern
<1> HIDE DEF base
<1>b. p # <<>> /\ \A i \in DOMAIN p : p[i] = "" => i \in {1, Len(p)}
  BY Zenon DEF IsPrefixPattern, IsPath
<1>1. Len(p) \in Nat \ {0} /\ DOMAIN p = 1..Len(p)
  <2>1. Len(p) # 0
    BY <1>b, EmptySeq
  <2> QED
    BY <2>1
<1>l. Len(p) \in Nat \ {0}
  BY <1>1
<1>2. \A i \in 1..Len(p) : p[i] = "" => i = 1 \/ i = Len(p)
  BY <1>b, <1>1, Zenon
<1>3. CASE IsGlob(p)
  <2> DEFINE q == Front(p)
  <2>1. Len(p) > 1 /\ p[Len(p)] \in {"*", "**"} /\ p[Len(p)] # ""
    BY <1>3 DEF IsGlob, Last
  <2>2. /\ q \in Seq(S) /\ Len(q) = Len(p) - 1 /\ DOMAIN q = 1..Len(q)
        /\ \A i \in 1..Len(q) : q[i] = p[i]
    BY <2>1, FrontShape
  <2>l. Len(p) > 1 /\ Len(q) = Len(p) - 1
    BY <2>1, <2>2
  <2>3. base = DropTrailingSlash(q) /\ pathBase(p).glob
    BY <1>3 DEF pathBase, base
  <2>4. Deepened(p) = Append(q, "**")
    <3>1. DropTrailingSlash(p) = p
      BY <2>1, Zenon DEF DropTrailingSlash, Last
    <3> QED
      BY <1>3, <3>1, Zenon DEF Deepened
  <2> HIDE DEF q
  <2>5. ASSUME NEW i \in 1..Len(q), q[i] = ""
        PROVE  i = 1
    <3>1. i \in 1..Len(p) /\ i # Len(p)
      BY <1>l, <2>l
    <3>2. p[i] = ""
      BY <2>2, <2>5, Zenon
    <3> QED
      BY <1>2, <3>1, <3>2, Zenon
  <2>6. DropTrailingSlash(q) = q
    <3>1. Len(q) > 1 => q[Len(q)] # ""
      <4>1. Len(q) > 1 => Len(q) \in 1..Len(q) /\ Len(q) # 1
        BY <1>1, <2>2
      <4> QED
        BY <2>5, <4>1, Zenon
    <3> QED
      BY <3>1, Zenon DEF DropTrailingSlash, Last
  <2>7. IsFile(q)
    <3>1. q # <<>>
      <4>1. Len(q) # 0
        BY <1>l, <2>l
      <4> QED
        BY <4>1, EmptySeq
    <3>2. \A i \in DOMAIN q : q[i] \notin {"*", "**"}
      BY <1>a, <2>3, <2>6, Zenon
    <3> QED
      BY <2>2, <2>5, <3>1, <3>2, Zenon DEF IsFile
  <2>8. Len(q) <= Len(p)
    BY <1>l, <2>l
  <2> QED
    BY <2>2, <2>3, <2>4, <2>6, <2>7, <2>8, Zenon DEF base
<1>4. CASE ~IsGlob(p)
  <2>1. base = DropTrailingSlash(p) /\ ~pathBase(p).glob
    BY <1>4 DEF pathBase, base
  <2>2. base # <<>> /\ base # <<"">>
    BY <1>a, Zenon DEF IsEmptyBase
  <2>3. /\ base \in Seq(S) /\ Len(base) \in Nat \ {0} /\ DOMAIN base = 1..Len(base)
        /\ Len(base) <= Len(p)
        /\ \A i \in 1..Len(base) : base[i] = "" => i = 1
    <3>1. CASE Len(p) > 1 /\ p[Len(p)] = ""
      <4>1. base = Front(p)
        BY <2>1, <3>1, Zenon DEF DropTrailingSlash, Last
      <4>2. /\ base \in Seq(S) /\ Len(base) = Len(p) - 1 /\ DOMAIN base = 1..Len(base)
            /\ \A i \in 1..Len(base) : base[i] = p[i]
        BY <3>1, <4>1, FrontShape
      <4>l. Len(p) > 1 /\ Len(base) = Len(p) - 1
        BY <3>1, <4>2
      <4>3. ASSUME NEW i \in 1..Len(base), base[i] = ""
            PROVE  i = 1
        <5>1. i \in 1..Len(p) /\ i # Len(p)
          BY <1>l, <4>l
        <5>2. p[i] = ""
          BY <4>2, <4>3, Zenon
        <5> QED
          BY <1>2, <5>1, <5>2, Zenon
      <4>4. Len(base) \in Nat \ {0}
        <5>1. \A n \in Nat \ {0} : n > 1 => n - 1 \in Nat \ {0}
          OBVIOUS
        <5> QED
          BY <1>l, <4>l, <5>1, Zenon
      <4>5. Len(base) <= Len(p)
        BY <1>l, <4>l
      <4> QED
        BY <4>2, <4>3, <4>4, <4>5, Zenon
    <3>2. CASE ~ (Len(p) > 1 /\ p[Len(p)] = "")
      <4>1. base = p
        BY <2>1, <3>2, Zenon DEF DropTrailingSlash, Last
      <4>2. ASSUME NEW i \in 1..Len(p), p[i] = "", i # 1
            PROVE  FALSE
        <5>1. i = Len(p)
          BY <1>2, <4>2, Zenon
        <5>2. Len(p) > 1
          <6>1. i # 1
            BY <4>2
          <6> QED
            BY <1>l, <5>1, <6>1
        <5> QED
          BY <3>2, <4>2, <5>1, <5>2, Zenon
      <4>3. Len(p) <= Len(p)
        BY <1>l
      <4> QED
        BY <1>1, <4>1, <4>2, <4>3, Zenon
    <3> QED
      BY <3>1, <3>2
  <2>4. Deepened(p) = base
    <3>1. base[Len(base)] \notin {"*", "**"}
      <4>1. Len(base) \in Nat \ {0} /\ DOMAIN base = 1..Len(base)
        BY <2>3, Zenon
      <4>2. Len(base) \in 1..Len(base)
        BY <4>1
      <4> QED
        BY <1>a, <4>1, <4>2, Zenon
    <3>2. ~IsGlob(base)
      BY <3>1, Zenon DEF IsGlob, Last
    <3> QED
      BY <2>1, <3>2, Zenon DEF Deepened
  <2>5. IsFile(base)
    BY <1>a, <2>2, <2>3, Zenon DEF IsFile
  <2> QED
    BY <2>1, <2>3, <2>4, <2>5, Zenon DEF base
<1> QED
  BY <1>3, <1>4

\* So it covers its base, and as a glob whatever begins with it.
LEMMA PrefixPatternCovers ==
    ASSUME NEW S, NEW p \in Seq(S), IsPrefixPattern(p), NEW f \in Seq(S)
    PROVE  LET b == pathBase(p).base
           IN  Matches(Deepened(p), f) <=>
                 /\ IF pathBase(p).glob THEN Len(b) <= Len(f) ELSE Len(b) = Len(f)
                 /\ \A k \in 1..Len(b) : b[k] = f[k]
<1> DEFINE b == pathBase(p).base
           d == Deepened(p)
<1>1. /\ b \in Seq(S) /\ \A k \in 1..Len(b) : b[k] \notin {"*", "**"}
      /\ d = IF pathBase(p).glob THEN Append(b, "**") ELSE b
  <2>1. /\ b \in Seq(S) /\ IsFile(b)
        /\ d = IF pathBase(p).glob THEN Append(b, "**") ELSE b
    BY PrefixPatternShape, Zenon
  <2>2. \A k \in DOMAIN b : b[k] \notin {"*", "**"}
    BY <2>1, Zenon DEF IsFile
  <2> HIDE DEF b, d
  <2> QED
    BY <2>1, <2>2
<1> HIDE DEF b, d
<1>2. Len(b) \in Nat /\ Len(f) \in Nat
  BY <1>1
<1>3. CASE pathBase(p).glob
  <2>1. /\ Len(d) = Len(b) + 1 /\ d[Len(b) + 1] = "**"
        /\ \A k \in 1..Len(b) : d[k] = b[k]
    BY <1>1, <1>3
  <2>2. Prefixed(d, Len(b)) /\ Len(d) # Len(b)
    BY <1>1, <1>2, <2>1 DEF Prefixed
  <2>3. Matches(d, f) <=> Len(b) <= Len(f) /\ Agree(d, f, Len(b))
    BY <1>2, <2>2, PrefixedMatches
  <2> QED
    BY <1>3, <2>1, <2>3 DEF Agree, b, d
<1>4. CASE ~pathBase(p).glob
  <2>1. d = b
    BY <1>1, <1>4
  <2>2. Prefixed(d, Len(b)) /\ Len(d) = Len(b)
    BY <1>1, <1>2, <2>1 DEF Prefixed
  <2>3. Matches(d, f) <=> Len(b) = Len(f) /\ Agree(d, f, Len(b))
    BY <1>2, <2>2, PrefixedMatches
  <2> QED
    BY <1>4, <2>1, <2>3 DEF Agree, b, d
<1> QED
  BY <1>3, <1>4

\* Beneath, segment by segment.
LEMMA BeneathSegments ==
    ASSUME NEW S, NEW a \in Seq(S), NEW b \in Seq(S)
    PROVE  Beneath(a, b) <=> Len(a) < Len(b) /\ \A k \in 1..Len(a) : a[k] = b[k]
<1>1. ASSUME Len(a) <= Len(b)
      PROVE  SubSeq(a, 1, Len(a)) = SubSeq(b, 1, Len(a)) <=> \A k \in 1..Len(a) : a[k] = b[k]
  <2>1. SubSeq(a, 1, Len(a)) = a
    OBVIOUS
  <2> DEFINE c == SubSeq(b, 1, Len(a))
  <2>2. c \in Seq(S) /\ Len(c) = Len(a) /\ \A k \in 1..Len(a) : c[k] = b[k]
    BY <1>1
  <2> HIDE DEF c
  <2>3. a = c <=> \A k \in 1..Len(a) : a[k] = c[k]
    BY <2>2, SeqEqual
  <2> QED
    BY <2>1, <2>2, <2>3 DEF c
<1> QED
  BY <1>1 DEF Beneath, IsPrefix

\* Two prefix patterns overlap exactly when some file is covered by both of them,
\* among any files that include the two bases.
LEMMA PathsOverlapByFile ==
    ASSUME NEW S, NEW left \in Seq(S), NEW right \in Seq(S),
           IsPrefixPattern(left), IsPrefixPattern(right),
           NEW files \in SUBSET Seq(S), pathBase(left).base \in files, pathBase(right).base \in files
    PROVE  pathsOverlap(left, right) <=> ShareFile(left, right, files)
<1> DEFINE a == pathBase(left).base
           b == pathBase(right).base
           leftGlob == pathBase(left).glob
           rightGlob == pathBase(right).glob
           L(f) == Matches(Deepened(left), f)
           R(f) == Matches(Deepened(right), f)
<1>1. a \in Seq(S) /\ b \in Seq(S) /\ a \in files /\ b \in files
  BY PrefixPatternShape
<1>2. pathsOverlap(left, right) <=> a = b \/ (leftGlob /\ Beneath(a, b)) \/ (rightGlob /\ Beneath(b, a))
  BY DEF pathsOverlap, IsPrefixPattern
<1>3. ShareFile(left, right, files) <=> \E f \in files : L(f) /\ R(f)
  BY DEF ShareFile
<1>4. \A f \in Seq(S) : L(f) <=> /\ IF leftGlob THEN Len(a) <= Len(f) ELSE Len(a) = Len(f)
                                 /\ \A k \in 1..Len(a) : a[k] = f[k]
  BY PrefixPatternCovers
<1>5. \A f \in Seq(S) : R(f) <=> /\ IF rightGlob THEN Len(b) <= Len(f) ELSE Len(b) = Len(f)
                                 /\ \A k \in 1..Len(b) : b[k] = f[k]
  BY PrefixPatternCovers
<1> HIDE DEF a, b, leftGlob, rightGlob, L, R
<1>6. /\ Beneath(a, b) <=> Len(a) < Len(b) /\ \A k \in 1..Len(a) : a[k] = b[k]
      /\ Beneath(b, a) <=> Len(b) < Len(a) /\ \A k \in 1..Len(b) : b[k] = a[k]
  BY <1>1, BeneathSegments
<1>7. Len(a) \in Nat /\ Len(b) \in Nat
  BY <1>1
<1>8. L(a) /\ R(b)
  BY <1>1, <1>4, <1>5, <1>7
<1>9. ASSUME a = b \/ (leftGlob /\ Beneath(a, b)) \/ (rightGlob /\ Beneath(b, a))
      PROVE  \E f \in files : L(f) /\ R(f)
  <2>1. CASE a = b
    BY <1>1, <1>8, <2>1
  <2>2. CASE leftGlob /\ Beneath(a, b)
    <3>1. L(b)
      BY <1>1, <1>4, <1>6, <1>7, <2>2
    <3> QED
      BY <1>1, <1>8, <3>1
  <2>3. CASE rightGlob /\ Beneath(b, a)
    <3>1. R(a)
      BY <1>1, <1>5, <1>6, <1>7, <2>3
    <3> QED
      BY <1>1, <1>8, <3>1
  <2> QED
    BY <1>9, <2>1, <2>2, <2>3
<1>10. ASSUME NEW f \in files, L(f), R(f)
       PROVE  a = b \/ (leftGlob /\ Beneath(a, b)) \/ (rightGlob /\ Beneath(b, a))
  <2>1. /\ IF leftGlob THEN Len(a) <= Len(f) ELSE Len(a) = Len(f)
        /\ IF rightGlob THEN Len(b) <= Len(f) ELSE Len(b) = Len(f)
        /\ \A k \in 1..Len(a) : a[k] = f[k]
        /\ \A k \in 1..Len(b) : b[k] = f[k]
    BY <1>4, <1>5, <1>10
  <2>2. Len(f) \in Nat
    <3>1. f \in Seq(S)
      OBVIOUS
    <3> QED
      BY <3>1
  <2>3. CASE Len(a) = Len(b)
    <3>1. \A k \in 1..Len(a) : a[k] = b[k]
      BY <2>1, <2>3
    <3> QED
      BY <1>1, <2>3, <3>1, SeqEqual
  <2>4. CASE Len(a) < Len(b)
    <3>1. leftGlob
      BY <1>7, <2>1, <2>2, <2>4
    <3>2. \A k \in 1..Len(a) : a[k] = b[k]
      BY <1>7, <2>1, <2>4
    <3> QED
      BY <1>6, <2>4, <3>1, <3>2
  <2>5. CASE Len(b) < Len(a)
    <3>1. rightGlob
      BY <1>7, <2>1, <2>2, <2>5
    <3>2. \A k \in 1..Len(b) : b[k] = a[k]
      BY <1>7, <2>1, <2>5
    <3> QED
      BY <1>6, <2>5, <3>1, <3>2
  <2> QED
    BY <1>7, <2>3, <2>4, <2>5
<1> QED
  BY <1>2, <1>3, <1>9, <1>10

-----------------------------------------------------------------------------
(* What a step does to the single records. Every call that writes hands a   *)
(* file to writeClaimsFile in which the claims have only ended, the waiters *)
(* that had ended are the same, and the others were looked at again.        *)

\* PendingHasBlockers, of a file.
PendingNamed(f) ==
    \A w \in DOMAIN f.waiters : f.waiters[w].status = "pending" =>
        /\ f.waiters[w].blocked_by # {}
        /\ \A i \in f.waiters[w].blocked_by :
            IF i \in DOMAIN f.claims
            THEN f.claims[i].status = "active" /\ Conflicting(f.waiters[w], f.claims[i])
            ELSE \A j \in DOMAIN f.claims : i < j

\* ReadyStaleOnlyByNewest, of a file at clock t.
ReadyTrue(f, t) ==
    \A w \in DOMAIN f.waiters : f.waiters[w].status = "ready" =>
        blockingClaimIdsForWaiter(f.waiters[w], f.claims, t) \subseteq {f.next_sequence - 1}

\* The claims of f that are still in `claims` keep their owner, and stay ended.
OnlyEnded(f, claims) ==
    \A i \in DOMAIN f.claims \cap DOMAIN claims :
        /\ claims[i] \in ClaimRecord
        /\ claims[i].session = f.claims[i].session
        /\ claims[i].mode = f.claims[i].mode
        /\ claims[i].scopes = f.claims[i].scopes
        /\ f.claims[i].status # "active" => claims[i] = f.claims[i]

\* A claim that is new in g has an id f had not given out yet.
OnlyAdded(f, g) ==
    /\ g.next_sequence \in {f.next_sequence, f.next_sequence + 1}
    /\ \A i \in DOMAIN g.claims \ DOMAIN f.claims : f.next_sequence = i

\* g is what a call that sampled the clock at t makes of f before it is cut.
Follows(f, g, t) ==
    /\ IsClaimsFile(g)
    /\ Settled(g, t)
    /\ EndedStay(f, g)
    /\ OnlyEnded(f, g.claims)
    /\ OnlyAdded(f, g)

\* What slice(-200) drops is older than all it keeps.
LEMMA CutIsOldest ==
    ASSUME NEW f, IsClaimsFile(f), NEW i \in DOMAIN f.claims, i \notin newest(f.claims),
           NEW j \in newest(f.claims)
    PROVE  i < j
<1> DEFINE after(k) == {x \in DOMAIN f.claims : x > k}
<1>1. DOMAIN f.claims \subseteq 1..f.next_sequence /\ f.next_sequence \in Nat
  BY DEF IsClaimsFile, IsArrayOf
<1>2. \A k \in DOMAIN f.claims : after(k) \subseteq 1..f.next_sequence
  BY <1>1
<1>3. IsFiniteSet(1..f.next_sequence)
  BY <1>1, FS_Interval
<1>4. j \in DOMAIN f.claims /\ Cardinality(after(j)) < Keep /\ ~(Cardinality(after(i)) < Keep)
  BY DEF newest
<1>5. SUFFICES ASSUME j <= i PROVE FALSE
  BY <1>1, <1>4
<1>6. after(i) \subseteq after(j)
  BY <1>1, <1>4, <1>5
<1> HIDE DEF after
<1>7. IsFiniteSet(after(j))
  BY <1>2, <1>3, <1>4, FS_Subset
<1>8. IsFiniteSet(after(i)) /\ Cardinality(after(i)) <= Cardinality(after(j))
  BY <1>6, <1>7, FS_Subset
<1>9. Cardinality(after(i)) \in Nat /\ Cardinality(after(j)) \in Nat /\ Keep \in Nat
  BY <1>7, <1>8, FS_CardinalityType, KeepType
<1> QED
  BY <1>4, <1>8, <1>9

LEMMA WrittenRecords ==
    ASSUME NEW f, IsClaimsFile(f)
    PROVE  LET g == writeClaimsFile(f)
           IN  /\ DOMAIN g.claims = newest(f.claims) /\ newest(f.claims) \subseteq DOMAIN f.claims
               /\ \A i \in DOMAIN g.claims : g.claims[i] = f.claims[i]
               /\ DOMAIN g.waiters \subseteq DOMAIN f.waiters
               /\ \A w \in DOMAIN g.waiters : g.waiters[w] = f.waiters[w]
               /\ g.next_sequence = f.next_sequence
<1>1. newest(f.claims) \subseteq DOMAIN f.claims /\ newest(f.waiters) \subseteq DOMAIN f.waiters
  BY DEF newest
<1> QED
  BY <1>1 DEF writeClaimsFile, Restrict, IsClaimsFile

\* Cutting a settled file leaves pending waiters a reason, if a cut one.
LEMMA WrittenSettled ==
    ASSUME NEW f, IsClaimsFile(f), NEW t \in Nat, NEW later \in Nat, t <= later, Settled(f, t)
    PROVE  PendingNamed(writeClaimsFile(f)) /\ ReadyTrue(writeClaimsFile(f), later)
<1> DEFINE g == writeClaimsFile(f)
<1>1. /\ DOMAIN g.claims = newest(f.claims) /\ newest(f.claims) \subseteq DOMAIN f.claims
      /\ \A i \in DOMAIN g.claims : g.claims[i] = f.claims[i]
      /\ DOMAIN g.waiters \subseteq DOMAIN f.waiters
      /\ \A w \in DOMAIN g.waiters : g.waiters[w] = f.waiters[w]
      /\ g.next_sequence = f.next_sequence
  BY WrittenRecords
<1>2. \A i \in DOMAIN f.claims : f.claims[i].expires \in Nat
  BY DEF IsClaimsFile, IsArrayOf, ClaimRecord
<1>3. \A i \in DOMAIN f.claims, j \in DOMAIN g.claims : i \notin DOMAIN g.claims => i < j
  BY <1>1, CutIsOldest
<1> HIDE DEF g
<1>4. PendingNamed(g)
  BY <1>1, <1>3 DEF PendingNamed, Settled
<1>5. \A w \in DOMAIN g.waiters :
        blockingClaimIdsForWaiter(g.waiters[w], g.claims, later)
            \subseteq blockingClaimIdsForWaiter(f.waiters[w], f.claims, t)
  BY <1>1, <1>2 DEF blockingClaimIdsForWaiter, isClaimActive
<1>6. ReadyTrue(g, later)
  BY <1>1, <1>5 DEF ReadyTrue, Settled
<1> QED
  BY <1>4, <1>6 DEF g

-----------------------------------------------------------------------------
(* The claims each call hands to writeClaimsFile have only ended.           *)

LEMMA AgedEnds ==
    ASSUME NEW claim \in ClaimRecord, NEW t
    PROVE  /\ Aged(claim, t) \in ClaimRecord
           /\ Aged(claim, t).session = claim.session /\ Aged(claim, t).mode = claim.mode
           /\ Aged(claim, t).scopes = claim.scopes
           /\ claim.status # "active" => Aged(claim, t) = claim
           /\ Aged(claim, t).status = "active" => claim.status = "active"
  BY DEF Aged, ClaimRecord

LEMMA FreedEnds ==
    ASSUME NEW claim \in ClaimRecord, NEW i, NEW target, NEW session
    PROVE  LET c == Freed(claim, i, target, session)
           IN  /\ c \in ClaimRecord
               /\ c.session = claim.session /\ c.mode = claim.mode /\ c.scopes = claim.scopes
               /\ claim.status # "active" => c = claim
  BY DEF Freed, ClaimRecord

LEMMA ProlongedEnds ==
    ASSUME NEW claim \in ClaimRecord, NEW i, NEW target, NEW session, NEW expires \in Nat
    PROVE  LET c == Prolonged(claim, i, target, session, expires)
           IN  /\ c \in ClaimRecord
               /\ c.session = claim.session /\ c.mode = claim.mode /\ c.scopes = claim.scopes
               /\ claim.status # "active" => c = claim
  BY DEF Prolonged, ClaimRecord

LEMMA ClaimsOf ==
    ASSUME NEW f, IsClaimsFile(f)
    PROVE  /\ \A i \in DOMAIN f.claims : f.claims[i] \in ClaimRecord
           /\ f.next_sequence \notin DOMAIN f.claims
  BY DEF IsClaimsFile, IsArrayOf

LEMMA NextIsNew ==
    ASSUME NEW f, IsClaimsFile(f)
    PROVE  f.next_sequence \in Nat /\ f.next_sequence + 0 = f.next_sequence
  BY DEF IsClaimsFile

LEMMA ListFollows ==
    ASSUME NEW f, IsClaimsFile(f), NEW t \in Nat
    PROVE  \E g : Follows(f, g, t) /\ listOutcome(f, t) \in {Leave(f), Write(g)}
<1>1. PICK g : /\ Drafted(f, g, [i \in DOMAIN f.claims |-> Aged(f.claims[i], t)], 0, 0)
               /\ Settled(g, t) /\ EndedStay(f, g)
               /\ listOutcome(f, t) \in {Leave(f), Write(g)}
  BY ListDraft
<1>2. OnlyEnded(f, g.claims)
  BY <1>1, ClaimsOf, AgedEnds DEF OnlyEnded, Drafted
<1>3. OnlyAdded(f, g)
  BY <1>1, NextIsNew DEF OnlyAdded, Drafted
<1> QED
  BY <1>1, <1>2, <1>3 DEF Follows, Drafted

LEMMA ReleaseFollows ==
    ASSUME NEW f, IsClaimsFile(f), NEW t \in Nat, NEW target, NEW session
    PROVE  \E g : Follows(f, g, t) /\ releaseOutcome(f, t, target, session) \in {Leave(f), Write(g)}
<1>1. PICK g : /\ Drafted(f, g, [i \in DOMAIN f.claims |->
                                        Freed(Aged(f.claims[i], t), i, target, session)], 0, 0)
               /\ Settled(g, t) /\ EndedStay(f, g)
               /\ releaseOutcome(f, t, target, session) \in {Leave(f), Write(g)}
  BY ReleaseDraft
<1>2. OnlyEnded(f, g.claims)
  <2> SUFFICES ASSUME NEW i \in DOMAIN f.claims
               PROVE  LET c == Freed(Aged(f.claims[i], t), i, target, session)
                      IN  /\ c \in ClaimRecord
                          /\ c.session = f.claims[i].session /\ c.mode = f.claims[i].mode
                          /\ c.scopes = f.claims[i].scopes
                          /\ f.claims[i].status # "active" => c = f.claims[i]
    BY <1>1 DEF OnlyEnded, Drafted
  <2>1. f.claims[i] \in ClaimRecord
    BY ClaimsOf
  <2> QED
    BY <2>1, AgedEnds, FreedEnds
<1>3. OnlyAdded(f, g)
  BY <1>1, NextIsNew DEF OnlyAdded, Drafted
<1> QED
  BY <1>1, <1>2, <1>3 DEF Follows, Drafted

LEMMA HeartbeatFollows ==
    ASSUME NEW f, IsClaimsFile(f), NEW t \in Nat, NEW target, NEW session, NEW ttl \in TTL
    PROVE  \E g : /\ Follows(f, g, t)
                  /\ heartbeatOutcome(f, t, target, session, ttl) \in {Leave(f), Write(g)}
<1>1. PICK g : /\ Drafted(f, g, [i \in DOMAIN f.claims |->
                                Prolonged(Aged(f.claims[i], t), i, target, session, t + ttl)], 0, 0)
               /\ Settled(g, t) /\ EndedStay(f, g)
               /\ heartbeatOutcome(f, t, target, session, ttl) \in {Leave(f), Write(g)}
  BY HeartbeatDraft
<1>2. OnlyEnded(f, g.claims)
  <2> SUFFICES ASSUME NEW i \in DOMAIN f.claims
               PROVE  LET c == Prolonged(Aged(f.claims[i], t), i, target, session, t + ttl)
                      IN  /\ c \in ClaimRecord
                          /\ c.session = f.claims[i].session /\ c.mode = f.claims[i].mode
                          /\ c.scopes = f.claims[i].scopes
                          /\ f.claims[i].status # "active" => c = f.claims[i]
    BY <1>1 DEF OnlyEnded, Drafted
  <2>1. f.claims[i] \in ClaimRecord
    BY ClaimsOf
  <2>2. t + ttl \in Nat
    BY TTLType
  <2> QED
    BY <2>1, <2>2, AgedEnds, ProlongedEnds
<1>3. OnlyAdded(f, g)
  BY <1>1, NextIsNew DEF OnlyAdded, Drafted
<1> QED
  BY <1>1, <1>2, <1>3 DEF Follows, Drafted

LEMMA WaitFollows ==
    ASSUME NEW f, IsClaimsFile(f), NEW t \in Nat, NEW session \in Session, NEW ask \in Ask, NEW ttl \in TTL
    PROVE  \E g : Follows(f, g, t) /\ waitOutcome(f, t, session, ask, ttl) = Write(g)
<1>1. PICK g : /\ Drafted(f, g, [i \in DOMAIN f.claims |-> Aged(f.claims[i], t)], 0, 1)
               /\ Settled(g, t) /\ EndedStay(f, g)
               /\ waitOutcome(f, t, session, ask, ttl) = Write(g)
  BY WaitDraft
<1>2. OnlyEnded(f, g.claims)
  BY <1>1, ClaimsOf, AgedEnds DEF OnlyEnded, Drafted
<1>3. OnlyAdded(f, g)
  BY <1>1, NextIsNew DEF OnlyAdded, Drafted
<1> QED
  BY <1>1, <1>2, <1>3 DEF Follows, Drafted

LEMMA ClaimFollows ==
    ASSUME NEW f, IsClaimsFile(f), NEW t \in Nat, NEW session \in Session,
           NEW ask \in AnyAsk, NEW ttl \in TTL, NEW force \in BOOLEAN
    PROVE  \E g : /\ Follows(f, g, t)
                  /\ claimOutcome(f, t, session, ask, ttl, force) \in {Throw(f), Write(g)}
<1>1. PICK g : /\ Drafted(f, g, WithClaim(f, t, Candidate(t, session, ask, ttl)), 1, 0)
               /\ Settled(g, t) /\ EndedStay(f, g)
               /\ claimOutcome(f, t, session, ask, ttl, force) \in {Throw(f), Write(g)}
  BY ClaimDraft
<1>2. OnlyEnded(f, g.claims)
  <2>1. \A i \in DOMAIN f.claims : g.claims[i] = Aged(f.claims[i], t)
    BY <1>1, ClaimsOf DEF Drafted, WithClaim
  <2> QED
    BY <2>1, ClaimsOf, AgedEnds DEF OnlyEnded
<1>3. OnlyAdded(f, g)
  BY <1>1, NextIsNew DEF OnlyAdded, Drafted, WithClaim
<1> QED
  BY <1>1, <1>2, <1>3 DEF Follows, Drafted

\* A `ready` that is right but for the newest claim stays so while the clock runs.
LEMMA ReadyLater ==
    ASSUME NEW f, IsClaimsFile(f), NEW s \in Nat, NEW t \in Nat, s <= t, ReadyTrue(f, s)
    PROVE  ReadyTrue(f, t)
<1>1. \A i \in DOMAIN f.claims : f.claims[i].expires \in Nat
  BY DEF IsClaimsFile, IsArrayOf, ClaimRecord
<1>2. \A w \in DOMAIN f.waiters : blockingClaimIdsForWaiter(f.waiters[w], f.claims, t)
                                    \subseteq blockingClaimIdsForWaiter(f.waiters[w], f.claims, s)
  BY <1>1 DEF blockingClaimIdsForWaiter, isClaimActive
<1> QED
  BY <1>2 DEF ReadyTrue

\* RecordsOnlyEnd, of a file before and after a step.
RecordsKept(f, g) ==
    /\ \A i \in DOMAIN f.claims \cap DOMAIN g.claims :
        /\ [g.claims[i] EXCEPT !.status = "", !.expires = 0] = [f.claims[i] EXCEPT !.status = "", !.expires = 0]
        /\ f.claims[i].status # "active" => g.claims[i] = f.claims[i]
    /\ \A w \in DOMAIN f.waiters \cap DOMAIN g.waiters :
        f.waiters[w].status \in {"cancelled", "expired"} => g.waiters[w] = f.waiters[w]

\* What a call writes revives no ended record and hands none to someone else.
LEMMA WrittenKept ==
    ASSUME NEW f, IsClaimsFile(f), NEW g, NEW t, Follows(f, g, t)
    PROVE  RecordsKept(f, writeClaimsFile(g))
<1> DEFINE h == writeClaimsFile(g)
<1>1. /\ DOMAIN h.claims = newest(g.claims) /\ newest(g.claims) \subseteq DOMAIN g.claims
      /\ \A i \in DOMAIN h.claims : h.claims[i] = g.claims[i]
      /\ DOMAIN h.waiters \subseteq DOMAIN g.waiters
      /\ \A w \in DOMAIN h.waiters : h.waiters[w] = g.waiters[w]
  BY WrittenRecords DEF Follows
<1> HIDE DEF h
<1>2. ASSUME NEW i \in DOMAIN f.claims \cap DOMAIN h.claims
      PROVE  /\ [h.claims[i] EXCEPT !.status = "", !.expires = 0]
                  = [f.claims[i] EXCEPT !.status = "", !.expires = 0]
             /\ f.claims[i].status # "active" => h.claims[i] = f.claims[i]
  <2> DEFINE old == f.claims[i]
             new == h.claims[i]
  <2>1. /\ old \in ClaimRecord /\ new \in ClaimRecord
        /\ new.session = old.session /\ new.mode = old.mode /\ new.scopes = old.scopes
        /\ old.status # "active" => new = old
    BY <1>1, ClaimsOf DEF Follows, OnlyEnded
  <2> HIDE DEF old, new
  <2>2. [new EXCEPT !.status = "", !.expires = 0] = [old EXCEPT !.status = "", !.expires = 0]
    BY <2>1 DEF ClaimRecord
  <2> QED
    BY <2>1, <2>2 DEF old, new
<1>3. ASSUME NEW w \in DOMAIN f.waiters \cap DOMAIN h.waiters,
             f.waiters[w].status \in {"cancelled", "expired"}
      PROVE  h.waiters[w] = f.waiters[w]
  BY <1>1, <1>3 DEF Follows, EndedStay
<1> QED
  BY <1>2, <1>3 DEF RecordsKept, h
=============================================================================
