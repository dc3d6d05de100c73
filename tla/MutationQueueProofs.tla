------------------------- MODULE MutationQueueProofs -------------------------
(***************************************************************************)
(* For every set of files, callers and path lists: the lines of            *)
(* MutationQueue keep their types, two mutations that name a common file   *)
(* never run together, nobody is stuck, and each line is a queue of the    *)
(* host.                                                                   *)
(*                                                                         *)
(* The invariant behind exclusion is that a caller is at the head of the   *)
(* line of every path it has locked, under the number of that lock; only   *)
(* the owner of the head leaves a line, so nobody else's step can disturb  *)
(* it.  That nobody is stuck needs more: what every place in a line, not   *)
(* only its head, stands for, so that whoever waits does so for a path     *)
(* below the one its head waits for; and a last path, where that ends.     *)
(***************************************************************************)
EXTENDS MutationQueue, FiniteSetTheorems, SequenceTheorems, WellFoundedInduction, TLAPS

\* The caller is at the head of the line of each of its locked paths.
HeldAtHead ==
    \A c \in Caller : \A i \in 1..depth[c] :
        /\ queue[plan[c][i]] # <<>>
        /\ Head(queue[plan[c][i]]) = <<c, i>>

\* A call without a plan has no lock, and a running one has all it planned.
DepthFits ==
    \A c \in Caller :
        /\ pc[c] = "idle" => depth[c] = 0
        /\ pc[c] = "running" => depth[c] = Len(plan[c])

IInv == TypeOK /\ HeldAtHead /\ DepthFits

\* Each place in the line of a path is a lock its caller has or waits for, in
\* the order of its plan, once; and whoever waits is in line.
Waiting(c) == pc[c] = "locking" /\ depth[c] < Len(plan[c])
StandsFor(p, place) ==
    LET c == place[1]
        i == place[2]
    IN  /\ i \in DOMAIN plan[c] /\ plan[c][i] = p
        /\ i <= depth[c] \/ (i = depth[c] + 1 /\ pc[c] = "locking")
NoRepeats(q) == \A k, l \in DOMAIN q : q[k] = q[l] => k = l
LinesInv ==
    /\ \A p \in Path : NoRepeats(queue[p]) /\ \A place \in PathsOf(queue[p]) : StandsFor(p, place)
    /\ \A c \in Caller : Waiting(c) =>
            <<c, depth[c] + 1>> \in PathsOf(queue[plan[c][depth[c] + 1]])
    /\ \A c \in Caller : \A i, j \in DOMAIN plan[c] : i < j => plan[c][i] < plan[c][j]

\* Why nobody is ever stuck: whoever is in line for a path is behind callers that wait,
\* if at all, only for paths sorted after it.
WaitsUpwards ==
    \A c, d \in Caller :
        LET p == plan[c][depth[c] + 1]
            q == plan[d][depth[d] + 1]
        IN  /\ pc[c] = "locking" /\ depth[c] < Len(plan[c])
            /\ Head(queue[p])[1] = d /\ d # c
            /\ pc[d] = "locking" /\ depth[d] < Len(plan[d])
            /\ q # p
            => p < q

\* At any time there is a last file in the plans, in sort order.
PlansEnd == \E top \in Nat : \A c \in Caller : \A i \in DOMAIN plan[c] : plan[c][i] <= top

-----------------------------------------------------------------------------
\* The plan withLockedPaths makes of a list of paths is a sequence of paths.
LEMMA PlanType ==
    ASSUME NEW paths \in Request, NEW s \in uniquePaths(paths)
    PROVE  s \in Seq(Path)
<1>1. paths \in Seq(Path)
  BY RequestType
<1>2. paths \in Surjection(DOMAIN paths, PathsOf(paths))
  BY <1>1 DEF Surjection, PathsOf
<1>3. IsFiniteSet(DOMAIN paths)
  BY <1>1, FS_Interval
<1>4. IsFiniteSet(PathsOf(paths))
  BY <1>2, <1>3, FS_Surjection
<1>5. Cardinality(PathsOf(paths)) \in Nat
  BY <1>4, FS_CardinalityType
<1>6. PathsOf(paths) \subseteq Path
  BY <1>1 DEF PathsOf
<1> QED
  BY <1>5, <1>6 DEF uniquePaths

\* Appending to a sequence keeps its type, and its head if it has one.
LEMMA AppendKeepsHead ==
    ASSUME NEW S, NEW q \in Seq(S), NEW x \in S
    PROVE  /\ Append(q, x) \in Seq(S)
           /\ Append(q, x) # <<>>
           /\ q # <<>> => Head(Append(q, x)) = Head(q)
<1>1. /\ Append(q, x) \in Seq(S)
      /\ Append(q, x) # <<>>
      /\ Len(Append(q, x)) = Len(q) + 1
  BY AppendProperties
<1>3. ASSUME q # <<>> PROVE Head(Append(q, x)) = Head(q)
  <2>1. Len(q) \in Nat /\ Len(q) >= 1
    BY <1>3
  <2>2. Append(q, x)[1] = q[1]
    BY <2>1
  <2> QED
    BY <1>1, <2>2, <1>3
<1> QED
  BY <1>1, <1>3

\* Joining a line keeps the lines well typed and lets nobody lose the head of one.
LEMMA JoinedLines ==
    ASSUME queue \in [Path -> Seq(Caller \X Nat)],
           NEW c \in Caller, NEW s \in Seq(Path), NEW d \in Nat
    PROVE  /\ Joined(c, s, d) \in [Path -> Seq(Caller \X Nat)]
           /\ \A p \in Path : queue[p] # <<>> =>
                /\ Joined(c, s, d)[p] # <<>>
                /\ Head(Joined(c, s, d)[p]) = Head(queue[p])
<1>1. CASE d < Len(s)
  <2>1. s[d + 1] \in Path
    BY <1>1
  <2>2. Joined(c, s, d) = [queue EXCEPT ![s[d + 1]] = Append(@, <<c, d + 1>>)]
    BY <1>1 DEF Joined
  <2> DEFINE entry == <<c, d + 1>>
  <2>3. entry \in Caller \X Nat
    OBVIOUS
  <2> HIDE DEF entry
  <2>4. Joined(c, s, d) = [queue EXCEPT ![s[d + 1]] = Append(@, entry)]
    BY <2>2 DEF entry
  <2>5. \A p \in Path : queue[p] \in Seq(Caller \X Nat)
    OBVIOUS
  <2>6. \A q \in Seq(Caller \X Nat) :
           /\ Append(q, entry) \in Seq(Caller \X Nat)
           /\ Append(q, entry) # <<>>
           /\ q # <<>> => Head(Append(q, entry)) = Head(q)
    BY <2>3, AppendKeepsHead
  <2> QED
    BY <2>1, <2>4, <2>5, <2>6
<1>2. CASE ~(d < Len(s))
  BY <1>2 DEF Joined
<1> QED
  BY <1>1, <1>2

LEMMA InitIInv == Init => IInv
  BY DEF Init, IInv, TypeOK, HeldAtHead, DepthFits

-----------------------------------------------------------------------------
(* One lemma per action.                                                    *)

LEMMA CallIInv ==
    ASSUME IInv, NEW c \in Caller, Call(c)
    PROVE  IInv'
<1> USE DEF IInv, TypeOK
<1>1. PICK paths \in Request : \E s \in uniquePaths(paths) :
         plan' = [plan EXCEPT ![c] = s] /\ queue' = Joined(c, s, 0)
  BY DEF Call
<1>2. PICK s \in uniquePaths(paths) :
         plan' = [plan EXCEPT ![c] = s] /\ queue' = Joined(c, s, 0)
  BY <1>1
<1>3. s \in Seq(Path)
  BY PlanType
<1>4. depth[c] = 0 /\ depth' = depth
  BY DEF Call, DepthFits
<1>j. /\ queue' \in [Path -> Seq(Caller \X Nat)]
      /\ \A p \in Path : queue[p] # <<>> =>
            queue'[p] # <<>> /\ Head(queue'[p]) = Head(queue[p])
  BY <1>2, <1>3, JoinedLines
<1>5. TypeOK'
  <2>1. plan' \in [Caller -> Seq(Path)]
    BY <1>2, <1>3
  <2>2. \A e \in Caller : depth'[e] <= Len(plan'[e])
    BY <1>2, <1>3, <1>4
  <2> QED
    BY <1>4, <1>j, <2>1, <2>2 DEF Call
<1>6. HeldAtHead'
  <2> SUFFICES ASSUME NEW e \in Caller, NEW i \in 1..depth'[e]
               PROVE  /\ queue'[plan'[e][i]] # <<>>
                      /\ Head(queue'[plan'[e][i]]) = <<e, i>>
    BY DEF HeldAtHead
  <2>1. e # c /\ plan'[e] = plan[e] /\ i \in 1..depth[e]
    BY <1>2, <1>4
  <2>2. plan[e][i] \in Path
    BY <2>1
  <2> QED
    BY <1>j, <2>1, <2>2 DEF HeldAtHead
<1>7. DepthFits'
  BY <1>2, <1>4 DEF Call, DepthFits
<1> QED
  BY <1>5, <1>6, <1>7

LEMMA LockIInv ==
    ASSUME IInv, NEW c \in Caller, Lock(c)
    PROVE  IInv'
<1> USE DEF IInv, TypeOK
<1>1. /\ depth[c] < Len(plan[c])
      /\ queue[plan[c][depth[c] + 1]] # <<>>
      /\ Head(queue[plan[c][depth[c] + 1]]) = <<c, depth[c] + 1>>
  BY DEF Lock, HasTurn
<1>2. /\ queue' = Joined(c, plan[c], depth[c] + 1)
      /\ depth' = [depth EXCEPT ![c] = @ + 1]
      /\ plan' = plan /\ pc' = pc /\ pc[c] = "locking"
  BY DEF Lock
<1>j. /\ queue' \in [Path -> Seq(Caller \X Nat)]
      /\ \A p \in Path : queue[p] # <<>> =>
            queue'[p] # <<>> /\ Head(queue'[p]) = Head(queue[p])
  <2>1. plan[c] \in Seq(Path) /\ depth[c] + 1 \in Nat
    OBVIOUS
  <2> QED
    BY <1>2, <2>1, JoinedLines
<1>3. TypeOK'
  <2>1. depth' \in [Caller -> Nat]
    BY <1>2
  <2>2. \A e \in Caller : depth'[e] <= Len(plan'[e])
    BY <1>1, <1>2
  <2> QED
    BY <1>2, <1>j, <2>1, <2>2
<1>4. HeldAtHead'
  <2> SUFFICES ASSUME NEW e \in Caller, NEW i \in 1..depth'[e]
               PROVE  /\ queue'[plan[e][i]] # <<>>
                      /\ Head(queue'[plan[e][i]]) = <<e, i>>
    BY <1>2 DEF HeldAtHead
  <2>1. i \in 1..depth[e] \/ (e = c /\ i = depth[c] + 1)
    BY <1>2
  <2>2. plan[e][i] \in Path
    BY <1>1, <2>1
  <2>3. queue[plan[e][i]] # <<>> /\ Head(queue[plan[e][i]]) = <<e, i>>
    BY <1>1, <2>1 DEF HeldAtHead
  <2> QED
    BY <1>j, <2>2, <2>3
<1>5. DepthFits'
  BY <1>2 DEF DepthFits
<1> QED
  BY <1>3, <1>4, <1>5

LEMMA RunIInv ==
    ASSUME IInv, NEW c \in Caller, Run(c) \/ Settle(c)
    PROVE  IInv'
  BY DEF IInv, TypeOK, HeldAtHead, DepthFits, Run, Settle

LEMMA UnlockIInv ==
    ASSUME IInv, NEW c \in Caller, Unlock(c)
    PROVE  IInv'
<1> USE DEF IInv, TypeOK
<1> DEFINE p == plan[c][depth[c]]
<1>1. /\ pc[c] = "unlocking" /\ depth[c] > 0
      /\ depth' = [depth EXCEPT ![c] = @ - 1]
      /\ queue' = [queue EXCEPT ![p] = Tail(@)]
      /\ plan' = plan /\ pc' = pc
  BY DEF Unlock
<1>2. p \in Path
  BY <1>1
<1>3. queue[p] # <<>> /\ Head(queue[p]) = <<c, depth[c]>>
  <2>1. depth[c] \in 1..depth[c]
    BY <1>1
  <2> QED
    BY <2>1 DEF HeldAtHead
<1>4. TypeOK'
  BY <1>1, <1>2, <1>3
<1>5. HeldAtHead'
  <2> SUFFICES ASSUME NEW e \in Caller, NEW i \in 1..depth'[e]
               PROVE  /\ queue'[plan[e][i]] # <<>>
                      /\ Head(queue'[plan[e][i]]) = <<e, i>>
    BY <1>1 DEF HeldAtHead
  <2>1. i \in 1..depth[e] /\ ~(e = c /\ i = depth[c])
    BY <1>1
  <2>2. queue[plan[e][i]] # <<>> /\ Head(queue[plan[e][i]]) = <<e, i>>
    BY <2>1 DEF HeldAtHead
  <2>3. plan[e][i] \in Path /\ plan[e][i] # p
    BY <1>3, <2>1, <2>2
  <2> QED
    BY <1>1, <2>2, <2>3
<1>6. DepthFits'
  BY <1>1 DEF DepthFits
<1> QED
  BY <1>4, <1>5, <1>6

LEMMA DoneIInv ==
    ASSUME IInv, NEW c \in Caller, Done(c)
    PROVE  IInv'
  BY DEF IInv, TypeOK, HeldAtHead, DepthFits, Done

LEMMA NextIInv == IInv /\ [Next]_vars => IInv'
<1> SUFFICES ASSUME IInv, [Next]_vars PROVE IInv'
  OBVIOUS
<1>1. CASE Next
  <2>1. PICK c \in Caller : Call(c) \/ Step(c)
    BY <1>1 DEF Next
  <2> QED
    BY <2>1, CallIInv, LockIInv, RunIInv, UnlockIInv, DoneIInv DEF Step
<1>2. CASE UNCHANGED vars
  BY <1>2 DEF vars, IInv, TypeOK, HeldAtHead, DepthFits
<1> QED
  BY <1>1, <1>2

LEMMA IInvHolds == Spec => []IInv
  BY InitIInv, NextIInv, PTL DEF Spec

-----------------------------------------------------------------------------
(* The places in the lines.                                                 *)

\* Appending adds one place, and repeats nothing if the place is new.
LEMMA AppendAdds ==
    ASSUME NEW S, NEW q \in Seq(S), NEW x \in S
    PROVE  /\ PathsOf(Append(q, x)) = PathsOf(q) \cup {x}
           /\ NoRepeats(q) /\ x \notin PathsOf(q) => NoRepeats(Append(q, x))
<1> DEFINE more == Append(q, x)
<1>1. /\ DOMAIN more = 1..(Len(q) + 1) /\ DOMAIN q = 1..Len(q) /\ Len(q) \in Nat
      /\ \A k \in 1..Len(q) : more[k] = q[k]
      /\ more[Len(q) + 1] = x
  OBVIOUS
<1> HIDE DEF more
<1>2. DOMAIN more = DOMAIN q \cup {Len(q) + 1}
  BY <1>1
<1>3. PathsOf(more) = PathsOf(q) \cup {x}
  BY <1>1, <1>2 DEF PathsOf
<1>4. ASSUME NoRepeats(q), x \notin PathsOf(q) PROVE NoRepeats(more)
  BY <1>1, <1>2, <1>4 DEF NoRepeats, PathsOf
<1> QED
  BY <1>3, <1>4 DEF more

\* Taking the head off removes one place, if none is repeated.
LEMMA TailRemoves ==
    ASSUME NEW S, NEW q \in Seq(S), q # <<>>, NoRepeats(q)
    PROVE  /\ PathsOf(Tail(q)) = PathsOf(q) \ {Head(q)}
           /\ NoRepeats(Tail(q))
<1> DEFINE rest == Tail(q)
<1>1. /\ Len(q) \in Nat /\ Len(q) >= 1 /\ DOMAIN q = 1..Len(q)
      /\ DOMAIN rest = 1..(Len(q) - 1)
      /\ \A k \in 1..(Len(q) - 1) : rest[k] = q[k + 1]
      /\ Head(q) = q[1]
  OBVIOUS
<1> HIDE DEF rest
<1>2. \A k \in DOMAIN rest : k + 1 \in DOMAIN q /\ k + 1 # 1
  BY <1>1
<1>3. \A k \in DOMAIN q : k # 1 => k - 1 \in DOMAIN rest /\ rest[k - 1] = q[k]
  BY <1>1
<1>4. 1 \in DOMAIN q
  BY <1>1
<1>5. PathsOf(rest) = PathsOf(q) \ {Head(q)}
  <2>1. ASSUME NEW x \in PathsOf(rest) PROVE x \in PathsOf(q) /\ x # Head(q)
    <3>1. PICK k \in DOMAIN rest : x = rest[k]
      BY DEF PathsOf
    <3>2. x = q[k + 1] /\ k + 1 \in DOMAIN q /\ k + 1 # 1
      BY <1>1, <1>2, <3>1
    <3> QED
      BY <1>1, <1>4, <3>2 DEF NoRepeats, PathsOf
  <2>2. ASSUME NEW x \in PathsOf(q), x # Head(q) PROVE x \in PathsOf(rest)
    <3>1. PICK k \in DOMAIN q : x = q[k]
      BY DEF PathsOf
    <3> QED
      BY <1>1, <1>3, <2>2, <3>1 DEF PathsOf
  <2> QED
    BY <2>1, <2>2
<1>6. NoRepeats(rest)
  <2> SUFFICES ASSUME NEW k \in DOMAIN rest, NEW l \in DOMAIN rest, rest[k] = rest[l] PROVE k = l
    BY DEF NoRepeats
  <2>1. q[k + 1] = q[l + 1] /\ k + 1 \in DOMAIN q /\ l + 1 \in DOMAIN q
    BY <1>1, <1>2
  <2>2. k + 1 = l + 1
    BY <2>1 DEF NoRepeats
  <2> QED
    BY <1>1, <2>2
<1> QED
  BY <1>5, <1>6 DEF rest

\* Joining adds one place to one line.
LEMMA JoinedPlaces ==
    ASSUME queue \in [Path -> Seq(Caller \X Nat)],
           NEW c \in Caller, NEW s \in Seq(Path), NEW d \in Nat, NEW n, n = d + 1,
           NEW p \in Path, NoRepeats(queue[p]), <<c, n>> \notin PathsOf(queue[p])
    PROVE  /\ NoRepeats(Joined(c, s, d)[p])
           /\ PathsOf(queue[p]) \subseteq PathsOf(Joined(c, s, d)[p])
           /\ \A place \in PathsOf(Joined(c, s, d)[p]) \ PathsOf(queue[p]) :
                 place = <<c, n>> /\ d < Len(s) /\ s[n] = p
           /\ d < Len(s) /\ s[n] = p => <<c, n>> \in PathsOf(Joined(c, s, d)[p])
<1>1. CASE d < Len(s) /\ s[n] = p
  <2>1. Joined(c, s, d)[p] = Append(queue[p], <<c, n>>)
    BY <1>1 DEF Joined
  <2>2. PICK entry \in Caller \X Nat : entry = <<c, n>>
    OBVIOUS
  <2>3. queue[p] \in Seq(Caller \X Nat) /\ NoRepeats(queue[p]) /\ entry \notin PathsOf(queue[p])
    BY <2>2
  <2>4. /\ PathsOf(Append(queue[p], entry)) = PathsOf(queue[p]) \cup {entry}
        /\ NoRepeats(Append(queue[p], entry))
    BY <2>3, AppendAdds
  <2> QED
    BY <1>1, <2>1, <2>2, <2>4
<1>2. CASE ~(d < Len(s) /\ s[n] = p)
  <2>1. Joined(c, s, d)[p] = queue[p]
    BY <1>2 DEF Joined
  <2> QED
    BY <1>2, <2>1
<1> QED
  BY <1>1, <1>2

\* A caller that is not locking has places for the locks it has, and one that is
\* locking has one more.
LEMMA PlacesOf ==
    ASSUME IInv, LinesInv, NEW p \in Path, NEW place \in PathsOf(queue[p])
    PROVE  /\ place \in Caller \X Nat /\ place = <<place[1], place[2]>>
           /\ place[1] \in Caller /\ place[2] \in Nat /\ StandsFor(p, place)
<1>1. queue[p] \in Seq(Caller \X Nat)
  BY DEF IInv, TypeOK
<1>2. place \in Caller \X Nat
  BY <1>1 DEF PathsOf
<1> QED
  BY <1>2 DEF LinesInv

LEMMA InitLines == Init => LinesInv
<1>1. DOMAIN <<>> = {} /\ Len(<<>>) = 0
  OBVIOUS
<1> QED
  BY <1>1 DEF Init, LinesInv, NoRepeats, PathsOf, Waiting

\* A caller comes: it has no place yet, and gets the first of its plan.
LEMMA CallLines ==
    ASSUME IInv, LinesInv, NEW c \in Caller, Call(c)
    PROVE  LinesInv'
<1> USE DEF IInv, TypeOK
<1>p. PICK paths \in Request : \E s \in uniquePaths(paths) :
         plan' = [plan EXCEPT ![c] = s] /\ queue' = Joined(c, s, 0)
  BY DEF Call
<1>1. PICK s \in uniquePaths(paths) : plan' = [plan EXCEPT ![c] = s] /\ queue' = Joined(c, s, 0)
  BY <1>p
<1>2. s \in Seq(Path) /\ \A i, j \in DOMAIN s : i < j => s[i] < s[j]
  BY PlanType DEF uniquePaths
<1>3. /\ depth[c] = 0 /\ depth' = depth
      /\ pc[c] = "idle" /\ pc' = [pc EXCEPT ![c] = "locking"]
  BY DEF Call, DepthFits
<1>4. ASSUME NEW p \in Path, NEW place \in PathsOf(queue[p])
      PROVE  place[1] # c /\ StandsFor(p, place)'
  <2>1. place[1] \in Caller /\ place[2] \in Nat /\ StandsFor(p, place)
    BY PlacesOf
  <2>2. place[1] # c
    BY <1>3, <2>1 DEF StandsFor
  <2> QED
    BY <1>1, <1>3, <2>1, <2>2 DEF StandsFor
<1>5. \A p \in Path : NoRepeats(queue[p]) /\ <<c, 1>> \notin PathsOf(queue[p])
  BY <1>4 DEF LinesInv
<1>6. \A p \in Path :
        /\ NoRepeats(queue'[p])
        /\ PathsOf(queue[p]) \subseteq PathsOf(queue'[p])
        /\ \A place \in PathsOf(queue'[p]) \ PathsOf(queue[p]) :
              place = <<c, 1>> /\ 0 < Len(s) /\ s[1] = p
        /\ 0 < Len(s) /\ s[1] = p => <<c, 1>> \in PathsOf(queue'[p])
  <2>1. PICK d, n \in Nat : d = 0 /\ n = 1 /\ n = d + 1
    OBVIOUS
  <2>2. queue \in [Path -> Seq(Caller \X Nat)] /\ s \in Seq(Path)
    BY <1>2
  <2>3. \A p \in Path : NoRepeats(queue[p]) /\ <<c, n>> \notin PathsOf(queue[p])
    BY <1>5, <2>1
  <2>4. PICK joined : joined = Joined(c, s, d) /\ queue' = joined
    BY <1>1, <2>1
  <2> HIDE DEF IInv, TypeOK
  <2>5. \A p \in Path :
          /\ NoRepeats(joined[p])
          /\ PathsOf(queue[p]) \subseteq PathsOf(joined[p])
          /\ \A place \in PathsOf(joined[p]) \ PathsOf(queue[p]) :
                place = <<c, n>> /\ d < Len(s) /\ s[n] = p
          /\ d < Len(s) /\ s[n] = p => <<c, n>> \in PathsOf(joined[p])
    <3>1. n = d + 1 /\ joined = Joined(c, s, d)
      BY <2>1, <2>4
    <3> QED
      BY <2>2, <2>3, <3>1, JoinedPlaces
  <2> QED
    BY <2>1, <2>4, <2>5
<1>7. ASSUME NEW p \in Path, 0 < Len(s), s[1] = p PROVE StandsFor(p, <<c, 1>>)'
  BY <1>1, <1>2, <1>3, <1>7 DEF StandsFor
<1>8. ASSUME NEW e \in Caller, Waiting(e)'
      PROVE  <<e, depth[e] + 1>> \in PathsOf(queue'[plan'[e][depth[e] + 1]])
  <2>1. CASE e = c
    <3>1. plan'[c] = s /\ depth[c] + 1 = 1 /\ 0 < Len(s) /\ s[1] \in Path
      BY <1>1, <1>2, <1>3, <1>8, <2>1 DEF Waiting
    <3> QED
      BY <1>6, <2>1, <3>1
  <2>2. CASE e # c
    <3>1. plan'[e] = plan[e] /\ Waiting(e)
      BY <1>1, <1>3, <1>8, <2>2 DEF Waiting
    <3>2. plan[e][depth[e] + 1] \in Path
      BY <3>1 DEF Waiting
    <3> QED
      BY <1>6, <3>1, <3>2 DEF LinesInv
  <2> QED
    BY <2>1, <2>2
<1>9. \A e \in Caller : \A i, j \in DOMAIN plan'[e] : i < j => plan'[e][i] < plan'[e][j]
  BY <1>1, <1>2 DEF LinesInv
<1>10. \A p \in Path : \A place \in PathsOf(queue'[p]) : StandsFor(p, place)'
  BY <1>4, <1>6, <1>7
<1> QED
  BY <1>3, <1>6, <1>8, <1>9, <1>10 DEF LinesInv

\* A caller gets the lock it waits for, and a place for the next one.
LEMMA LockLines ==
    ASSUME IInv, LinesInv, NEW c \in Caller, Lock(c)
    PROVE  LinesInv'
<1> USE DEF IInv, TypeOK
<1>1. /\ queue' = Joined(c, plan[c], depth[c] + 1)
      /\ depth' = [depth EXCEPT ![c] = @ + 1]
      /\ plan' = plan /\ pc' = pc /\ pc[c] = "locking" /\ depth[c] < Len(plan[c])
  BY DEF Lock, HasTurn
<1>2. PICK d \in Nat : d = depth[c] + 1
  OBVIOUS
<1>3. ASSUME NEW p \in Path, NEW place \in PathsOf(queue[p])
      PROVE  place # <<c, d + 1>> /\ StandsFor(p, place)'
  <2>1. place[1] \in Caller /\ place[2] \in Nat /\ StandsFor(p, place)
    BY PlacesOf
  <2>2. place[1] = c => place[2] <= depth[c] + 1
    BY <2>1 DEF StandsFor
  <2>3. StandsFor(p, place)'
    BY <1>1, <2>1, <2>2 DEF StandsFor
  <2> QED
    BY <1>2, <2>2, <2>3
<1>4. \A p \in Path : NoRepeats(queue[p]) /\ <<c, d + 1>> \notin PathsOf(queue[p])
  BY <1>3 DEF LinesInv
<1>5. \A p \in Path :
        /\ NoRepeats(queue'[p])
        /\ PathsOf(queue[p]) \subseteq PathsOf(queue'[p])
        /\ \A place \in PathsOf(queue'[p]) \ PathsOf(queue[p]) :
              place = <<c, d + 1>> /\ d < Len(plan[c]) /\ plan[c][d + 1] = p
        /\ d < Len(plan[c]) /\ plan[c][d + 1] = p => <<c, d + 1>> \in PathsOf(queue'[p])
  <2>1. queue \in [Path -> Seq(Caller \X Nat)] /\ plan[c] \in Seq(Path)
    OBVIOUS
  <2>2. PICK s \in Seq(Path), n \in Nat : s = plan[c] /\ n = d + 1
    BY <2>1
  <2>3. \A p \in Path : NoRepeats(queue[p]) /\ <<c, n>> \notin PathsOf(queue[p])
    BY <1>4, <2>2
  <2>4. PICK joined : joined = Joined(c, s, d) /\ queue' = joined
    BY <1>1, <1>2, <2>2
  <2> HIDE DEF IInv, TypeOK
  <2>5. \A p \in Path :
          /\ NoRepeats(joined[p])
          /\ PathsOf(queue[p]) \subseteq PathsOf(joined[p])
          /\ \A place \in PathsOf(joined[p]) \ PathsOf(queue[p]) :
                place = <<c, n>> /\ d < Len(s) /\ s[n] = p
          /\ d < Len(s) /\ s[n] = p => <<c, n>> \in PathsOf(joined[p])
    BY <2>1, <2>2, <2>3, <2>4, JoinedPlaces
  <2> QED
    BY <2>2, <2>4, <2>5
<1>6. ASSUME NEW p \in Path, d < Len(plan[c]), plan[c][d + 1] = p PROVE StandsFor(p, <<c, d + 1>>)'
  <2>1. d + 1 \in DOMAIN plan[c] /\ depth'[c] = d /\ pc'[c] = "locking"
    BY <1>1, <1>2, <1>6
  <2> QED
    BY <1>1, <1>6, <2>1 DEF StandsFor
<1>7. ASSUME NEW e \in Caller, Waiting(e)'
      PROVE  <<e, depth'[e] + 1>> \in PathsOf(queue'[plan[e][depth'[e] + 1]])
  <2>1. CASE e = c
    <3>1. depth'[c] = d /\ d < Len(plan[c])
      BY <1>1, <1>2, <1>7, <2>1 DEF Waiting
    <3>2. plan[c][d + 1] \in Path
      BY <3>1
    <3> QED
      BY <1>5, <2>1, <3>1, <3>2
  <2>2. CASE e # c
    <3>1. depth'[e] = depth[e] /\ Waiting(e)
      BY <1>1, <1>7, <2>2 DEF Waiting
    <3>2. plan[e][depth[e] + 1] \in Path
      BY <3>1 DEF Waiting
    <3> QED
      BY <1>5, <3>1, <3>2 DEF LinesInv
  <2> QED
    BY <2>1, <2>2
<1>8. \A p \in Path : \A place \in PathsOf(queue'[p]) : StandsFor(p, place)'
  BY <1>3, <1>5, <1>6
<1> QED
  BY <1>1, <1>5, <1>7, <1>8 DEF LinesInv

\* A caller runs, settles or returns with the places its locks have.
LEMMA RunLines ==
    ASSUME IInv, LinesInv, NEW c \in Caller, Run(c) \/ Settle(c) \/ Done(c)
    PROVE  LinesInv'
<1> USE DEF IInv, TypeOK
<1>1. /\ queue' = queue /\ depth' = depth
      /\ \A e \in Caller \ {c} : plan'[e] = plan[e] /\ pc'[e] = pc[e]
      /\ pc'[c] # "locking"
      /\ \/ plan'[c] = plan[c] /\ (pc[c] = "locking" => depth[c] = Len(plan[c]))
         \/ plan'[c] = <<>> /\ depth[c] = 0 /\ pc[c] = "unlocking"
  <2>1. CASE Run(c) \/ Settle(c)
    BY <2>1 DEF Run, Settle
  <2>2. CASE Done(c)
    BY <2>2 DEF Done
  <2> QED
    BY <2>1, <2>2
<1>2. ASSUME NEW p \in Path, NEW place \in PathsOf(queue[p]) PROVE StandsFor(p, place)'
  <2>1. place[1] \in Caller /\ place[2] \in Nat /\ StandsFor(p, place)
    BY PlacesOf
  <2>2. CASE place[1] # c
    BY <1>1, <2>1, <2>2 DEF StandsFor
  <2>3. CASE place[1] = c
    BY <1>1, <2>1, <2>3 DEF StandsFor
  <2> QED
    BY <2>2, <2>3
<1>3. ASSUME NEW e \in Caller, Waiting(e)' PROVE e # c /\ Waiting(e)
  BY <1>1, <1>3 DEF Waiting
<1>4. \A e \in Caller : \A i, j \in DOMAIN plan'[e] : i < j => plan'[e][i] < plan'[e][j]
  <2>1. DOMAIN <<>> = {}
    OBVIOUS
  <2> QED
    BY <1>1, <2>1 DEF LinesInv
<1> QED
  BY <1>1, <1>2, <1>3, <1>4 DEF LinesInv

\* The owner of the head leaves a line, and nobody else.
LEMMA UnlockLines ==
    ASSUME IInv, LinesInv, NEW c \in Caller, Unlock(c)
    PROVE  LinesInv'
<1> USE DEF IInv, TypeOK
<1> DEFINE left == plan[c][depth[c]]
<1>1. /\ pc[c] = "unlocking" /\ depth[c] > 0
      /\ depth' = [depth EXCEPT ![c] = @ - 1]
      /\ queue' = [queue EXCEPT ![left] = Tail(@)]
      /\ plan' = plan /\ pc' = pc
  BY DEF Unlock
<1>2. left \in Path
  BY <1>1
<1>3. queue[left] # <<>> /\ Head(queue[left]) = <<c, depth[c]>> /\ queue[left] \in Seq(Caller \X Nat)
  <2>1. depth[c] \in 1..depth[c]
    BY <1>1
  <2> QED
    BY <1>2, <2>1 DEF HeldAtHead
<1>4. NoRepeats(queue[left])
  BY <1>2 DEF LinesInv
<1>5. PathsOf(Tail(queue[left])) = PathsOf(queue[left]) \ {<<c, depth[c]>>} /\ NoRepeats(Tail(queue[left]))
  BY <1>3, <1>4, TailRemoves
<1>6. ASSUME NEW p \in Path
      PROVE  /\ NoRepeats(queue'[p])
             /\ PathsOf(queue'[p]) = IF p = left THEN PathsOf(queue[p]) \ {<<c, depth[c]>>} ELSE PathsOf(queue[p])
  <2>1. queue'[p] = IF p = left THEN Tail(queue[left]) ELSE queue[p]
    BY <1>1
  <2> HIDE DEF left
  <2> QED
    BY <1>5, <2>1 DEF LinesInv
<1>7. ASSUME NEW p \in Path, NEW place \in PathsOf(queue'[p]) PROVE StandsFor(p, place)'
  <2>1. place \in PathsOf(queue[p]) /\ (p = left => place # <<c, depth[c]>>)
    BY <1>6
  <2>2. /\ place = <<place[1], place[2]>>
        /\ place[1] \in Caller /\ place[2] \in Nat /\ StandsFor(p, place)
    BY <2>1, PlacesOf
  <2>3. CASE place[1] # c
    BY <1>1, <2>2, <2>3 DEF StandsFor
  <2>4. CASE place[1] = c
    <3>1. place[2] # depth[c]
      BY <2>1, <2>2, <2>4 DEF StandsFor
    <3> QED
      BY <1>1, <2>2, <2>4, <3>1 DEF StandsFor
  <2> QED
    BY <2>3, <2>4
<1>8. ASSUME NEW e \in Caller, Waiting(e)'
      PROVE  <<e, depth'[e] + 1>> \in PathsOf(queue'[plan[e][depth'[e] + 1]])
  <2>1. e # c /\ depth'[e] = depth[e] /\ Waiting(e)
    BY <1>1, <1>8 DEF Waiting
  <2>2. plan[e][depth[e] + 1] \in Path
    BY <2>1 DEF Waiting
  <2>3. <<e, depth[e] + 1>> # <<c, depth[c]>>
    BY <2>1
  <2> HIDE DEF left
  <2> QED
    BY <1>6, <2>1, <2>2, <2>3 DEF LinesInv
<1> QED
  BY <1>1, <1>6, <1>7, <1>8 DEF LinesInv

LEMMA NextLines == IInv /\ LinesInv /\ [Next]_vars => LinesInv'
<1> SUFFICES ASSUME IInv, LinesInv, [Next]_vars PROVE LinesInv'
  OBVIOUS
<1>1. CASE Next
  <2>1. PICK c \in Caller : Call(c) \/ Step(c)
    BY <1>1 DEF Next
  <2> QED
    BY <2>1, CallLines, LockLines, RunLines, UnlockLines DEF Step
<1>2. CASE UNCHANGED vars
  BY <1>2 DEF vars, LinesInv, StandsFor, Waiting
<1> QED
  BY <1>1, <1>2

LEMMA LinesHold == Spec => [](IInv /\ LinesInv)
  BY InitIInv, NextIInv, InitLines, NextLines, PTL DEF Spec

-----------------------------------------------------------------------------
\* The lines hold callers with lock numbers, and nobody has more locks than paths.
THEOREM TypeCorrect == Spec => []TypeOK
<1>1. IInv => TypeOK
  BY DEF IInv
<1> QED
  BY <1>1, IInvHolds, PTL

\* Two mutations of one process that name a common file never run at the same time.
THEOREM MutuallyExclusive == Spec => []MutualExclusion
<1>1. IInv => MutualExclusion
  <2> SUFFICES ASSUME IInv, NEW c \in Caller, NEW d \in Caller,
                      pc[c] = "running", pc[d] = "running",
                      PathsOf(plan[c]) \cap PathsOf(plan[d]) # {}
               PROVE  c = d
    BY DEF MutualExclusion
  <2>1. PICK i \in DOMAIN plan[c], j \in DOMAIN plan[d] : plan[c][i] = plan[d][j]
    BY DEF PathsOf
  <2>2. i \in 1..depth[c] /\ j \in 1..depth[d]
    BY <2>1 DEF IInv, TypeOK, DepthFits
  <2>3. Head(queue[plan[c][i]]) = <<c, i>> /\ Head(queue[plan[d][j]]) = <<d, j>>
    BY <2>2 DEF IInv, HeldAtHead
  <2> QED
    BY <2>1, <2>3
<1> QED
  BY <1>1, IInvHolds, PTL

\* Nobody waits in a circle: who stands in line behind a caller that waits for
\* another path waits for a path sorted before that one, whatever the lists
\* withLockedPaths is given (the sort of uniquePaths).
LEMMA WaitingUpwards == IInv /\ LinesInv => WaitsUpwards
<1> DEFINE p(c) == plan[c][depth[c] + 1]
<1> SUFFICES ASSUME IInv, LinesInv, NEW c \in Caller, NEW d \in Caller,
                    Waiting(c), Waiting(d), Head(queue[p(c)])[1] = d, p(d) # p(c)
             PROVE  p(c) < p(d)
  BY DEF WaitsUpwards, Waiting
<1>1. p(c) \in Path /\ queue[p(c)] \in Seq(Caller \X Nat) /\ depth[d] \in Nat
  BY DEF IInv, TypeOK, Waiting
<1>2. <<c, depth[c] + 1>> \in PathsOf(queue[p(c)])
  BY DEF LinesInv
<1> HIDE DEF p
<1>3. 1 \in DOMAIN queue[p(c)] /\ Head(queue[p(c)]) = queue[p(c)][1]
  BY <1>1, <1>2 DEF PathsOf
<1>4. Head(queue[p(c)]) \in PathsOf(queue[p(c)])
  BY <1>3 DEF PathsOf
<1>5. PICK place : place = Head(queue[p(c)])
  OBVIOUS
<1>6. place[1] = d /\ place[2] \in Nat /\ StandsFor(p(c), place)
  BY <1>1, <1>4, <1>5, PlacesOf
<1>7. place[2] \in DOMAIN plan[d] /\ plan[d][place[2]] = p(c) /\ place[2] <= depth[d] + 1
  BY <1>1, <1>6 DEF StandsFor
<1>8. place[2] # depth[d] + 1
  BY <1>7 DEF p
<1>9. depth[d] + 1 \in DOMAIN plan[d] /\ place[2] < depth[d] + 1
  <2>1. plan[d] \in Seq(Path) /\ depth[d] < Len(plan[d])
    BY DEF Waiting, IInv, TypeOK
  <2> QED
    BY <1>1, <1>6, <1>7, <1>8, <2>1
<1> QED
  BY <1>7, <1>9 DEF LinesInv, p

\* Plans are lists of numbers.
LEMMA PathNumbers == ASSUME NEW s \in Seq(Path) PROVE \A i \in DOMAIN s : s[i] \in Nat
<1>1. \A i \in DOMAIN s : s[i] \in Path
  OBVIOUS
<1> QED
  BY <1>1, PathType

\* The plans end somewhere: a call adds one, and the others' do not change.
LEMMA InitPlans == Init => PlansEnd
<1>1. DOMAIN <<>> = {}
  OBVIOUS
<1> QED
  BY <1>1 DEF Init, PlansEnd

LEMMA NextPlans == IInv /\ LinesInv /\ PlansEnd /\ [Next]_vars => PlansEnd'
<1> SUFFICES ASSUME IInv, LinesInv, PlansEnd, [Next]_vars PROVE PlansEnd'
  OBVIOUS
<1>1. PICK top \in Nat : \A d \in Caller : \A i \in DOMAIN plan[d] : plan[d][i] <= top
  BY DEF PlansEnd
<1>2. ASSUME NEW c \in Caller, Call(c) PROVE PlansEnd'
  <2>1. PICK paths \in Request : \E s \in uniquePaths(paths) : plan' = [plan EXCEPT ![c] = s]
    BY <1>2 DEF Call
  <2>2. PICK s \in uniquePaths(paths) : plan' = [plan EXCEPT ![c] = s]
    BY <2>1
  <2>3. s \in Seq(Path) /\ \A i, j \in DOMAIN s : i < j => s[i] < s[j]
    BY PlanType DEF uniquePaths
  <2>4. \E last \in Nat : \A i \in DOMAIN s : s[i] <= last
    <3>1. CASE s = <<>>
      BY <3>1
    <3>2. CASE s # <<>>
      <4>1. Len(s) \in DOMAIN s /\ s[Len(s)] \in Nat /\ DOMAIN s = 1..Len(s) /\ Len(s) \in Nat
        BY <2>3, <3>2, PathNumbers
      <4>2. \A i \in DOMAIN s : s[i] \in Nat /\ ((i = Len(s)) \/ (i < Len(s)))
        BY <2>3, <4>1, PathNumbers
      <4>3. \A i \in DOMAIN s : s[i] <= s[Len(s)]
        BY <2>3, <4>1, <4>2
      <4> QED
        BY <4>1, <4>3
    <3> QED
      BY <3>1, <3>2
  <2>5. PICK last \in Nat : \A i \in DOMAIN s : s[i] <= last
    BY <2>4
  <2>6. \A d \in Caller : plan'[d] = IF d = c THEN s ELSE plan[d]
    BY <2>2 DEF IInv, TypeOK
  <2>7. \A d \in Caller : \A i \in DOMAIN plan[d] : plan[d][i] \in Nat
    BY PathNumbers DEF IInv, TypeOK
  <2>8. \A i \in DOMAIN s : s[i] \in Nat
    BY <2>3, PathNumbers
  <2>9. top + last \in Nat /\ \A n \in Nat : n <= top \/ n <= last => n <= top + last
    OBVIOUS
  <2>10. \A d \in Caller : \A i \in DOMAIN plan'[d] : plan'[d][i] <= top + last
    BY <1>1, <2>5, <2>6, <2>7, <2>8, <2>9
  <2> QED
    BY <2>9, <2>10 DEF PlansEnd
<1>3. ASSUME NEW c \in Caller, Step(c) PROVE PlansEnd'
  <2>1. plan' = plan \/ plan' = [plan EXCEPT ![c] = <<>>]
    BY <1>3 DEF Step, Lock, Run, Settle, Unlock, Done
  <2>2. DOMAIN <<>> = {}
    OBVIOUS
  <2>3. \A d \in Caller : plan'[d] = plan[d] \/ plan'[d] = <<>>
    BY <2>1 DEF IInv, TypeOK
  <2> QED
    BY <1>1, <2>2, <2>3 DEF PlansEnd
<1>4. CASE UNCHANGED vars
  BY <1>4 DEF vars, PlansEnd
<1> QED
  BY <1>2, <1>3, <1>4 DEF Next

LEMMA PlansEndHolds == Spec => []PlansEnd
  BY LinesHold, InitPlans, NextPlans, PTL DEF Spec

\* A set of natural numbers has a least one: induction, as the next lemma uses it.
LEMMA LeastNumber ==
    ASSUME NEW S \in SUBSET Nat, S # {}
    PROVE  \E m \in S : \A k \in S : m <= k
<1>1. \E m \in S : \A k \in S : ~ (<<k, m>> \in OpToRel(<, Nat))
  BY WFMin, NatLessThanWellFounded
<1>2. \A m, k \in S : ~ (<<k, m>> \in OpToRel(<, Nat)) => m <= k
  BY DEF OpToRel
<1> QED
  BY <1>1, <1>2

\* A set of natural numbers that is bounded has a greatest.
LEMMA GreatestNumber ==
    ASSUME NEW S \in SUBSET Nat, S # {}, NEW top \in Nat, \A k \in S : k <= top
    PROVE  \E m \in S : \A k \in S : k <= m
<1> DEFINE bounds == {n \in Nat : \A k \in S : k <= n}
<1>1. bounds \in SUBSET Nat /\ bounds # {}
  OBVIOUS
<1> HIDE DEF bounds
<1>2. PICK m \in bounds : \A n \in bounds : m <= n
  BY <1>1, LeastNumber
<1>3. m \in Nat /\ \A k \in S : k <= m
  BY <1>2 DEF bounds
<1>4. CASE m \in S
  BY <1>3, <1>4
<1>5. CASE m \notin S
  <2>1. \A k \in S : k \in Nat /\ k < m
    BY <1>3, <1>5
  <2>2. m - 1 \in Nat /\ \A k \in S : k <= m - 1
    <3>1. PICK k \in S : TRUE
      OBVIOUS
    <3>2. k \in Nat /\ k < m
      BY <2>1
    <3> QED
      BY <1>3, <2>1, <3>2
  <2>3. m - 1 \in bounds
    BY <2>2 DEF bounds
  <2> QED
    BY <1>2, <1>3, <2>3
<1> QED
  BY <1>4, <1>5

\* While anybody is at it some call can go on by itself, with any number of callers and
\* files: of those that wait, the one that waits for the last file is first in its line,
\* or stands behind a call that does not wait.
THEOREM NeverStuck == Spec => []NobodyStuck
<1>1. ASSUME IInv, LinesInv, PlansEnd PROVE NobodyStuck
  <2> DEFINE p(c) == plan[c][depth[c] + 1]
             CanGoOn(c) == \/ pc[c] \in {"running", "unlocking"}
                           \/ pc[c] = "locking" /\ (depth[c] = Len(plan[c]) \/ HasTurn(c))
  <2> SUFFICES ASSUME NEW b \in Caller, pc[b] # "idle", \A c \in Caller : ~CanGoOn(c)
               PROVE  FALSE
    BY DEF NobodyStuck
  <2>1. \A c \in Caller : pc[c] # "idle" => Waiting(c)
    <3> SUFFICES ASSUME NEW c \in Caller, pc[c] # "idle" PROVE Waiting(c)
      OBVIOUS
    <3>1. pc[c] = "locking" /\ depth[c] # Len(plan[c])
      BY <1>1 DEF IInv, TypeOK
    <3>2. depth[c] \in Nat /\ Len(plan[c]) \in Nat /\ depth[c] <= Len(plan[c])
      BY <1>1 DEF IInv, TypeOK
    <3>3. depth[c] < Len(plan[c])
      BY <3>1, <3>2
    <3> QED
      BY <3>1, <3>3 DEF Waiting
  <2>2. \A c \in Caller : Waiting(c) => ~HasTurn(c)
    BY DEF Waiting
  <2> HIDE DEF CanGoOn
  <2>3. \A c \in Caller : Waiting(c) => depth[c] + 1 \in DOMAIN plan[c] /\ p(c) \in Path
    <3> SUFFICES ASSUME NEW c \in Caller, Waiting(c)
                 PROVE  depth[c] + 1 \in DOMAIN plan[c] /\ p(c) \in Path
      OBVIOUS
    <3>1. plan[c] \in Seq(Path) /\ depth[c] \in Nat /\ depth[c] < Len(plan[c])
      BY <1>1 DEF IInv, TypeOK, Waiting
    <3> QED
      BY <3>1
  <2> DEFINE wanted == {p(c) : c \in {d \in Caller : Waiting(d)}}
  <2>4. PICK top \in Nat : \A c \in Caller : \A i \in DOMAIN plan[c] : plan[c][i] <= top
    BY <1>1 DEF PlansEnd
  <2>5. \A c \in Caller : Waiting(c) => p(c) <= top
    BY <2>3, <2>4
  <2>6. wanted \in SUBSET Nat /\ wanted # {} /\ \A k \in wanted : k <= top
    <3> HIDE DEF p
    <3> QED
      BY <2>1, <2>3, <2>5, PathType
  <2> HIDE DEF wanted
  <2>7. PICK m \in wanted : \A k \in wanted : k <= m
    BY <2>4, <2>6, GreatestNumber
  <2> USE DEF wanted
  <2> HIDE DEF p
  <2>8. PICK c \in Caller : Waiting(c) /\ m = p(c)
    BY <2>7
  <2>9. \A d \in Caller : Waiting(d) => p(d) <= p(c)
    BY <2>7, <2>8
  <2> HIDE DEF wanted
  <2>10. queue[p(c)] \in Seq(Caller \X Nat) /\ <<c, depth[c] + 1>> \in PathsOf(queue[p(c)])
    BY <1>1, <2>3, <2>8 DEF IInv, TypeOK, LinesInv, p
  <2>11. 1 \in DOMAIN queue[p(c)] /\ Head(queue[p(c)]) = queue[p(c)][1] /\ queue[p(c)] # <<>>
    BY <2>10 DEF PathsOf
  <2>12. PICK place : place = Head(queue[p(c)])
    OBVIOUS
  <2>13. place \in PathsOf(queue[p(c)])
    BY <2>11, <2>12 DEF PathsOf
  <2>14. PICK d : d = place[1]
    OBVIOUS
  <2>15. d \in Caller /\ place = <<d, place[2]>> /\ place[2] \in Nat /\ StandsFor(p(c), place)
    BY <1>1, <2>3, <2>8, <2>13, <2>14, PlacesOf
  <2>16. /\ place[2] \in DOMAIN plan[d] /\ plan[d][place[2]] = p(c)
         /\ (place[2] <= depth[d]) \/ (place[2] = depth[d] + 1 /\ pc[d] = "locking")
    BY <2>14, <2>15 DEF StandsFor
  <2>17. pc[d] # "idle"
    <3> SUFFICES ASSUME pc[d] = "idle" PROVE FALSE
      OBVIOUS
    <3>1. depth[d] = 0 /\ pc[d] # "locking"
      BY <1>1, <2>15 DEF IInv, DepthFits
    <3>2. plan[d] \in Seq(Path)
      BY <1>1, <2>15 DEF IInv, TypeOK
    <3>3. place[2] <= 0 /\ place[2] >= 1
      BY <2>16, <3>1, <3>2
    <3> QED
      BY <2>15, <3>3
  <2>18. Waiting(d) /\ depth[d] + 1 \in DOMAIN plan[d] /\ p(d) \in Path /\ depth[d] \in Nat
    BY <1>1, <2>1, <2>3, <2>15, <2>17 DEF IInv, TypeOK
  <2>19. p(c) # p(d)
    <3> SUFFICES ASSUME p(c) = p(d) PROVE FALSE
      OBVIOUS
    <3>1. \A i, j \in DOMAIN plan[d] : i < j => plan[d][i] < plan[d][j]
      BY <1>1, <2>15 DEF LinesInv
    <3>2. plan[d] \in Seq(Path) /\ DOMAIN plan[d] \subseteq Nat
      BY <1>1, <2>15 DEF IInv, TypeOK
    <3>3. plan[d][place[2]] = plan[d][depth[d] + 1] /\ plan[d][depth[d] + 1] \in Nat
      BY <2>16, <2>18, PathType DEF p
    <3>4. place[2] = depth[d] + 1
      BY <2>15, <2>16, <2>18, <3>1, <3>3
    <3>5. plan[d][depth[d] + 1] = p(c)
      BY <2>16, <3>4
    <3>6. Head(queue[plan[d][depth[d] + 1]]) = <<d, depth[d] + 1>>
      BY <2>12, <2>15, <3>4, <3>5
    <3>7. HasTurn(d)
      BY <2>11, <2>18, <3>5, <3>6 DEF HasTurn, Waiting
    <3> QED
      BY <2>2, <2>15, <2>18, <3>7
  <2>20. c # d
    BY <2>19
  <2>21. p(c) < p(d)
    <3>1. Head(queue[p(c)])[1] = d
      BY <2>12, <2>14
    <3> QED
      BY <1>1, <2>8, <2>15, <2>18, <2>19, <2>20, <3>1, WaitingUpwards DEF WaitsUpwards, Waiting, p
  <2>22. p(d) <= p(c) /\ p(c) \in Nat /\ p(d) \in Nat
    BY <2>3, <2>8, <2>9, <2>15, <2>18, PathType
  <2> QED
    BY <2>21, <2>22
<1> QED
  BY <1>1, LinesHold, PlansEndHolds, PTL
-----------------------------------------------------------------------------
(* The lines are the host's.                                                *)

\* The callers of a line's places.
LEMMA CallersType ==
    ASSUME NEW q \in Seq(Caller \X Nat)
    PROVE  /\ Callers(q) \in Seq(Caller) /\ Len(Callers(q)) = Len(q)
           /\ \A k \in 1..Len(q) : Callers(q)[k] = q[k][1]
<1>1. Callers(q) = [k \in 1..Len(q) |-> q[k][1]] /\ Len(q) \in Nat
  BY DEF Callers
<1>2. \A k \in 1..Len(q) : q[k] \in Caller \X Nat
  OBVIOUS
<1>3. \A k \in 1..Len(q) : q[k][1] \in Caller
  BY <1>2
<1> QED
  BY <1>1, <1>3

\* Who stands in a line, when one more joins and when the head leaves.
LEMMA CallersOf ==
    ASSUME NEW q \in Seq(Caller \X Nat), NEW place \in Caller \X Nat
    PROVE  /\ Callers(Append(q, place)) = Append(Callers(q), place[1])
           /\ q # <<>> => /\ Callers(q) # <<>>
                          /\ Head(Callers(q)) = Head(q)[1]
                          /\ Callers(Tail(q)) = Tail(Callers(q))
<1> DEFINE old == Callers(q)
<1>1. /\ old \in Seq(Caller) /\ Len(old) = Len(q) /\ Len(q) \in Nat
      /\ \A k \in 1..Len(q) : old[k] = q[k][1]
  BY CallersType
<1>2. place[1] \in Caller
  OBVIOUS
<1>3. Callers(Append(q, place)) = Append(old, place[1])
  <2> DEFINE new == Append(q, place)
             all == Callers(new)
             more == Append(old, place[1])
  <2>1. /\ new \in Seq(Caller \X Nat) /\ Len(new) = Len(q) + 1
        /\ \A k \in 1..Len(q) : new[k] = q[k]
        /\ new[Len(q) + 1] = place
    OBVIOUS
  <2>2. /\ all \in Seq(Caller) /\ Len(all) = Len(q) + 1
        /\ \A k \in 1..(Len(q) + 1) : all[k] = new[k][1]
    BY <2>1, CallersType
  <2> HIDE DEF old, new, all
  <2>3. /\ more \in Seq(Caller) /\ Len(more) = Len(q) + 1
        /\ \A k \in 1..Len(q) : more[k] = old[k]
        /\ more[Len(q) + 1] = place[1]
    BY <1>1, <1>2
  <2> HIDE DEF more
  <2>4. \A k \in 1..(Len(q) + 1) : k \in 1..Len(q) \/ k = Len(q) + 1
    BY <1>1
  <2>5. \A k \in 1..Len(q) : k \in 1..(Len(q) + 1)
    BY <1>1
  <2>6. ASSUME NEW k \in 1..(Len(q) + 1) PROVE all[k] = more[k]
    <3>1. all[k] = new[k][1]
      BY <2>2
    <3>2. CASE k \in 1..Len(q)
      BY <1>1, <2>1, <2>3, <3>1, <3>2, Zenon
    <3>3. CASE k = Len(q) + 1
      BY <2>1, <2>3, <3>1, <3>3, Zenon
    <3> QED
      BY <2>4, <3>2, <3>3
  <2>7. all = more
    BY <2>2, <2>3, <2>6, SeqEqual
  <2> QED
    BY <2>7 DEF all, more, new
<1>4. ASSUME q # <<>>
      PROVE  old # <<>> /\ Head(old) = Head(q)[1] /\ Callers(Tail(q)) = Tail(old)
  <2> DEFINE rest == Tail(q)
             all == Callers(rest)
             less == Tail(old)
  <2>1. /\ rest \in Seq(Caller \X Nat) /\ Len(rest) = Len(q) - 1 /\ Head(q) = q[1] /\ Len(q) >= 1
        /\ \A k \in 1..(Len(q) - 1) : rest[k] = q[k + 1]
    BY <1>4
  <2> HIDE DEF old, rest
  <2>2. /\ all \in Seq(Caller) /\ Len(all) = Len(q) - 1
        /\ \A k \in 1..(Len(q) - 1) : all[k] = rest[k][1]
    <3>1. all \in Seq(Caller) /\ Len(all) = Len(rest) /\ \A k \in 1..Len(rest) : all[k] = rest[k][1]
      BY <2>1, CallersType
    <3> QED
      BY <2>1, <3>1, Zenon
  <2> HIDE DEF all
  <2>3. old # <<>> /\ Head(old) = old[1]
    BY <1>1, <2>1
  <2>4. /\ less \in Seq(Caller) /\ Len(less) = Len(q) - 1
        /\ \A k \in 1..(Len(q) - 1) : less[k] = old[k + 1]
    BY <1>1, <2>3
  <2> HIDE DEF less
  <2>5. 1 \in 1..Len(q) /\ \A k \in 1..(Len(q) - 1) : k + 1 \in 1..Len(q)
    BY <1>1, <2>1
  <2>6. \A k \in 1..(Len(q) - 1) : all[k] = less[k]
    BY <1>1, <2>1, <2>2, <2>4, <2>5, Zenon
  <2>7. all = less
    BY <2>2, <2>4, <2>6, SeqEqual
  <2>8. Head(old) = Head(q)[1]
    BY <1>1, <2>1, <2>3, <2>5, Zenon
  <2> QED
    BY <2>3, <2>7, <2>8 DEF all, less, rest
<1> QED
  BY <1>3, <1>4

\* Whose mutation holds a path is at the head of its line.
LEMMA InsideAtHead ==
    ASSUME IInv, NEW p \in Path, NEW c \in HostInside[p]
    PROVE  queue[p] # <<>> /\ Head(queue[p])[1] = c
<1>1. c \in Caller /\ \E i \in 1..depth[c] : plan[c][i] = p
  BY DEF HostInside
<1>2. PICK i \in 1..depth[c] : plan[c][i] = p
  BY <1>1
<1>3. queue[p] # <<>> /\ Head(queue[p]) = <<c, i>>
  BY <1>1, <1>2 DEF IInv, HeldAtHead
<1> QED
  BY <1>3

\* A step by which the caller c joins the line of the next path of the plan s.
LEMMA JoinedIsJoin ==
    ASSUME IInv, LinesInv, NEW c \in Caller, NEW s \in Seq(Path), NEW d \in Nat,
           queue' = Joined(c, s, d), HostInside' = HostInside,
           d < Len(s) => \A place \in PathsOf(queue[s[d + 1]]) : place[1] # c
    PROVE  Host!vars' # Host!vars => Host!Next
<1>1. CASE d < Len(s)
  <2>1. PICK p \in Path : p = s[d + 1]
    BY <1>1
  <2>2. PICK place : place = <<c, d + 1>> /\ place \in Caller \X Nat
    <3>1. d + 1 \in Nat
      OBVIOUS
    <3>2. \A n \in Nat : <<c, n>> \in Caller \X Nat
      OBVIOUS
    <3> QED
      BY <3>1, <3>2, Zenon
  <2>3. queue' = [queue EXCEPT ![p] = Append(@, place)]
    BY <1>1, <2>1, <2>2 DEF Joined
  <2>4. queue \in [Path -> Seq(Caller \X Nat)] /\ place[1] = c
    BY <2>2 DEF IInv, TypeOK
  <2>5. HostLine' = [HostLine EXCEPT ![p] = Append(@, c)]
    <3>1. PICK q \in Seq(Caller \X Nat) : q = queue[p]
      BY <2>4
    <3>2. Callers(Append(q, place)) = Append(Callers(q), place[1])
      BY <2>2, CallersOf
    <3>3. Callers(Append(queue[p], place)) = Append(Callers(queue[p]), c)
      BY <2>4, <3>1, <3>2, Zenon
    <3> QED
      BY <2>3, <2>4, <3>3 DEF HostLine
  <2>6. \A i \in DOMAIN HostLine[p] : HostLine[p][i] # c
    BY <1>1, <2>1 DEF HostLine, Callers, PathsOf
  <2>7. Host!Join(c, p)
    BY <2>5, <2>6 DEF Host!Join
  <2> QED
    BY <2>7 DEF Host!Next
<1>2. CASE ~(d < Len(s))
  BY <1>2 DEF Joined, Host!vars, HostLine
<1> QED
  BY <1>1, <1>2

LEMMA CallServes ==
    ASSUME IInv, LinesInv, NEW c \in Caller, Call(c)
    PROVE  Host!vars' # Host!vars => Host!Next
<1>1. PICK paths \in Request : \E s \in uniquePaths(paths) :
         plan' = [plan EXCEPT ![c] = s] /\ queue' = Joined(c, s, 0)
  BY DEF Call
<1>2. PICK s \in uniquePaths(paths) : plan' = [plan EXCEPT ![c] = s] /\ queue' = Joined(c, s, 0)
  BY <1>1
<1>3. s \in Seq(Path)
  BY PlanType
<1>4. depth' = depth /\ pc[c] = "idle" /\ pc' = [pc EXCEPT ![c] = "locking"] /\ depth[c] = 0
  BY DEF Call, IInv, DepthFits
<1>5. HostInside' = HostInside
  BY <1>2, <1>4 DEF HostInside, IInv, TypeOK
<1>6. ASSUME NEW p \in Path, NEW place \in PathsOf(queue[p]) PROVE place[1] # c
  <2>1. StandsFor(p, place) /\ place[2] \in Nat /\ place[1] \in Caller
    BY PlacesOf
  <2>2. place[1] = c => place[2] \in DOMAIN plan[c] /\ place[2] <= 0
    BY <1>4, <2>1 DEF StandsFor
  <2>3. plan[c] \in Seq(Path)
    BY DEF IInv, TypeOK
  <2> QED
    BY <2>1, <2>2, <2>3
<1>7. 0 < Len(s) => s[0 + 1] \in Path
  BY <1>3
<1> QED
  BY <1>2, <1>3, <1>5, <1>6, <1>7, JoinedIsJoin

LEMMA LockServes ==
    ASSUME IInv, LinesInv, NEW c \in Caller, Lock(c)
    PROVE  Host!vars' # Host!vars => Host!Next
<1>1. /\ queue' = Joined(c, plan[c], depth[c] + 1)
      /\ depth' = [depth EXCEPT ![c] = @ + 1]
      /\ plan' = plan /\ pc' = pc /\ pc[c] = "locking"
  BY DEF Lock
<1>2. HostInside' = HostInside
  BY <1>1 DEF HostInside, IInv, TypeOK
<1>3. PICK s \in Seq(Path), d \in Nat : s = plan[c] /\ d = depth[c] + 1
  BY DEF IInv, TypeOK
<1>4. ASSUME d < Len(s), NEW place \in PathsOf(queue[s[d + 1]]) PROVE place[1] # c
  <2>1. s[d + 1] \in Path /\ d + 1 \in DOMAIN s
    BY <1>4
  <2>2. place[1] = c => /\ place[2] \in DOMAIN s /\ place[2] <= d
                        /\ s[place[2]] = s[d + 1] /\ place[2] \in Nat
    <3>1. StandsFor(s[d + 1], place) /\ place[2] \in Nat
      BY <2>1, PlacesOf
    <3>2. depth[c] \in Nat /\ pc[c] = "locking" /\ depth[c] + 1 = d
      BY <1>1, <1>3 DEF IInv, TypeOK
    <3>3. ASSUME place[1] = c
          PROVE  /\ place[2] \in DOMAIN s /\ s[place[2]] = s[d + 1]
                 /\ place[2] <= depth[c] \/ place[2] = d
      BY <1>3, <3>1, <3>2, <3>3, Zenon DEF StandsFor
    <3>4. place[2] <= depth[c] \/ place[2] = d => place[2] <= d
      BY <3>1, <3>2
    <3> QED
      BY <3>1, <3>3, <3>4, Zenon
  <2>3. \A i, j \in DOMAIN s : i < j => s[i] < s[j]
    BY <1>3 DEF LinesInv
  <2>4. \A i \in DOMAIN s : s[i] \in Nat
    <3>1. \A i \in DOMAIN s : s[i] \in Path
      OBVIOUS
    <3> QED
      BY <3>1, PathType
  <2>5. ASSUME place[1] = c PROVE FALSE
    <3>1. place[2] < d + 1
      BY <2>2, <2>5
    <3>2. s[place[2]] < s[d + 1]
      BY <2>1, <2>2, <2>3, <2>5, <3>1
    <3> QED
      BY <2>1, <2>2, <2>4, <2>5, <3>2
  <2> QED
    BY <2>5
<1> QED
  BY <1>1, <1>2, <1>3, <1>4, JoinedIsJoin

\* The mutation begins: it is at the head of every line it needs, so nobody else's is
\* inside any of them.
LEMMA RunServes ==
    ASSUME IInv, LinesInv, NEW c \in Caller, Run(c)
    PROVE  Host!Next
<1> DEFINE files == PathsOf(plan[c])
<1>1. /\ pc' = [pc EXCEPT ![c] = "running"] /\ pc[c] = "locking" /\ depth[c] = Len(plan[c])
      /\ queue' = queue /\ plan' = plan /\ depth' = depth
  BY DEF Run
<1>2. plan[c] \in Seq(Path) /\ queue \in [Path -> Seq(Caller \X Nat)] /\ pc \in [Caller -> {"idle", "locking", "running", "unlocking"}]
  BY DEF IInv, TypeOK
<1>3. files \subseteq Path /\ files = {plan[c][i] : i \in 1..depth[c]}
  BY <1>1, <1>2 DEF PathsOf
<1>4. ASSUME NEW p \in files
      PROVE  /\ queue[p] # <<>> /\ Head(queue[p])[1] = c
             /\ HostLine[p] # <<>> /\ Head(HostLine[p]) = c
  <2>1. p \in Path /\ queue[p] \in Seq(Caller \X Nat)
    BY <1>2, <1>3
  <2>2. PICK i \in 1..depth[c] : plan[c][i] = p
    BY <1>3
  <2>3. queue[p] # <<>> /\ Head(queue[p]) = <<c, i>>
    BY <2>2 DEF IInv, HeldAtHead
  <2>4. PICK place \in Caller \X Nat : TRUE
    BY <2>1, <2>3
  <2>5. HostLine[p] = Callers(queue[p])
    BY <2>1 DEF HostLine
  <2> QED
    BY <2>1, <2>3, <2>4, <2>5, CallersOf
<1>5. ASSUME NEW p \in Path
      PROVE  HostInside'[p] = IF p \in files THEN {c} ELSE HostInside[p]
  <2>1. ASSUME NEW e \in Caller, e # c
        PROVE  e \in HostInside'[p] <=> e \in HostInside[p]
    BY <1>1, <2>1 DEF HostInside, IInv, TypeOK
  <2>2. c \in HostInside'[p] <=> p \in files
    BY <1>1, <1>2, <1>3 DEF HostInside
  <2>3. c \notin HostInside[p]
    BY <1>1 DEF HostInside
  <2>4. \A e \in HostInside[p] : p \in files => e = c
    BY <1>4, InsideAtHead
  <2>5. HostInside[p] \subseteq Caller /\ HostInside'[p] \subseteq Caller
    BY DEF HostInside
  <2> HIDE DEF files
  <2> QED
    BY <2>1, <2>2, <2>3, <2>4, <2>5
<1>6. HostInside' = [p \in Path |-> IF p \in files THEN {c} ELSE HostInside[p]]
  <2>1. HostInside' = [p \in Path |-> HostInside'[p]]
    BY DEF HostInside
  <2> HIDE DEF files
  <2> QED
    BY <1>5, <2>1
<1>7. HostLine' = HostLine
  BY <1>1 DEF HostLine
<1>8. Host!Begin(c, files)
  BY <1>4, <1>6, <1>7 DEF Host!Begin, Host!AtHead
<1> QED
  BY <1>3, <1>8 DEF Host!Next

\* A mutation that is over leaves the innermost of its lines, and is still inside the
\* others: no path is twice in a plan.
LEMMA UnlockServes ==
    ASSUME IInv, LinesInv, NEW c \in Caller, Unlock(c)
    PROVE  Host!Next
<1> DEFINE left == plan[c][depth[c]]
<1>1. /\ pc[c] = "unlocking" /\ depth[c] > 0
      /\ depth' = [depth EXCEPT ![c] = @ - 1]
      /\ queue' = [queue EXCEPT ![left] = Tail(@)]
      /\ plan' = plan /\ pc' = pc
  BY DEF Unlock
<1>2. /\ depth \in [Caller -> Nat] /\ depth[c] <= Len(plan[c]) /\ plan[c] \in Seq(Path)
      /\ queue \in [Path -> Seq(Caller \X Nat)]
  BY DEF IInv, TypeOK
<1>3. left \in Path /\ depth[c] \in 1..depth[c] /\ depth[c] \in DOMAIN plan[c]
  BY <1>1, <1>2
<1>4. queue[left] # <<>> /\ Head(queue[left]) = <<c, depth[c]>>
  BY <1>3 DEF IInv, HeldAtHead
<1>5. /\ HostLine[left] # <<>> /\ Head(HostLine[left]) = c
      /\ Callers(Tail(queue[left])) = Tail(HostLine[left])
  <2>1. HostLine[left] = Callers(queue[left])
    BY <1>3 DEF HostLine
  <2>2. PICK q \in Seq(Caller \X Nat) : q = queue[left]
    BY <1>2, <1>3
  <2>3. PICK place \in Caller \X Nat : TRUE
    BY <1>4, <2>2
  <2>4. HostLine[left] # <<>> /\ Head(HostLine[left]) = Head(queue[left])[1]
        /\ Callers(Tail(queue[left])) = Tail(HostLine[left])
    BY <1>4, <2>1, <2>2, <2>3, CallersOf
  <2> QED
    BY <1>4, <2>4
<1>6. HostLine' = [HostLine EXCEPT ![left] = Tail(@)]
  <2> HIDE DEF left
  <2> QED
    BY <1>1, <1>2, <1>3, <1>5 DEF HostLine
<1>7. \A i \in 1..(depth[c] - 1) : plan[c][i] # left
  <2> SUFFICES ASSUME NEW i \in 1..(depth[c] - 1) PROVE plan[c][i] # left
    OBVIOUS
  <2>1. i \in DOMAIN plan[c] /\ i < depth[c]
    BY <1>2
  <2>2. plan[c][i] < plan[c][depth[c]]
    BY <1>3, <2>1 DEF LinesInv
  <2>3. plan[c][i] \in Nat /\ plan[c][depth[c]] \in Nat
    BY <1>2, <1>3, <2>1, PathType
  <2> QED
    BY <2>2, <2>3
<1>8. HostInside[left] = {c}
  <2>1. c \in HostInside[left]
    BY <1>1, <1>3 DEF HostInside
  <2>2. \A e \in HostInside[left] : e = c
    BY <1>3, <1>4, InsideAtHead
  <2> HIDE DEF left
  <2> QED
    BY <2>1, <2>2
<1>9. ASSUME NEW p \in Path
      PROVE  HostInside'[p] = IF p = left THEN {} ELSE HostInside[p]
  <2>1. ASSUME NEW e \in Caller, e # c
        PROVE  e \in HostInside'[p] <=> e \in HostInside[p]
    BY <1>1, <1>2, <2>1 DEF HostInside
  <2>2. c \in HostInside[p] <=> \E i \in 1..depth[c] : plan[c][i] = p
    BY <1>1 DEF HostInside
  <2>3. c \in HostInside'[p] <=> \E i \in 1..(depth[c] - 1) : plan[c][i] = p
    BY <1>1, <1>2 DEF HostInside
  <2>4. c \in HostInside'[p] <=> c \in HostInside[p] /\ p # left
    BY <1>1, <1>2, <1>7, <2>2, <2>3
  <2>5. HostInside[p] \subseteq Caller /\ HostInside'[p] \subseteq Caller
    BY DEF HostInside
  <2> HIDE DEF left
  <2> QED
    BY <1>8, <2>1, <2>4, <2>5
<1>10. HostInside' = [HostInside EXCEPT ![left] = {}]
  <2>1. HostInside' = [p \in Path |-> HostInside'[p]] /\ HostInside = [p \in Path |-> HostInside[p]]
    BY DEF HostInside
  <2> HIDE DEF left
  <2> QED
    BY <1>9, <2>1
<1>11. Host!Leave(c, left)
  BY <1>5, <1>6, <1>8, <1>10 DEF Host!Leave, Host!AtHead
<1> QED
  BY <1>3, <1>11 DEF Host!Next

LEMMA RestServes ==
    ASSUME IInv, NEW c \in Caller, Settle(c) \/ Done(c)
    PROVE  Host!vars' = Host!vars
<1>1. HostLine' = HostLine
  BY DEF Settle, Done, HostLine
<1>2. CASE Settle(c)
  <2>1. HostInside' = HostInside
    BY <1>2 DEF Settle, HostInside, IInv, TypeOK
  <2> QED
    BY <1>1, <2>1 DEF Host!vars
<1>3. CASE Done(c)
  <2>1. HostInside' = HostInside
    BY <1>3 DEF Done, HostInside, IInv, TypeOK
  <2> QED
    BY <1>1, <2>1 DEF Host!vars
<1> QED
  BY <1>2, <1>3

LEMMA StepServes ==
    IInv /\ LinesInv /\ [Next]_vars => [Host!Next]_(Host!vars)
<1> SUFFICES ASSUME IInv, LinesInv, [Next]_vars, Host!vars' # Host!vars PROVE Host!Next
  OBVIOUS
<1>1. CASE Next
  <2>1. PICK c \in Caller : Call(c) \/ Step(c)
    BY <1>1 DEF Next
  <2> QED
    BY <2>1, CallServes, LockServes, RunServes, UnlockServes, RestServes DEF Step
<1>2. CASE UNCHANGED vars
  BY <1>2 DEF vars, Host!vars, HostLine, HostInside
<1> QED
  BY <1>1, <1>2

\* Nested in sorted order and without duplicates, the host's queues stay queues: every
\* file serves its callers in the order they came, one mutation at a time, and nobody
\* waits for itself, for any callers and any lists withLockedPaths is given.
THEOREM ServesInTurn == Spec => Host!Spec /\ ImplementsHostQueue
<1>1. Init => Host!Init
  <2>1. Callers(<<>>) = <<>>
    BY DEF Callers
  <2> QED
    BY <2>1 DEF Init, Host!Init, HostLine, HostInside
<1>2. IInv /\ LinesInv /\ [Next]_vars => [Host!Next]_(Host!vars)
  BY StepServes
<1>3. IInv /\ LinesInv /\ [Next]_vars => [Host!vars' # Host!vars => Host!Next]_vars
  BY <1>2
<1> QED
  BY <1>1, <1>2, <1>3, LinesHold, PTL DEF Spec, Host!Spec, ImplementsHostQueue
=============================================================================
