-------------------------- MODULE RoadmapTasksProofs --------------------------
(***************************************************************************)
(* For any sessions, any number of tasks, batches and process deaths: what *)
(* the handlers of RoadmapTasks keep of the tasks they were given.         *)
(*                                                                         *)
(* The properties speak of births, the identities of tasks; the code knows *)
(* ids only.  What joins the two is RecordsTrue: every record, wherever it *)
(* is kept or held, is about a task that was created under its id.  With   *)
(* it a task that leaves the roadmap under an id is, while ids are unique, *)
(* the task the handler has in hand.                                       *)
(*                                                                         *)
(* The last section is about what a create makes of its inputs, which says *)
(* nothing of the state.                                                   *)
(***************************************************************************)
EXTENDS RepeatedCreates, FiniteSetTheorems, WellFoundedInduction, TLAPS

\* The record is about a task created under its id.
TrueOf(given, record) == record.birth \in DOMAIN given /\ given[record.birth] = record.id
True(record) == TrueOf(births, record)

RecordsTrue ==
    /\ \A id \in DOMAIN tasks : True(tasks[id])
    /\ \A snapshot \in archive : True(snapshot)
    /\ \A report \in reports : True(report)

\* The n-th task has no id above n: a new id is one more than some id, or one.
IdsBounded == \A birth \in DOMAIN births : births[birth] <= birth

\* What the files and the history keep to.
FilesInv ==
    /\ FilesOK
    /\ births \in Seq(Id) /\ Len(births) <= MaxTasks
    /\ cleared \cup lost \subseteq DOMAIN births
    /\ crashes \in 0..MaxCrashes
    /\ RecordsTrue
    /\ IdsBounded

\* What a handler has in hand: a true record, and before the close a report,
\* for no report is ever removed.
CallRecord == [stage : Stage, task : Task \cup {NoTask}, status : Status]
CallOK(s) ==
    /\ call[s].stage = "idle" <=> call[s].task = NoTask
    /\ call[s].stage = "append" => holder = s
    /\ holder = s => torn \/ call[s].stage = "append"
    /\ call[s].stage # "idle" => True(call[s].task)
    /\ call[s].stage = "close" => hasPassingTaskCloseValidation(Target(s))
CallsInv ==
    /\ call \in [Session -> CallRecord]
    /\ holder \in Session \cup {NoSession}
    /\ torn \in BOOLEAN
    /\ \A s \in Session : CallOK(s)

BaseInv == FilesInv /\ CallsInv
IInv == BaseInv /\ NothingLost /\ FreshIds

-----------------------------------------------------------------------------
(* Numbers, and lists.                                                      *)

\* A set of natural numbers has a least one: induction, as the lemmas below use it.
LEMMA LeastNumber ==
    ASSUME NEW S \in SUBSET Nat, S # {}
    PROVE  \E m \in S : \A k \in S : m <= k
<1>1. \E m \in S : \A k \in S : ~ (<<k, m>> \in OpToRel(<, Nat))
  BY WFMin, NatLessThanWellFounded
<1>2. \A m, k \in S : ~ (<<k, m>> \in OpToRel(<, Nat)) => m <= k
  BY DEF OpToRel
<1> QED
  BY <1>1, <1>2

\* Induction up to n, over a set.
LEMMA UpTo ==
    ASSUME NEW n \in Nat, NEW S, 0 \in S, \A m \in 0..n : m < n /\ m \in S => m + 1 \in S
    PROVE  0..n \subseteq S
<1> DEFINE bad == {m \in 0..n : m \notin S}
<1>1. SUFFICES ASSUME bad # {} PROVE FALSE
  OBVIOUS
<1>2. PICK m \in bad : \A k \in bad : m <= k
  <2>1. bad \in SUBSET Nat
    OBVIOUS
  <2> HIDE DEF bad
  <2> QED
    BY <1>1, <2>1, LeastNumber
<1>3. m \in 0..n /\ m \notin S /\ m # 0
  OBVIOUS
<1>4. m - 1 \in 0..n /\ m - 1 < n /\ m - 1 \in S
  BY <1>2, <1>3
<1>5. (m - 1) + 1 \in S
  BY <1>4
<1> QED
  BY <1>3, <1>5

\* Max of FiniteSetsExt is the greatest number of a bounded set.
LEMMA MaxGreatest ==
    ASSUME NEW n \in Nat, NEW S \in SUBSET (0..n), S # {}
    PROVE  Max(S) \in S /\ \A k \in S : k <= Max(S)
<1> DEFINE below == {n - k : k \in S}
<1>1. \A k \in S : k \in 0..n /\ n - k \in Nat
  OBVIOUS
<1>2. below \in SUBSET Nat /\ below # {}
  BY <1>1
<1>3. PICK d \in below : \A k \in below : d <= k
  BY <1>2, LeastNumber
<1>4. PICK m \in S : d = n - m
  BY <1>3
<1>5. ASSUME NEW k \in S PROVE m >= k
  BY <1>1, <1>3, <1>4
<1> QED
  BY <1>1, <1>5 DEF Max

-----------------------------------------------------------------------------
(* Without, the filter of a list.                                           *)

\* The step of its recursion, and a solution up to m.
KeptStep(ids, gone, kept, n) ==
    IF n = 0 THEN <<>>
    ELSE IF ids[n] \in gone THEN kept[n - 1] ELSE Append(kept[n - 1], ids[n])
Solves(ids, gone, kept, m) == kept = [n \in 0..m |-> KeptStep(ids, gone, kept, n)]

\* The recursion has a solution on every list.
LEMMA WithoutDefined ==
    ASSUME NEW ids, NEW gone, NEW len \in Nat
    PROVE  \E kept : Solves(ids, gone, kept, len)
<1> DEFINE S == {m \in 0..len : \E kept : Solves(ids, gone, kept, m)}
<1>1. 0 \in S
  <2>1. Solves(ids, gone, [n \in 0..0 |-> <<>>], 0)
    BY DEF Solves, KeptStep
  <2> QED
    BY <2>1
<1>2. ASSUME NEW m \in 0..len, m < len, m \in S
      PROVE  m + 1 \in S
  <2>1. PICK kept : Solves(ids, gone, kept, m)
    BY <1>2
  <2> DEFINE more == [n \in 0..(m + 1) |-> IF n <= m THEN kept[n] ELSE KeptStep(ids, gone, kept, n)]
  <2>2. ASSUME NEW n \in 0..(m + 1)
        PROVE  more[n] = KeptStep(ids, gone, more, n)
    <3>1. n # 0 => more[n - 1] = kept[n - 1]
      OBVIOUS
    <3>2. more[n] = KeptStep(ids, gone, kept, n)
      BY <2>1 DEF Solves
    <3> HIDE DEF more
    <3> QED
      BY <3>1, <3>2 DEF KeptStep
  <2>3. Solves(ids, gone, more, m + 1)
    <3>1. more = [n \in 0..(m + 1) |-> more[n]]
      OBVIOUS
    <3> HIDE DEF more
    <3> QED
      BY <2>2, <3>1 DEF Solves
  <2> QED
    BY <2>3, <1>2
<1>3. 0..len \subseteq S
  <2> HIDE DEF S
  <2> QED
    BY <1>1, <1>2, UpTo
<1> QED
  BY <1>3

\* What is left is what was not to go, each as often as before.
LEMMA WithoutKeeps ==
    ASSUME NEW T, NEW ids \in Seq(T), NEW gone
    PROVE  /\ Without(ids, gone) \in Seq(T)
           /\ ToSet(Without(ids, gone)) = ToSet(ids) \ gone
           /\ IsInjective(ids) => IsInjective(Without(ids, gone))
<1> DEFINE kept == CHOOSE f : Solves(ids, gone, f, Len(ids))
<1>1. Solves(ids, gone, kept, Len(ids)) /\ Len(ids) \in Nat
  BY WithoutDefined
<1>2. Without(ids, gone) = kept[Len(ids)]
  BY DEF Without, Solves, KeptStep
<1> HIDE DEF kept
<1> DEFINE first(n) == {ids[i] : i \in 1..n}
           Good(n) == /\ kept[n] \in Seq(T)
                      /\ ToSet(kept[n]) = first(n) \ gone
                      /\ IsInjective(ids) => IsInjective(kept[n])
           S == {n \in 0..Len(ids) : Good(n)}
<1>3. 0 \in S
  <2>1. kept[0] = <<>>
    BY <1>1 DEF Solves, KeptStep
  <2>2. first(0) = {}
    OBVIOUS
  <2>3. 0 \in 0..Len(ids)
    BY <1>1
  <2>4. <<>> \in Seq(T) /\ DOMAIN <<>> = {}
    OBVIOUS
  <2>5. ToSet(<<>>) = {}
    BY <2>4 DEF ToSet
  <2>6. IsInjective(<<>>)
    BY <2>4 DEF IsInjective
  <2>7. Good(0)
    BY <2>1, <2>2, <2>4, <2>5, <2>6
  <2> QED
    BY <2>3, <2>7
<1>4. ASSUME NEW n \in 0..Len(ids), n < Len(ids), n \in S
      PROVE  n + 1 \in S
  <2>1. kept[n + 1] = IF ids[n + 1] \in gone THEN kept[n] ELSE Append(kept[n], ids[n + 1])
    <3>1. n + 1 \in 0..Len(ids) /\ n + 1 # 0 /\ (n + 1) - 1 = n
      BY <1>1, <1>4
    <3>2. kept[n + 1] = KeptStep(ids, gone, kept, n + 1)
      BY <1>1, <3>1 DEF Solves
    <3> QED
      BY <3>1, <3>2 DEF KeptStep
  <2>2. n + 1 \in DOMAIN ids /\ ids[n + 1] \in T /\ n + 1 \in 0..Len(ids)
    BY <1>4
  <2>5. first(n + 1) = first(n) \cup {ids[n + 1]}
    <3>1. 1..(n + 1) = (1..n) \cup {n + 1}
      BY <1>4
    <3> QED
      BY <3>1
  <2>3. CASE ids[n + 1] \in gone
    BY <1>4, <2>1, <2>2, <2>3, <2>5
  <2>4. CASE ids[n + 1] \notin gone
    <3> DEFINE more == Append(kept[n], ids[n + 1])
    <3>1. /\ more \in Seq(T)
          /\ DOMAIN more = DOMAIN kept[n] \cup {Len(kept[n]) + 1}
          /\ \A i \in DOMAIN kept[n] : more[i] = kept[n][i]
          /\ more[Len(kept[n]) + 1] = ids[n + 1]
      BY <1>4, <2>2
    <3> HIDE DEF more
    <3>2. ToSet(more) = first(n + 1) \ gone
      <4>1. ToSet(more) = ToSet(kept[n]) \cup {ids[n + 1]}
        BY <3>1 DEF ToSet
      <4>2. ToSet(kept[n]) = first(n) \ gone
        BY <1>4
      <4> HIDE DEF first
      <4> QED
        BY <2>4, <2>5, <4>1, <4>2
    <3>3. ASSUME IsInjective(ids) PROVE IsInjective(more)
      <4>1. \A i \in DOMAIN kept[n] : kept[n][i] # ids[n + 1]
        <5> SUFFICES ASSUME NEW i \in DOMAIN kept[n] PROVE kept[n][i] # ids[n + 1]
          OBVIOUS
        <5>1. kept[n][i] \in first(n)
          BY <1>4 DEF ToSet
        <5>2. PICK j \in 1..n : kept[n][i] = ids[j]
          BY <5>1
        <5>3. j \in DOMAIN ids /\ j # n + 1
          BY <1>4
        <5> QED
          BY <2>2, <3>3, <5>2, <5>3 DEF IsInjective
      <4> QED
        BY <1>4, <3>1, <3>3, <4>1 DEF IsInjective
    <3>4. kept[n + 1] = more
      BY <2>1, <2>4 DEF more
    <3> QED
      BY <1>4, <2>2, <3>1, <3>2, <3>3, <3>4
  <2> QED
    BY <2>3, <2>4
<1>5. Len(ids) \in S
  <2> HIDE DEF S
  <2>1. 0..Len(ids) \subseteq S
    BY <1>1, <1>3, <1>4, UpTo
  <2> QED
    BY <1>1, <2>1
<1> QED
  BY <1>2, <1>5 DEF ToSet

\* n numbers from k on.
LEMMA Numbers ==
    ASSUME NEW k \in Nat, NEW n \in Nat
    PROVE  LET numbers == [i \in 1..n |-> k + i - 1]
           IN  /\ numbers \in Seq(k..(k + n - 1)) /\ Len(numbers) = n
               /\ ToSet(numbers) = k..(k + n - 1)
               /\ IsInjective(numbers)
<1> DEFINE numbers == [i \in 1..n |-> k + i - 1]
<1>1. numbers \in Seq(k..(k + n - 1)) /\ Len(numbers) = n
  OBVIOUS
<1>2. ASSUME NEW j \in k..(k + n - 1) PROVE \E i \in 1..n : numbers[i] = j
  <2>1. j - k + 1 \in 1..n /\ numbers[j - k + 1] = j
    OBVIOUS
  <2> QED
    BY <2>1
<1>3. DOMAIN numbers = 1..n /\ \A i \in 1..n : numbers[i] = k + i - 1
  OBVIOUS
<1>4. \A i \in 1..n : k + i - 1 \in k..(k + n - 1)
  OBVIOUS
<1> HIDE DEF numbers
<1>5. ToSet(numbers) = k..(k + n - 1)
  <2>1. ToSet(numbers) = {numbers[i] : i \in 1..n}
    BY <1>3 DEF ToSet
  <2>2. \A i \in 1..n : numbers[i] \in k..(k + n - 1)
    BY <1>3, <1>4
  <2> QED
    BY <1>2, <2>1, <2>2
<1>6. IsInjective(numbers)
  BY <1>3 DEF IsInjective
<1> QED
  BY <1>1, <1>5, <1>6 DEF numbers

\* Two lists without a common element, one after the other.
LEMMA Appended ==
    ASSUME NEW T, NEW p \in Seq(T), NEW q \in Seq(T)
    PROVE  /\ ToSet(p \o q) = ToSet(p) \cup ToSet(q)
           /\ IsInjective(p) /\ IsInjective(q) /\ ToSet(p) \cap ToSet(q) = {}
                  => IsInjective(p \o q)
           /\ IsInjective(p \o q) => IsInjective(p)
<1> DEFINE all == p \o q
<1>1. /\ DOMAIN all = 1..(Len(p) + Len(q))
      /\ \A i \in DOMAIN all : all[i] = IF i <= Len(p) THEN p[i] ELSE q[i - Len(p)]
      /\ DOMAIN p = 1..Len(p) /\ DOMAIN q = 1..Len(q)
      /\ Len(p) \in Nat /\ Len(q) \in Nat
  OBVIOUS
<1> HIDE DEF all
<1>2. /\ \A i \in DOMAIN p : i \in DOMAIN all /\ all[i] = p[i]
      /\ \A i \in DOMAIN q : i + Len(p) \in DOMAIN all /\ all[i + Len(p)] = q[i]
  BY <1>1
<1>3. \A i \in DOMAIN all :
          \/ i \in DOMAIN p /\ all[i] = p[i]
          \/ i - Len(p) \in DOMAIN q /\ all[i] = q[i - Len(p)]
  BY <1>1
<1>4. ToSet(all) = ToSet(p) \cup ToSet(q)
  BY <1>2, <1>3 DEF ToSet
<1>5. IsInjective(all) => IsInjective(p)
  BY <1>2 DEF IsInjective
<1>6. ASSUME IsInjective(p), IsInjective(q), ToSet(p) \cap ToSet(q) = {}
      PROVE  IsInjective(all)
  <2>1. \A i \in DOMAIN p, j \in DOMAIN q : p[i] # q[j]
    BY <1>6 DEF ToSet
  <2>2. SUFFICES ASSUME NEW i \in DOMAIN all, NEW j \in DOMAIN all, all[i] = all[j] PROVE i = j
    BY DEF IsInjective
  <2>3. CASE i \in DOMAIN p /\ all[i] = p[i]
    BY <1>3, <1>6, <2>1, <2>2, <2>3 DEF IsInjective
  <2>4. CASE i - Len(p) \in DOMAIN q /\ all[i] = q[i - Len(p)]
    <3>1. j - Len(p) \in DOMAIN q /\ all[j] = q[j - Len(p)]
      BY <1>3, <2>1, <2>2, <2>4
    <3>2. i - Len(p) = j - Len(p)
      BY <1>6, <2>2, <2>4, <3>1 DEF IsInjective
    <3> QED
      BY <1>1, <3>2
  <2> QED
    BY <1>3, <2>3, <2>4
<1> QED
  BY <1>4, <1>5, <1>6 DEF all

-----------------------------------------------------------------------------
(* Creating.                                                                *)

\* A new id is above every id in the two files, and no higher than the number
\* of tasks there have been allows.
LEMMA NewIdAbove ==
    ASSUME FilesInv
    PROVE  /\ nextTaskId \in 1..(Len(births) + 1)
           /\ \A id \in DOMAIN tasks : id < nextTaskId
           /\ \A snapshot \in archive : snapshot.id < nextTaskId
<1> DEFINE used == {0} \cup DOMAIN tasks \cup {snapshot.id : snapshot \in archive}
<1>1. Len(births) \in Nat /\ DOMAIN births = 1..Len(births)
  BY DEF FilesInv
<1>2. ASSUME NEW id \in used PROVE id \in 0..Len(births)
  <2>1. CASE id = 0
    BY <1>1, <2>1
  <2>2. ASSUME NEW record \in Task, True(record), id = record.id PROVE id \in 0..Len(births)
    BY <1>1, <2>2 DEF FilesInv, IdsBounded, True, TrueOf, Task, Id
  <2>3. CASE id \in DOMAIN tasks
    BY <2>2, <2>3 DEF FilesInv, FilesOK, RecordsTrue
  <2>4. CASE id \in {snapshot.id : snapshot \in archive}
    BY <2>2, <2>4 DEF FilesInv, FilesOK, RecordsTrue
  <2> QED
    BY <2>1, <2>3, <2>4
<1>3. 0 \in used /\ DOMAIN tasks \subseteq used /\ \A snapshot \in archive : snapshot.id \in used
  OBVIOUS
<1>4. nextTaskId = Max(used) + 1
  BY DEF nextTaskId
<1> HIDE DEF used
<1>5. used \in SUBSET (0..Len(births)) /\ used # {}
  BY <1>2, <1>3
<1>6. PICK top : top = Max(used) /\ top \in used /\ \A k \in used : k <= top
  BY <1>1, <1>5, MaxGreatest
<1>7. top \in 0..Len(births)
  BY <1>5, <1>6
<1>8. \A id \in DOMAIN tasks : id \in 0..Len(births) /\ id <= top
  BY <1>3, <1>5, <1>6
<1>9. \A snapshot \in archive : snapshot.id \in 0..Len(births) /\ snapshot.id <= top
  BY <1>3, <1>5, <1>6
<1> QED
  BY <1>1, <1>4, <1>6, <1>7, <1>8, <1>9

\* The files after a create that made n new tasks.
LEMMA CreateKeepsFiles ==
    ASSUME FilesInv, NEW s \in Session, NEW n \in 1..MaxBatch, CreateTasks(s, n)
    PROVE  /\ FilesInv'
           /\ births \in Seq(Int) /\ Len(births') = Len(births) + n
           /\ \A b \in DOMAIN births : b \in DOMAIN births' /\ births'[b] = births[b]
           /\ \A b \in DOMAIN births' \ DOMAIN births : births'[b] \in nextTaskId..(nextTaskId + n - 1)
           /\ HotBirths' = HotBirths \cup (DOMAIN births' \ DOMAIN births)
<1>k. PICK k : k = nextTaskId
  OBVIOUS
<1>b. PICK b0 : b0 = Len(births)
  OBVIOUS
<1> DEFINE new == k..(k + n - 1)
           numbers == [i \in 1..n |-> k + i - 1]
           record(id) == [id |-> id, status |-> "todo", birth |-> b0 + 1 + (id - k)]
<1>1. /\ n \in Nat /\ n >= 1 /\ MaxTasks \in Nat /\ b0 \in Nat /\ b0 + n <= MaxTasks
      /\ births \in Seq(Id) /\ DOMAIN births = 1..b0
  BY <1>b, BoundsAreNaturals DEF CreateTasks, FilesInv
<1>2. k \in 1..(b0 + 1) /\ (\A id \in DOMAIN tasks : id < k) /\ \A snapshot \in archive : snapshot.id < k
  BY <1>k, <1>1, <1>b, NewIdAbove
<1>3. /\ tasks' = [id \in DOMAIN tasks \cup new |-> IF id \in new THEN record(id) ELSE tasks[id]]
      /\ order' = order \o numbers
      /\ births' = births \o numbers
      /\ UNCHANGED <<archive, reports, call, cleared, lost, crashes>>
  BY <1>k, <1>b DEF CreateTasks
<1>4. /\ numbers \in Seq(new) /\ Len(numbers) = n /\ ToSet(numbers) = new /\ IsInjective(numbers)
      /\ \A i \in 1..n : numbers[i] = k + i - 1
  BY <1>1, <1>2, Numbers
<1> HIDE DEF numbers, record, new
<1>5. new \subseteq Id
  BY <1>1, <1>2 DEF Id, new
<1>6. /\ births' \in Seq(Id) /\ Len(births') = b0 + n
      /\ \A b \in 1..b0 : births'[b] = births[b]
      /\ \A b \in (b0 + 1)..(b0 + n) : births'[b] = k + (b - b0) - 1
  <2>1. numbers \in Seq(Id)
    BY <1>1, <1>4, <1>5
  <2>2. /\ births \o numbers \in Seq(Id) /\ Len(births \o numbers) = b0 + n
        /\ \A i \in 1..(b0 + n) : (births \o numbers)[i] =
                IF i <= b0 THEN births[i] ELSE numbers[i - b0]
    BY <1>1, <1>4, <1>b, <2>1
  <2>3. births' \in Seq(Id) /\ Len(births') = b0 + n
    BY <1>3, <2>2
  <2>4. \A i \in 1..(b0 + n) : births'[i] = IF i <= b0 THEN births[i] ELSE numbers[i - b0]
    BY <1>3, <2>2
  <2>5. \A b \in 1..b0 : b \in 1..(b0 + n) /\ b <= b0
    BY <1>1
  <2>6. \A b \in (b0 + 1)..(b0 + n) : b \in 1..(b0 + n) /\ ~ (b <= b0) /\ b - b0 \in 1..n
    BY <1>1
  <2> QED
    BY <1>4, <2>3, <2>4, <2>5, <2>6
<1>7. /\ DOMAIN births' = 1..(b0 + n)
      /\ DOMAIN births' \ DOMAIN births = (b0 + 1)..(b0 + n)
  BY <1>1, <1>6
<1>8. ASSUME NEW id \in new
      PROVE  record(id) \in Task /\ record(id).id = id /\ TrueOf(births', record(id))
  <2>1. b0 + 1 + (id - k) \in (b0 + 1)..(b0 + n) /\ id \in Nat
    BY <1>1, <1>2 DEF new
  <2>2. births'[b0 + 1 + (id - k)] = id
    BY <1>1, <1>2, <1>6, <2>1
  <2> QED
    BY <1>1, <1>5, <1>7, <2>1, <2>2 DEF record, TrueOf, Task, Status, OpenStatus, ClosedStatus
<1>9. \A r : True(r) => True(r)'
  BY <1>1, <1>6, <1>7 DEF True, TrueOf
<1>10. FilesOK'
  <2>1. DOMAIN tasks' = DOMAIN tasks \cup new
    BY <1>3
  <2>2. \A id \in DOMAIN tasks' : tasks'[id] \in Task /\ tasks'[id].id = id
    BY <1>3, <1>8 DEF FilesInv, FilesOK
  <2>3. ToSet(order') = DOMAIN tasks' /\ IsInjective(order')
    <3>1. order \in Seq(Id) /\ numbers \in Seq(Id)
      BY <1>4, <1>5 DEF FilesInv, FilesOK
    <3>2. new \cap DOMAIN tasks = {}
      BY <1>2 DEF new
    <3>3. ToSet(order \o numbers) = DOMAIN tasks \cup new /\ IsInjective(order \o numbers)
      BY <1>4, <3>1, <3>2, Appended DEF FilesInv, FilesOK
    <3> QED
      BY <1>3, <2>1, <3>3
  <2>4. order' \in Seq(Id)
    BY <1>3, <1>4, <1>5 DEF FilesInv, FilesOK
  <2> QED
    BY <1>3, <1>5, <2>1, <2>2, <2>3, <2>4 DEF FilesInv, FilesOK
<1>11. RecordsTrue'
  <2>1. DOMAIN tasks' = DOMAIN tasks \cup new
    BY <1>3
  <2>2. \A id \in DOMAIN tasks' : tasks'[id] = IF id \in new THEN record(id) ELSE tasks[id]
    BY <1>3
  <2>3. \A id \in DOMAIN tasks' : True(tasks[id])' 
    BY <1>8, <1>9, <2>1, <2>2 DEF FilesInv, RecordsTrue, True
  <2> QED
    BY <1>3, <1>9, <2>3 DEF FilesInv, RecordsTrue
<1>12. IdsBounded'
  <2>1. \A b \in 1..b0 : births[b] \in Int /\ births[b] <= b
    BY <1>1 DEF FilesInv, IdsBounded, Id
  <2> QED
    BY <1>1, <1>2, <1>6, <1>7, <2>1 DEF IdsBounded
<1>13. HotBirths' = HotBirths \cup (DOMAIN births' \ DOMAIN births)
  <2>1. \A id \in DOMAIN tasks : id \notin new
    BY <1>2 DEF new
  <2>2. \A id \in new : tasks'[id].birth = b0 + 1 + (id - k)
    BY <1>3 DEF record
  <2>3. \A b \in (b0 + 1)..(b0 + n) : \E id \in new : b = b0 + 1 + (id - k)
    <3>1. \A b \in (b0 + 1)..(b0 + n) : b - b0 - 1 + k \in new /\ b = b0 + 1 + ((b - b0 - 1 + k) - k)
      BY <1>1, <1>2 DEF new
    <3> QED
      BY <3>1
  <2>4. \A id \in new : b0 + 1 + (id - k) \in (b0 + 1)..(b0 + n)
    BY <1>1, <1>2 DEF new
  <2>5. HotBirths' = {tasks[id].birth : id \in DOMAIN tasks} \cup {b0 + 1 + (id - k) : id \in new}
    BY <1>3, <2>1, <2>2 DEF HotBirths
  <2>6. {b0 + 1 + (id - k) : id \in new} = (b0 + 1)..(b0 + n)
    BY <2>3, <2>4
  <2> QED
    BY <1>7, <2>5, <2>6 DEF HotBirths
<1> QED
  <2>1. FilesInv'
    BY <1>1, <1>3, <1>6, <1>7, <1>10, <1>11, <1>12 DEF FilesInv
  <2>2. births \in Seq(Int)
    BY <1>1 DEF Id
  <2>3. \A b \in DOMAIN births : b \in DOMAIN births' /\ births'[b] = births[b]
    BY <1>1, <1>6, <1>7
  <2>4. \A b \in DOMAIN births' \ DOMAIN births :
            births'[b] \in nextTaskId..(nextTaskId + n - 1)
    BY <1>k, <1>1, <1>2, <1>6, <1>7
  <2> QED
    BY <1>6, <1>13, <1>b, <2>1, <2>2, <2>3, <2>4

-----------------------------------------------------------------------------
(* The steps that write the files otherwise.                                *)

\* A status written under the lock stays with the task it is about.
LEMMA SetStatusKeepsFiles ==
    ASSUME FilesInv, NEW s \in Session, NEW status \in Status, SetStatus(s, status)
    PROVE  FilesInv' /\ HotBirths' = HotBirths
<1>1. /\ Target(s) \in DOMAIN tasks
      /\ tasks' = [tasks EXCEPT ![Target(s)].status = status]
      /\ UNCHANGED <<order, archive, reports, births, cleared, lost, crashes>>
  BY DEF SetStatus, Hot, history
<1>2. DOMAIN tasks' = DOMAIN tasks
  BY <1>1
<1>3. ASSUME NEW id \in DOMAIN tasks
      PROVE  /\ tasks'[id] \in Task /\ tasks'[id].id = id
             /\ tasks'[id].birth = tasks[id].birth
  <2>1. tasks[id] \in Task /\ tasks[id].id = id
    BY DEF FilesInv, FilesOK
  <2>2. tasks'[id] = IF id = Target(s) THEN [tasks[id] EXCEPT !.status = status] ELSE tasks[id]
    BY <1>1
  <2> QED
    BY <2>1, <2>2 DEF Task
<1>4. FilesOK'
  BY <1>1, <1>2, <1>3 DEF FilesInv, FilesOK
<1>5. RecordsTrue'
  BY <1>1, <1>2, <1>3 DEF FilesInv, FilesOK, RecordsTrue, True, TrueOf
<1>6. HotBirths' = HotBirths
  BY <1>2, <1>3 DEF HotBirths
<1> QED
  BY <1>1, <1>4, <1>5, <1>6 DEF FilesInv, IdsBounded

\* Nothing of what FilesInv says depends on the handlers, or on how far a write is.
LEMMA UnchangedKeepsFiles ==
    ASSUME FilesInv, UNCHANGED <<tasks, order, archive, reports, history>>
    PROVE  FilesInv' /\ HotBirths' = HotBirths
BY DEF FilesInv, FilesOK, RecordsTrue, True, TrueOf, IdsBounded, HotBirths, history

\* The first write of an archiving takes the one task off the roadmap.
LEMMA ArchiveKeepsFiles ==
    ASSUME FilesInv, NEW s \in Session, Archive(s)
    PROVE  /\ FilesInv'
           /\ \A id \in DOMAIN tasks : id # Target(s) => id \in DOMAIN tasks' /\ tasks'[id] = tasks[id]
           /\ HotBirths' \subseteq HotBirths
<1>1. /\ tasks' = [id \in DOMAIN tasks \ Archived(s) |-> tasks[id]]
      /\ order' = Without(order, Archived(s))
      /\ UNCHANGED <<archive, reports, births, cleared, lost, crashes>>
  BY DEF Archive, history
<1>2. order' \in Seq(Id) /\ ToSet(order') = DOMAIN tasks \ Archived(s) /\ IsInjective(order')
  BY <1>1, WithoutKeeps DEF FilesInv, FilesOK
<1>3. DOMAIN tasks' = DOMAIN tasks \ Archived(s) /\ \A id \in DOMAIN tasks' : tasks'[id] = tasks[id]
  BY <1>1
<1>4. FilesOK'
  BY <1>1, <1>2, <1>3 DEF FilesInv, FilesOK
<1>5. RecordsTrue'
  BY <1>1, <1>3 DEF FilesInv, RecordsTrue, True, TrueOf
<1> QED
  BY <1>1, <1>3, <1>4, <1>5 DEF FilesInv, IdsBounded, Archived, HotBirths

\* The second one puts the record in hand into the archive.
LEMMA AppendKeepsFiles ==
    ASSUME BaseInv, NEW s \in Session, AppendSnapshot(s)
    PROVE  FilesInv' /\ HotBirths' = HotBirths
<1>1. /\ archive' = archive \cup {call[s].task}
      /\ UNCHANGED <<tasks, order, reports, births, cleared, lost, crashes>>
      /\ call[s].stage = "append"
  BY DEF AppendSnapshot, history
<1>2. call[s].task \in Task /\ True(call[s].task)
  BY <1>1 DEF BaseInv, CallsInv, CallRecord, CallOK
<1> QED
  BY <1>1, <1>2 DEF BaseInv, FilesInv, FilesOK, RecordsTrue, True, TrueOf, IdsBounded, HotBirths

\* Erasing the archive, a report, and the death of the process.
LEMMA OthersKeepFiles ==
    ASSUME BaseInv
    PROVE  /\ \A s \in Session : ClearArchive(s) => FilesInv' /\ HotBirths' = HotBirths
           /\ \A id \in Id : Validate(id) => FilesInv' /\ HotBirths' = HotBirths
           /\ Crash => FilesInv' /\ HotBirths' \subseteq HotBirths
<1>1. ASSUME NEW s \in Session, ClearArchive(s) PROVE FilesInv' /\ HotBirths' = HotBirths
  <2>1. cleared' \subseteq DOMAIN births
    BY <1>1 DEF ClearArchive, BaseInv, FilesInv, RecordsTrue, True, TrueOf
  <2> QED
    BY <1>1, <2>1 DEF ClearArchive, BaseInv, FilesInv, FilesOK, RecordsTrue, True, TrueOf, IdsBounded, HotBirths
<1>2. ASSUME NEW id \in Id, Validate(id) PROVE FilesInv' /\ HotBirths' = HotBirths
  <2> DEFINE report == [id |-> id, birth |-> tasks[id].birth]
  <2>1. report \in Report /\ True(report)
    BY <1>2 DEF Validate, Hot, BaseInv, FilesInv, FilesOK, RecordsTrue, True, TrueOf, Task, Report
  <2> QED
    BY <1>2, <2>1 DEF Validate, BaseInv, FilesInv, FilesOK, RecordsTrue, True, TrueOf, IdsBounded, HotBirths, history
<1>3. ASSUME Crash PROVE FilesInv' /\ HotBirths' \subseteq HotBirths
  <2>1. BirthsInHand \subseteq DOMAIN births /\ HotBirths \subseteq DOMAIN births
    BY DEF BirthsInHand, HotBirths, BaseInv, FilesInv, RecordsTrue, CallsInv, CallOK, True, TrueOf
  <2>2. lost' \subseteq DOMAIN births
    BY <1>3, <2>1 DEF Crash, BaseInv, FilesInv
  <2>3. crashes' \in 0..MaxCrashes
    BY <1>3, BoundsAreNaturals DEF Crash, BaseInv, FilesInv
  <2>4. CASE torn
    <3>1. DOMAIN <<>> = {} /\ <<>> \in Seq(Id)
      OBVIOUS
    <3>2. ToSet(<<>>) = {} /\ IsInjective(<<>>)
      BY <3>1 DEF ToSet, IsInjective
    <3>3. tasks' = <<>> /\ order' = <<>> /\ UNCHANGED <<archive, reports, births, cleared>>
      BY <1>3, <2>4 DEF Crash
    <3>4. FilesOK' /\ RecordsTrue' /\ HotBirths' = {}
      BY <3>1, <3>2, <3>3 DEF BaseInv, FilesInv, FilesOK, RecordsTrue, True, TrueOf, HotBirths
    <3> QED
      BY <2>2, <2>3, <3>3, <3>4 DEF BaseInv, FilesInv, IdsBounded
  <2>5. CASE ~torn
    BY <1>3, <2>2, <2>3, <2>5 DEF Crash, BaseInv, FilesInv, FilesOK, RecordsTrue, True, TrueOf, IdsBounded, HotBirths
  <2> QED
    BY <2>4, <2>5
<1> QED
  BY <1>1, <1>2, <1>3

-----------------------------------------------------------------------------
(* The handlers.                                                            *)

\* Records stay true and reports stay: what a step does not take from a handler.
StillTrue == (\A record : True(record) => True(record)') /\ reports \subseteq reports'

LEMMA NothingFalsified ==
    ASSUME UNCHANGED births, reports' = reports
    PROVE  StillTrue
BY DEF StillTrue, True, TrueOf

\* What a step of s does to the roadmap file: nothing, s begins to write it, or s
\* leaves the section it wrote it in.
Turn(s) ==
    \/ UNCHANGED <<holder, torn>>
    \/ holder = NoSession /\ Truncate(s)
    \/ holder = s /\ holder' = NoSession /\ UNCHANGED torn

\* A step of one handler, which puts c in place of what it had.
LEMMA OneCall ==
    ASSUME CallsInv, StillTrue, NEW s \in Session, NEW c \in CallRecord,
           call' = [call EXCEPT ![s] = c],
           c.stage = "idle" <=> c.task = NoTask,
           c.stage # "idle" => True(c.task)',
           c.stage = "close" => hasPassingTaskCloseValidation(c.task.id)',
           Turn(s), c.stage = "append" => holder' = s,
           holder' = s => torn' \/ c.stage = "append"
    PROVE  CallsInv'
<1>1. call' \in [Session -> CallRecord] /\ call'[s] = c /\ \A r \in Session \ {s} : call'[r] = call[r]
  BY DEF CallsInv
<1>2. CallOK(s)'
  BY <1>1 DEF CallOK, Target
<1>4. /\ holder' \in Session \cup {NoSession} /\ torn' \in BOOLEAN
      /\ \A r \in Session \ {s} : (holder' = r <=> holder = r) /\ (holder = r => torn' = torn)
  BY NullsAreApart DEF CallsInv, Turn, Truncate
<1>3. ASSUME NEW r \in Session \ {s} PROVE CallOK(r)'
  <2>1. CallOK(r) /\ call'[r] = call[r] /\ (holder' = r <=> holder = r) /\ (holder = r => torn' = torn)
    BY <1>1, <1>4 DEF CallsInv
  <2> QED
    BY <2>1 DEF CallOK, Target, StillTrue, hasPassingTaskCloseValidation
<1> QED
  BY <1>1, <1>2, <1>3, <1>4 DEF CallsInv

\* Returning, between two writes or outside.
LEMMA ReturnKeepsCalls ==
    ASSUME CallsInv, StillTrue, NEW s \in Session, Return(s), Turn(s),
           call[s].stage = "append" => holder' # s
    PROVE  CallsInv'
<1>1. Returned \in CallRecord /\ Returned.stage = "idle" /\ Returned.task = NoTask
  BY DEF Returned, CallRecord, Stage, Status, OpenStatus, ClosedStatus
<1>2. CallOK(s) /\ \A r \in Session : CallOK(r)
  BY DEF CallsInv
<1>3. holder' = s => torn'
  BY <1>2, NullsAreApart DEF CallOK, Turn, Truncate
<1> QED
  BY <1>1, <1>3, OneCall DEF Return

\* Going on to a stage that needs nothing more than the record in hand.
LEMMA GotoKeepsCalls ==
    ASSUME CallsInv, StillTrue, NEW s \in Session, call[s].stage \notin {"idle", "append"},
           NEW stage \in Stage \ {"idle", "append"},
           stage = "close" => hasPassingTaskCloseValidation(Target(s))',
           NEW status \in Status,
           call' = [call EXCEPT ![s].stage = stage, ![s].status = status],
           Turn(s)
    PROVE  CallsInv'
<1> DEFINE c == [call[s] EXCEPT !.stage = stage, !.status = status]
<1>1. call[s] \in CallRecord /\ CallOK(s)
  BY DEF CallsInv
<1>2. /\ c \in CallRecord /\ c.stage = stage /\ c.task = call[s].task
      /\ call' = [call EXCEPT ![s] = c]
  BY <1>1 DEF CallRecord, CallsInv
<1>3. call'[s].task = call[s].task
  BY <1>2 DEF CallsInv
<1> HIDE DEF c
<1>4. PICK d : d = c
  OBVIOUS
<1>5. holder' = s => torn'
  BY <1>1, NullsAreApart DEF CallOK, Turn, Truncate
<1> QED
  BY <1>1, <1>2, <1>3, <1>4, <1>5, OneCall DEF CallOK, CallsInv, Target, StillTrue

\* Beginning with the record of a hot task.
LEMMA ReadKeepsCalls ==
    ASSUME BaseInv, NEW s \in Session, call[s].stage = "idle",
           NEW stage \in Stage \ {"idle", "close", "append"}, NEW id, NEW status \in Status,
           Read(s, stage, id, status), UNCHANGED <<files, holder, history>>
    PROVE  CallsInv'
<1>1. PICK c : c = [stage |-> stage, task |-> tasks[id], status |-> status]
  OBVIOUS
<1>2. tasks[id] \in Task /\ True(tasks[id])
  BY DEF Read, Hot, BaseInv, FilesInv, FilesOK, RecordsTrue
<1>3. c \in CallRecord /\ c.stage = stage /\ c.task = tasks[id] /\ c.task # NoTask
  BY <1>1, <1>2, NoTaskIsNoRecord DEF CallRecord
<1>4. StillTrue
  BY NothingFalsified DEF files, history
<1>5. True(c.task)'
  BY <1>2, <1>3, <1>4 DEF StillTrue
<1>6. /\ call' = [call EXCEPT ![s] = c]
      /\ (holder' = s => torn') /\ Turn(s)
      /\ CallsInv
  BY <1>1 DEF Read, BaseInv, CallsInv, CallOK, Turn, files
<1> QED
  BY <1>3, <1>4, <1>5, <1>6, OneCall

-----------------------------------------------------------------------------
(* The invariant of the files and the handlers.                             *)

\* The files in every step, and the tasks on the roadmap: none comes back.
LEMMA FilesStep ==
    ASSUME BaseInv, [Next]_vars
    PROVE  /\ FilesInv'
           /\ \A birth \in DOMAIN births \ HotBirths : birth \notin HotBirths'
<1> DEFINE Kept == FilesInv' /\ HotBirths' \subseteq HotBirths
<1>1. FilesInv
  BY DEF BaseInv
<1>0. ASSUME UNCHANGED <<tasks, order, archive, reports, history>> PROVE Kept
  BY <1>0, <1>1, UnchangedKeepsFiles
<1>3. ASSUME UNCHANGED <<files, history>> PROVE Kept
  BY <1>0, <1>3 DEF files
<1>2. ASSUME NEW s \in Session, NEW status \in Status, Update(s, status) PROVE Kept
  BY <1>1, <1>2, <1>3, SetStatusKeepsFiles DEF Update
<1>4. ASSUME NEW s \in Session, Start(s) PROVE FilesInv' /\ \A birth \in DOMAIN births \ HotBirths : birth \notin HotBirths'
  <2>1. CASE \E n \in 1..MaxBatch : CreateTasks(s, n)
    BY <1>1, <2>1, CreateKeepsFiles
  <2>2. CASE \E id \in Id : StartPatch(s, id) \/ StartResume(s, id) \/ StartEvidence(s, id)
                               \/ StartClose(s, id) \/ StartCancel(s, id)
    BY <1>3, <2>2 DEF StartPatch, StartResume, StartEvidence, StartClose, StartCancel
  <2>3. CASE Rewrite(s)
    BY <1>0, <2>3 DEF Rewrite
  <2> QED
    BY <1>4, <2>1, <2>2, <2>3 DEF Start
<1>5. ASSUME NEW s \in Session, Continue(s) PROVE Kept
  <2>1. CASE Patch(s) \/ Resume(s) \/ Evidence(s) \/ Cancel(s) \/ Close(s)
    <3>1. call[s].status \in Status
      BY DEF BaseInv, CallsInv, CallRecord
    <3>2. Update(s, call[s].status)
      BY <2>1 DEF Patch, Resume, Evidence, Cancel, Close, Update
    <3> QED
      BY <1>2, <3>1, <3>2
  <2>2. CASE Check(s) \/ RebuildFails(s) \/ Reload(s) \/ TaskNotFound(s) \/ Unreadable(s)
    BY <1>3, <2>2 DEF Check, RebuildFails, Reload, TaskNotFound, Unreadable
  <2>5. CASE Fill(s)
    BY <1>0, <2>5 DEF Fill
  <2>3. CASE Archive(s)
    BY <1>1, <2>3, ArchiveKeepsFiles
  <2>4. CASE AppendSnapshot(s)
    BY <2>4, AppendKeepsFiles
  <2> QED
    BY <1>5, <2>1, <2>2, <2>3, <2>4, <2>5 DEF Continue
<1>6. ASSUME \/ \E s \in Session : ClearArchive(s)
             \/ \E id \in Id : Validate(id)
             \/ Crash
      PROVE  Kept
  BY <1>6, OthersKeepFiles
<1>7. CASE UNCHANGED vars
  BY <1>3, <1>7 DEF vars
<1> QED
  BY <1>4, <1>5, <1>6, <1>7 DEF Next

\* The handlers in every step.
LEMMA CallsStep ==
    ASSUME BaseInv, [Next]_vars
    PROVE  CallsInv'
<1>1. CallsInv /\ FilesInv /\ \A s \in Session : call[s] \in CallRecord /\ CallOK(s)
  BY DEF BaseInv, CallsInv
<1>2. ASSUME UNCHANGED <<call, holder, torn>>, StillTrue PROVE CallsInv'
  BY <1>1, <1>2 DEF CallsInv, CallOK, Target, StillTrue, hasPassingTaskCloseValidation
<1>3. ASSUME UNCHANGED <<files, history>> PROVE StillTrue
  BY <1>3, NothingFalsified DEF files, history
<1>4. ASSUME NEW s \in Session, NEW status, Update(s, status) PROVE StillTrue /\ Turn(s)
  BY <1>4, NothingFalsified DEF Update, SetStatus, Free, Turn, files, history
\* Beginning to write, for one with nothing else to do.
<1>0. ASSUME NEW s \in Session, Free, Truncate(s), UNCHANGED call, StillTrue PROVE CallsInv'
  <2>1. \A r \in Session : call[r].stage # "append"
    BY <1>0, <1>1, NullsAreApart DEF Free, CallOK
  <2>2. \A r \in Session : CallOK(r)'
    BY <1>0, <1>1, <2>1
    DEF Truncate, CallOK, Target, StillTrue, hasPassingTaskCloseValidation
  <2> QED
    BY <1>0, <1>1, <2>2 DEF Truncate, CallsInv
<1>5. /\ "in_progress" \in Status /\ "done" \in Status /\ "cancelled" \in Status
      /\ EvidenceStatus \subseteq Status
  BY DEF Status, OpenStatus, ClosedStatus, EvidenceStatus
<1>6. ASSUME NEW s \in Session, NEW n \in 1..MaxBatch, CreateTasks(s, n) PROVE CallsInv'
  <2>1. \A b \in DOMAIN births : b \in DOMAIN births' /\ births'[b] = births[b]
    BY <1>1, <1>6, CreateKeepsFiles
  <2>2. StillTrue
    BY <1>6, <2>1 DEF CreateTasks, StillTrue, True, TrueOf
  <2> QED
    BY <1>0, <1>6, <2>2 DEF CreateTasks
<1>7. ASSUME NEW s \in Session, NEW id \in Id,
             StartPatch(s, id) \/ StartResume(s, id) \/ StartEvidence(s, id)
                \/ StartClose(s, id) \/ StartCancel(s, id)
      PROVE  CallsInv'
  <2>1. /\ call[s].stage = "idle" /\ UNCHANGED <<files, holder, history>>
        /\ \E stage \in {"patch", "resume", "evidence", "closeEvidence", "check", "cancel"},
              status \in Status : Read(s, stage, id, status)
    BY <1>5, <1>7 DEF StartPatch, StartResume, StartEvidence, StartClose, StartCancel
  <2>2. {"patch", "resume", "evidence", "closeEvidence", "check", "cancel"}
            \subseteq Stage \ {"idle", "close", "append"}
    BY DEF Stage
  <2> QED
    BY <2>1, <2>2, ReadKeepsCalls
<1>8. ASSUME NEW s \in Session, Return(s), StillTrue, Turn(s), call[s].stage # "append"
      PROVE  CallsInv'
  BY <1>1, <1>8, ReturnKeepsCalls
<1>9. ASSUME NEW s \in Session, Patch(s) PROVE CallsInv'
  <2>1. StillTrue /\ Turn(s) /\ call[s].stage = "patch"
    BY <1>4, <1>9 DEF Patch
  <2>2. CASE Return(s)
    BY <1>8, <2>1, <2>2
  <2>3. CASE \E status \in EvidenceStatus :
                call' = [call EXCEPT ![s].stage = "evidence", ![s].status = status]
    <3>1. "evidence" \in Stage \ {"idle", "append"}
      BY DEF Stage
    <3> QED
      BY <1>1, <1>5, <2>1, <2>3, <3>1, GotoKeepsCalls
  <2> QED
    BY <1>9, <2>2, <2>3 DEF Patch
<1>10. ASSUME NEW s \in Session, Resume(s) \/ Cancel(s) PROVE CallsInv'
  BY <1>4, <1>8, <1>10 DEF Resume, Cancel
<1>11. ASSUME NEW s \in Session, Evidence(s) PROVE CallsInv'
  <2>1. StillTrue /\ Turn(s) /\ call[s].stage \in {"evidence", "closeEvidence"}
    BY <1>4, <1>11 DEF Evidence, Update
  <2>2. CASE call[s].stage = "evidence"
    BY <1>8, <1>11, <2>1, <2>2 DEF Evidence
  <2>3. CASE call[s].stage # "evidence"
    <3>1. "check" \in Stage \ {"idle", "append"}
      BY DEF Stage
    <3>2. call' = [call EXCEPT ![s].stage = "check", ![s].status = "done"]
      BY <1>11, <2>3 DEF Evidence
    <3> QED
      BY <1>1, <1>5, <2>1, <3>1, <3>2, GotoKeepsCalls
  <2> QED
    BY <2>2, <2>3
\* Going on without a new status.
<1>12. ASSUME NEW s \in Session, NEW stage \in Stage \ {"idle", "append"}, Goto(s, stage),
              StillTrue, Turn(s), call[s].stage \notin {"idle", "append"},
              stage = "close" => hasPassingTaskCloseValidation(Target(s))'
       PROVE  CallsInv'
  <2>1. call' = [call EXCEPT ![s].stage = stage, ![s].status = call[s].status]
    BY <1>1, <1>12 DEF Goto, CallsInv, CallRecord
  <2>2. call[s].status \in Status
    BY <1>1 DEF CallRecord
  <2> QED
    BY <1>1, <1>12, <2>1, <2>2, GotoKeepsCalls
<1>13. ASSUME NEW s \in Session, Check(s) PROVE CallsInv'
  <2>1. StillTrue /\ Turn(s) /\ UNCHANGED reports /\ call[s].stage = "check"
    BY <1>3, <1>13 DEF Check, Turn, files
  <2>2. CASE hasPassingTaskCloseValidation(Target(s))
    <3>1. Goto(s, "close") /\ "close" \in Stage \ {"idle", "append"}
      BY <1>13, <2>2 DEF Check, Stage
    <3>2. Target(s)' = Target(s)
      BY <1>1, <3>1 DEF Goto, Target, CallsInv, CallRecord
    <3>3. hasPassingTaskCloseValidation(Target(s))'
      BY <2>1, <2>2, <3>2 DEF hasPassingTaskCloseValidation
    <3> QED
      BY <1>12, <2>1, <3>1, <3>3
  <2>3. CASE ~ hasPassingTaskCloseValidation(Target(s))
    BY <1>8, <1>13, <2>1, <2>3 DEF Check
  <2> QED
    BY <2>2, <2>3
<1>14. ASSUME NEW s \in Session, Close(s) PROVE CallsInv'
  <2>1. /\ StillTrue /\ Turn(s) /\ call[s].stage = "close" /\ Goto(s, "reload")
        /\ "reload" \in Stage \ {"idle", "append"}
    BY <1>4, <1>14 DEF Close, Stage
  <2> QED
    BY <1>12, <2>1
<1>15. ASSUME NEW s \in Session, RebuildFails(s) \/ TaskNotFound(s) \/ Unreadable(s)
       PROVE  CallsInv'
  BY <1>3, <1>8, <1>15 DEF RebuildFails, TaskNotFound, Unreadable, Turn, files
<1>16. ASSUME NEW s \in Session, Reload(s) PROVE CallsInv'
  <2> DEFINE c == [call[s] EXCEPT !.stage = "archive",
                                  !.task = IF Hot(Target(s)) THEN tasks[Target(s)] ELSE @]
  <2>1. /\ call[s].stage = "reload" /\ ~torn /\ StillTrue /\ UNCHANGED <<holder, torn, births>>
        /\ call' = [call EXCEPT ![s] = c]
    BY <1>1, <1>3, <1>16 DEF Reload, files, history, CallsInv
  <2>2. call[s].task \in Task \cup {NoTask} /\ call[s].task # NoTask /\ True(call[s].task) /\ holder # s
    BY <1>1, <2>1 DEF CallRecord, CallOK
  <2>3. Hot(Target(s)) => tasks[Target(s)] \in Task /\ True(tasks[Target(s)])
    BY <1>1 DEF Hot, FilesInv, FilesOK, RecordsTrue
  <2>4. c.stage = "archive" /\ c.task = IF Hot(Target(s)) THEN tasks[Target(s)] ELSE call[s].task
    BY <1>1 DEF CallRecord
  <2>5. c \in CallRecord
    BY <1>1, <2>2, <2>3 DEF CallRecord, Stage
  <2>6. c.task \in Task /\ True(c.task)
    BY <2>2, <2>3, <2>4
  <2> HIDE DEF c
  <2>7. PICK d : d = c
    OBVIOUS
  <2>8. True(d.task)'
    BY <2>1, <2>6, <2>7 DEF StillTrue
  <2>9. d.task # NoTask
    BY <2>6, <2>7, NoTaskIsNoRecord
  <2> QED
    BY <1>1, <2>1, <2>2, <2>4, <2>5, <2>7, <2>8, <2>9, OneCall DEF CallsInv, Turn
<1>17. ASSUME NEW s \in Session, Archive(s) PROVE CallsInv'
  <2> DEFINE c == [call[s] EXCEPT !.stage = "append"]
  <2>1. /\ call[s].stage = "archive" /\ holder = NoSession /\ Truncate(s)
        /\ StillTrue /\ call' = [call EXCEPT ![s] = c]
    BY <1>1, <1>17, NothingFalsified DEF Archive, Free, Goto, history, CallsInv
  <2>2. /\ c \in CallRecord /\ c.stage = "append" /\ c.task = call[s].task
        /\ c.task # NoTask /\ True(c.task)
    BY <1>1, <2>1 DEF CallRecord, CallOK, Stage
  <2> HIDE DEF c
  <2>3. PICK d : d = c
    OBVIOUS
  <2>4. True(d.task)'
    BY <2>1, <2>2, <2>3 DEF StillTrue
  <2>5. Turn(s) /\ holder' = s
    BY <2>1 DEF Turn, Truncate
  <2> QED
    BY <1>1, <2>1, <2>2, <2>3, <2>4, <2>5, OneCall
<1>18. ASSUME NEW s \in Session, AppendSnapshot(s) PROVE CallsInv'
  <2>1. holder = s /\ holder' = NoSession /\ UNCHANGED torn /\ StillTrue /\ Return(s)
    BY <1>1, <1>18, NothingFalsified DEF AppendSnapshot, history, CallOK
  <2> QED
    BY <1>1, <2>1, NullsAreApart, ReturnKeepsCalls DEF Turn
<1>19. ASSUME NEW s \in Session, ClearArchive(s) PROVE CallsInv'
  BY <1>2, <1>19, NothingFalsified DEF ClearArchive
<1>20. ASSUME NEW id \in Id, Validate(id) PROVE CallsInv'
  <2>1. StillTrue
    BY <1>20 DEF Validate, history, StillTrue, True, TrueOf
  <2> QED
    BY <1>2, <1>20, <2>1 DEF Validate
<1>21. CASE Crash
  BY <1>1, <1>21, NullsAreApart DEF Crash, CallsInv, CallOK, Returned, CallRecord, Stage, Status, OpenStatus
<1>22. CASE UNCHANGED vars
  BY <1>2, <1>3, <1>22 DEF vars, files
<1>23. ASSUME NEW s \in Session, Fill(s) PROVE CallsInv'
  <2>1. /\ holder = s /\ torn' = FALSE /\ UNCHANGED call
        /\ holder' = IF call[s].stage = "append" THEN s ELSE NoSession
        /\ StillTrue
    BY <1>23, NothingFalsified DEF Fill, history
  <2>2. \A r \in Session : CallOK(r)'
    BY <1>1, <2>1, NullsAreApart
    DEF CallOK, Target, StillTrue, hasPassingTaskCloseValidation
  <2> QED
    BY <1>1, <2>1, <2>2 DEF CallsInv
<1>24. ASSUME NEW s \in Session, Rewrite(s) PROVE CallsInv'
  BY <1>0, <1>24, NothingFalsified DEF Rewrite, history
<1> QED
  BY <1>6, <1>7, <1>9, <1>10, <1>11, <1>13, <1>14, <1>15, <1>16, <1>17, <1>18, <1>19, <1>20,
     <1>21, <1>22, <1>23, <1>24
  DEF Next, Start, Continue

-----------------------------------------------------------------------------
(* Where a task is.                                                         *)

Kept(birth) == birth \in HotBirths \cup ArchivedBirths \cup BirthsInHand \cup cleared \cup lost

\* Whatever is hot, archived, in hand, erased or lost was created: NothingLost
\* has to be shown in one direction only.
LEMMA KeptIsEnough ==
    FilesInv /\ CallsInv /\ (IdsUnique => \A birth \in DOMAIN births : Kept(birth)) => NothingLost
<1> SUFFICES ASSUME FilesInv, CallsInv, IdsUnique => \A birth \in DOMAIN births : Kept(birth)
             PROVE  NothingLost
  OBVIOUS
<1>1. HotBirths \subseteq DOMAIN births /\ ArchivedBirths \subseteq DOMAIN births
  BY DEF FilesInv, RecordsTrue, True, TrueOf, HotBirths, ArchivedBirths
<1>2. BirthsInHand \subseteq DOMAIN births
  BY DEF CallsInv, CallOK, True, TrueOf, BirthsInHand
<1>3. cleared \cup lost \subseteq DOMAIN births
  BY DEF FilesInv
<1> QED
  BY <1>1, <1>2, <1>3 DEF NothingLost, Kept

\* A step other than a create leaves each task somewhere.  Where a task leaves
\* the roadmap it is the one the handler has in hand, for both have the id.
LEMMA KeptInOtherSteps ==
    ASSUME BaseInv, [Next]_vars, UNCHANGED births, IdsUnique,
           NEW birth \in DOMAIN births, Kept(birth)
    PROVE  Kept(birth)'
<1>1. FilesInv /\ CallsInv /\ \A s \in Session : call[s] \in CallRecord /\ CallOK(s)
  BY DEF BaseInv, CallsInv
\* Nothing but the call of a handler outside the archiving, and no file.
<1>2. ASSUME HotBirths' = HotBirths, archive' = archive, UNCHANGED <<cleared, lost>>,
             BirthsInHand \subseteq BirthsInHand'
      PROVE  Kept(birth)'
  BY <1>2 DEF Kept, ArchivedBirths
<1>3. ASSUME NEW s \in Session, call[s].stage # "append", \A r \in Session \ {s} : call'[r] = call[r]
      PROVE  BirthsInHand \subseteq BirthsInHand'
  BY <1>3 DEF BirthsInHand
<1>0. ASSUME UNCHANGED <<tasks, archive, call, cleared, lost>> PROVE Kept(birth)'
  BY <1>0, <1>2 DEF HotBirths, BirthsInHand
<1>4. ASSUME NEW s \in Session, NEW c, call' = [call EXCEPT ![s] = c]
      PROVE  \A r \in Session \ {s} : call'[r] = call[r]
  BY <1>1, <1>4 DEF CallsInv
<1>5. ASSUME NEW s \in Session, Start(s) PROVE Kept(birth)'
  <2>1. CASE \E n \in 1..MaxBatch : CreateTasks(s, n)
    <3>1. PICK n \in 1..MaxBatch : CreateTasks(s, n)
      BY <2>1
    <3>2. Len(births') = Len(births) + n /\ Len(births) \in Nat
      BY <1>1, <3>1, CreateKeepsFiles DEF FilesInv
    <3> QED
      BY <3>2
  <2>2. CASE \E id \in Id : StartPatch(s, id) \/ StartResume(s, id) \/ StartEvidence(s, id)
                               \/ StartClose(s, id) \/ StartCancel(s, id)
    <3>1. /\ call[s].stage = "idle" /\ UNCHANGED <<files, history>>
          /\ \E c : call' = [call EXCEPT ![s] = c]
      BY <2>2 DEF StartPatch, StartResume, StartEvidence, StartClose, StartCancel, Read
    <3>2. HotBirths' = HotBirths /\ archive' = archive /\ UNCHANGED <<cleared, lost>>
      BY <3>1 DEF files, history, HotBirths
    <3> QED
      BY <1>2, <1>3, <1>4, <3>1, <3>2
  <2>3. CASE Rewrite(s)
    BY <1>0, <2>3 DEF Rewrite, history
  <2> QED
    BY <1>5, <2>1, <2>2, <2>3 DEF Start
<1>6. ASSUME NEW s \in Session, Patch(s) \/ Resume(s) \/ Evidence(s) \/ Cancel(s) \/ Close(s)
      PROVE  Kept(birth)'
  <2>1. Update(s, call[s].status) /\ call[s].stage # "append"
    BY <1>6 DEF Patch, Resume, Evidence, Cancel, Close, Update
  <2>2. HotBirths' = HotBirths
    BY <1>1, <2>1, SetStatusKeepsFiles DEF Update, files, HotBirths, CallRecord
  <2>3. archive' = archive /\ UNCHANGED <<cleared, lost>>
    BY <2>1 DEF Update, SetStatus, files, history
  <2>4. \A r \in Session \ {s} : call'[r] = call[r]
    BY <1>1, <1>6 DEF Patch, Resume, Evidence, Cancel, Close, Return, Goto, CallsInv
  <2> QED
    BY <1>2, <1>3, <2>1, <2>2, <2>3, <2>4
<1>7. ASSUME NEW s \in Session,
             Check(s) \/ RebuildFails(s) \/ Reload(s) \/ TaskNotFound(s) \/ Unreadable(s)
      PROVE  Kept(birth)'
  <2>1. call[s].stage # "append" /\ UNCHANGED <<files, history>>
    BY <1>7 DEF Check, RebuildFails, Reload, TaskNotFound, Unreadable
  <2>2. HotBirths' = HotBirths /\ archive' = archive /\ UNCHANGED <<cleared, lost>>
    BY <2>1 DEF files, history, HotBirths
  <2>3. \A r \in Session \ {s} : call'[r] = call[r]
    BY <1>1, <1>7 DEF Check, RebuildFails, Reload, TaskNotFound, Unreadable, Return, Goto, CallsInv
  <2> QED
    BY <1>2, <1>3, <2>1, <2>2, <2>3
<1>8. ASSUME NEW s \in Session, Archive(s) PROVE Kept(birth)'
  <2>1. /\ call[s].stage = "archive" /\ call'[s].stage = "append" /\ call'[s].task = call[s].task
        /\ \A r \in Session \ {s} : call'[r] = call[r]
        /\ UNCHANGED <<archive, cleared, lost>>
    BY <1>1, <1>8 DEF Archive, Goto, history, CallsInv, CallRecord
  <2>2. BirthsInHand \cup {call[s].task.birth} \subseteq BirthsInHand'
    BY <2>1 DEF BirthsInHand
  <2>3. CASE birth \in HotBirths
    <3>1. PICK id \in DOMAIN tasks : birth = tasks[id].birth
      BY <2>3 DEF HotBirths
    <3>2. CASE id = Target(s)
      <4>1. tasks[id].id = call[s].task.id /\ True(tasks[id]) /\ True(call[s].task)
        BY <1>1, <2>1, <3>2 DEF FilesInv, FilesOK, RecordsTrue, CallOK, Target
      <4>2. birth = call[s].task.birth
        BY <3>1, <4>1 DEF True, TrueOf, IdsUnique, IsInjective
      <4> QED
        BY <2>2, <4>2 DEF Kept
    <3>3. CASE id # Target(s)
      BY <1>1, <1>8, <3>1, <3>3, ArchiveKeepsFiles DEF Kept, HotBirths
    <3> QED
      BY <3>2, <3>3
  <2>4. CASE birth \notin HotBirths
    BY <2>1, <2>2, <2>4 DEF Kept, ArchivedBirths
  <2> QED
    BY <2>3, <2>4
<1>9. ASSUME NEW s \in Session, AppendSnapshot(s) PROVE Kept(birth)'
  <2>1. /\ call[s].stage = "append" /\ holder = s
        /\ archive' = archive \cup {call[s].task}
        /\ UNCHANGED <<tasks, cleared, lost>>
    BY <1>1, <1>9 DEF AppendSnapshot, history, CallOK
  <2>2. BirthsInHand = {call[s].task.birth}
    BY <1>1, <2>1 DEF BirthsInHand, CallOK
  <2> QED
    BY <2>1, <2>2 DEF Kept, HotBirths, ArchivedBirths
<1>10. ASSUME NEW s \in Session, ClearArchive(s) PROVE Kept(birth)'
  BY <1>10 DEF ClearArchive, Kept, HotBirths, ArchivedBirths, BirthsInHand
<1>11. ASSUME NEW id \in Id, Validate(id) PROVE Kept(birth)'
  BY <1>11 DEF Validate, history, Kept, HotBirths, ArchivedBirths, BirthsInHand
<1>12. CASE Crash
  <2>1. CASE torn
    BY <1>12, <2>1 DEF Crash, Kept, ArchivedBirths
  <2>2. CASE ~torn
    BY <1>12, <2>2 DEF Crash, Kept, HotBirths, ArchivedBirths
  <2> QED
    BY <2>1, <2>2
<1>13. CASE UNCHANGED vars
  BY <1>0, <1>13 DEF vars, files, history
<1>14. ASSUME NEW s \in Session, Fill(s) PROVE Kept(birth)'
  BY <1>0, <1>14 DEF Fill, history
<1> QED
  BY <1>5, <1>6, <1>7, <1>8, <1>9, <1>10, <1>11, <1>12, <1>13, <1>14 DEF Next, Continue

\* Only a create makes tasks.
LEMMA OthersMakeNone ==
    ASSUME [Next]_vars, ~ \E s \in Session, n \in 1..MaxBatch : CreateTasks(s, n)
    PROVE  births' = births /\ cleared \subseteq cleared' /\ lost \subseteq lost'
BY DEF Next, Start, Rewrite, StartPatch, StartResume, StartEvidence, StartClose, StartCancel,
       Continue, Fill, Update, SetStatus, Patch, Resume, Evidence, Cancel, Check, Close, RebuildFails, Reload,
       Archive, AppendSnapshot, TaskNotFound, Unreadable, ClearArchive, Validate, Crash, vars, history

\* A create adds ids above all there were, while no snapshot is erased or lost:
\* every task is hot or archived then, since nobody is between the two writes.
LEMMA CreateIsFresh ==
    ASSUME IInv, NEW s \in Session, NEW n \in 1..MaxBatch, CreateTasks(s, n)
    PROVE  NothingLost' /\ FreshIds'
<1>1. FilesInv /\ CallsInv /\ NothingLost /\ FreshIds
  BY DEF IInv, BaseInv
<1>2. FilesInv' /\ CallsInv'
  BY <1>1, FilesStep, CallsStep DEF IInv, Next, Start
<1>3. /\ Len(births) \in Nat /\ n \in Nat /\ n >= 1
      /\ Len(births') = Len(births) + n
      /\ DOMAIN births = 1..Len(births) /\ DOMAIN births' = 1..Len(births')
      /\ births \in Seq(Id) /\ births' \in Seq(Id)
      /\ \A b \in DOMAIN births : b \in DOMAIN births' /\ births'[b] = births[b]
      /\ \A b \in DOMAIN births' \ DOMAIN births : births'[b] \in nextTaskId..(nextTaskId + n - 1)
      /\ HotBirths' = HotBirths \cup (DOMAIN births' \ DOMAIN births)
  BY <1>1, <1>2, CreateKeepsFiles DEF FilesInv
<1>4. /\ Free /\ UNCHANGED <<archive, call, cleared, lost>>
      /\ births' = births \o [i \in 1..n |-> nextTaskId + i - 1]
  BY DEF CreateTasks
<1>5. IdsUnique' => IdsUnique
  BY <1>3 DEF IdsUnique, IsInjective
<1>6. NothingLost'
  <2> (FilesInv /\ CallsInv /\ (IdsUnique => \A birth \in DOMAIN births : Kept(birth))
           => NothingLost)'
    BY KeptIsEnough, PTL
  <2>1. SUFFICES ASSUME IdsUnique', NEW birth \in DOMAIN births' PROVE Kept(birth)'
    BY <1>2
  <2>2. CASE birth \in DOMAIN births
    BY <1>1, <1>3, <1>4, <1>5, <2>1, <2>2 DEF NothingLost, Kept, ArchivedBirths, BirthsInHand
  <2>3. CASE birth \notin DOMAIN births
    BY <1>3, <2>1, <2>3 DEF Kept
  <2> QED
    BY <2>2, <2>3
<1>7. ASSUME cleared' \cup lost' = {} PROVE IdsUnique'
  <2>1. IdsUnique /\ cleared \cup lost = {}
    BY <1>1, <1>4, <1>7 DEF FreshIds
  <2>2. BirthsInHand = {}
    BY <1>1, <1>4, NullsAreApart DEF BirthsInHand, Free, CallsInv, CallOK
  <2>3. DOMAIN births = HotBirths \cup ArchivedBirths
    BY <1>1, <2>1, <2>2 DEF NothingLost
  <2>4. nextTaskId \in Nat
    BY <1>1, <1>3, NewIdAbove
  <2>5. ASSUME NEW b \in DOMAIN births PROVE births[b] \in Nat /\ births[b] < nextTaskId
    <3>1. PICK record \in Task : True(record) /\ b = record.birth /\ record.id < nextTaskId
      BY <1>1, <2>3, NewIdAbove DEF HotBirths, ArchivedBirths, FilesInv, FilesOK, RecordsTrue
    <3>2. births[b] \in Id
      BY <1>3
    <3>3. births[b] \in Nat
      BY <3>2, BoundsAreNaturals DEF Id
    <3> QED
      BY <3>1, <3>3 DEF True, TrueOf
  <2>6. \A b \in DOMAIN births' \ DOMAIN births : births'[b] = nextTaskId + (b - Len(births)) - 1
    BY <1>3, <1>4, <2>4
  <2>7. SUFFICES ASSUME NEW a \in DOMAIN births', NEW b \in DOMAIN births', births'[a] = births'[b]
                 PROVE  a = b
    BY DEF IdsUnique, IsInjective
  <2>8. CASE a \in DOMAIN births /\ b \in DOMAIN births
    BY <1>3, <2>1, <2>7, <2>8 DEF IdsUnique, IsInjective
  <2>9. CASE a \in DOMAIN births /\ b \notin DOMAIN births
    BY <1>3, <2>4, <2>5, <2>7, <2>9
  <2>10. CASE a \notin DOMAIN births /\ b \in DOMAIN births
    BY <1>3, <2>4, <2>5, <2>7, <2>10
  <2>11. CASE a \notin DOMAIN births /\ b \notin DOMAIN births
    BY <1>3, <2>4, <2>6, <2>7, <2>11
  <2> QED
    BY <2>8, <2>9, <2>10, <2>11
<1> QED
  BY <1>6, <1>7 DEF FreshIds

-----------------------------------------------------------------------------
(* The theorems.                                                            *)

\* The initial state satisfies the invariant.
LEMMA InitInv == Init => IInv
<1> SUFFICES ASSUME Init PROVE IInv
  OBVIOUS
<1>1. FilesInv
  <2>1. DOMAIN <<>> = {} /\ <<>> \in Seq(Id) /\ Len(<<>>) = 0
    OBVIOUS
  <2>2. ToSet(<<>>) = {} /\ IsInjective(<<>>)
    BY <2>1 DEF ToSet, IsInjective
  <2> QED
    BY <2>1, <2>2, BoundsAreNaturals DEF Init, FilesInv, FilesOK, RecordsTrue, IdsBounded
<1>2. CallsInv
  BY NullsAreApart DEF Init, CallsInv, CallOK, Returned, CallRecord, Stage, Status, OpenStatus
<1>3. DOMAIN births = {}
  BY DEF Init
<1>4. NothingLost
  BY <1>1, <1>2, <1>3, KeptIsEnough
<1>5. FreshIds
  BY <1>3 DEF FreshIds, IdsUnique, IsInjective
<1> QED
  BY <1>1, <1>2, <1>4, <1>5 DEF IInv, BaseInv

\* Every step preserves it.
LEMMA StepInv == IInv /\ [Next]_vars => IInv'
<1> SUFFICES ASSUME IInv, [Next]_vars PROVE IInv'
  OBVIOUS
<1>1. BaseInv /\ FilesInv /\ CallsInv /\ NothingLost /\ FreshIds
  BY DEF IInv, BaseInv
<1>2. FilesInv' /\ CallsInv'
  BY <1>1, FilesStep, CallsStep
<1>3. CASE \E s \in Session, n \in 1..MaxBatch : CreateTasks(s, n)
  BY <1>2, <1>3, CreateIsFresh DEF IInv, BaseInv
<1>4. CASE ~ \E s \in Session, n \in 1..MaxBatch : CreateTasks(s, n)
  <2>1. births' = births /\ cleared \subseteq cleared' /\ lost \subseteq lost'
    BY <1>4, OthersMakeNone
  <2>2. IdsUnique' <=> IdsUnique
    BY <2>1 DEF IdsUnique
  <2>3. FreshIds'
    BY <1>1, <2>1, <2>2 DEF FreshIds
  <2>4. (FilesInv /\ CallsInv /\ (IdsUnique => \A birth \in DOMAIN births : Kept(birth))
             => NothingLost)'
    BY KeptIsEnough, PTL
  <2>5. ASSUME IdsUnique', NEW birth \in DOMAIN births' PROVE Kept(birth)'
    <3>1. IdsUnique /\ birth \in DOMAIN births
      BY <2>1, <2>2, <2>5
    <3>2. Kept(birth)
      BY <1>1, <3>1 DEF NothingLost, Kept
    <3> QED
      BY <1>1, <2>1, <3>1, <3>2, KeptInOtherSteps
  <2> QED
    BY <1>2, <2>3, <2>4, <2>5 DEF IInv, BaseInv
<1> QED
  BY <1>3, <1>4

LEMMA InvHolds == Spec => []IInv
BY InitInv, StepInv, PTL DEF Spec

\* The records of the two files and of the handlers keep their shape whatever
\* the handlers of application/roadmap.ts and application/tools/task.ts do in
\* each other's way: the order lists each hot task once, a record lies under its
\* own id, and one handler at most is inside a section that writes them.
THEOREM TypeCorrect == Spec => []TypeOK
<1>1. IInv => TypeOK
  BY DEF IInv, BaseInv, FilesInv, CallsInv, CallOK, CallRecord, TypeOK
<1> QED
  BY <1>1, InvHolds, PTL

\* No task disappears: while no id was given out twice, every task ever created
\* is hot, archived, on its way to the archive, erased by clear-archive or died
\* with a process.  A death takes the task between the two writes of an archiving
\* or, inside a write of the roadmap file (writeRoadmapFile truncates it first),
\* every hot one; no order of the handlers loses any (closeCodewikiTask and the
\* archiving that follows it, against every other writer).
THEOREM TasksAreKept == Spec => []NothingLost
BY InvHolds, PTL DEF IInv

\* nextTaskIdSequenceForProject gives an id out once, as long as no snapshot was
\* erased or lost, though a create locks no archive file.
THEOREM IdsAreFresh == Spec => []FreshIds
BY InvHolds, PTL DEF IInv

\* What left the roadmap does not come back: a handler that read the record
\* before it was archived finds no task to write to (updateRoadmapTask,
\* updateTaskLoop).
THEOREM NothingReturns == Spec => NoResurrection
<1>1. IInv /\ [Next]_vars => [\A birth \in DOMAIN births \ HotBirths : birth \notin HotBirths']_vars
  BY FilesStep DEF IInv
<1> QED
  BY <1>1, InvHolds, PTL DEF Spec, NoResurrection

\* The close path sets a task to done only when a report on that very task
\* exists, while ids are unique: the check found one with the task's id, and
\* reports are not removed (hasPassingTaskCloseValidation, closeCodewikiTask).
THEOREM ClosesCiteReports == Spec => CloseCitesReportWhileIdsUnique
<1>1. ASSUME IInv, [Next]_vars, IdsUnique, NEW s \in Session PROVE CloseCitesReport(s)
  <2>1. /\ FilesInv /\ CallsInv /\ CallOK(s)
        /\ \A r \in Session : call[r] \in CallRecord
    BY <1>1 DEF IInv, BaseInv, CallsInv
  <2>2. SUFFICES ASSUME call[s].stage = "close", call'[s].stage = "reload"
                 PROVE  \E report \in reports : report.birth = tasks[Target(s)].birth
    BY DEF CloseCitesReport
  <2>3. Hot(Target(s))
    <3>1. ASSUME NEW r \in Session, NEW c, call' = [call EXCEPT ![r] = c], r # s PROVE FALSE
      BY <2>1, <2>2, <3>1 DEF CallsInv
    <3>2. ASSUME NEW r \in Session, Start(r) PROVE FALSE
      BY <2>1, <2>2, <3>1, <3>2
      DEF Start, CreateTasks, Rewrite, StartPatch, StartResume, StartEvidence, StartClose, StartCancel, Read
    <3>3. ASSUME NEW r \in Session, Continue(r), r # s PROVE FALSE
      BY <2>1, <2>2, <3>1, <3>3
      DEF Continue, Fill, Patch, Resume, Evidence, Cancel, Check, Close, RebuildFails, Reload,
          Archive, AppendSnapshot, TaskNotFound, Unreadable, Return, Goto, CallsInv
    <3>4. ASSUME Continue(s) PROVE Close(s) \/ TaskNotFound(s)
      BY <2>2, <3>4 DEF Continue, Fill, Patch, Resume, Evidence, Cancel, Check, RebuildFails, Reload,
                        Archive, AppendSnapshot, Unreadable
    <3>5. ~ TaskNotFound(s)
      BY <2>1, <2>2 DEF TaskNotFound, Return, Returned, CallsInv
    <3>6. Close(s)
      BY <1>1, <2>2, <3>2, <3>3, <3>4, <3>5
      DEF Next, ClearArchive, Validate, Crash, Returned, vars
    <3> QED
      BY <3>6 DEF Close, Update, SetStatus
  <2>4. PICK report \in reports : report.id = Target(s)
    BY <2>1, <2>2 DEF CallOK, hasPassingTaskCloseValidation
  <2>5. /\ True(report) /\ True(tasks[Target(s)]) /\ tasks[Target(s)].id = Target(s)
    BY <2>1, <2>3, <2>4 DEF Hot, FilesInv, FilesOK, RecordsTrue
  <2>6. report.birth = tasks[Target(s)].birth
    BY <1>1, <2>4, <2>5 DEF True, TrueOf, IdsUnique, IsInjective
  <2> QED
    BY <2>6
<1>2. IInv /\ [Next]_vars => [IdsUnique => \A s \in Session : CloseCitesReport(s)]_vars
  BY <1>1
<1> QED
  BY <1>2, InvHolds, PTL DEF Spec, CloseCitesReportWhileIdsUnique

-----------------------------------------------------------------------------
\* What a create makes of its inputs: TaskReuse, for inputs and tasks of any
\* size.

\* One input: the fold is one call.
LEMMA AppendOne ==
    ASSUME NEW ts, NEW in
    PROVE  appendRoadmapTasks(ts, <<in>>) = AppendTask(ts, in)
<1> DEFINE S == DOMAIN <<in>>
           F(g) == [s \in SUBSET S |->
                      IF s = {} THEN ts ELSE AppendTask(g[s \ {Max(s)}], <<in>>[Max(s)])]
           g == CHOOSE h : h = F(h)
           h0 == [s \in SUBSET S |-> IF s = {} THEN ts ELSE AppendTask(ts, in)]
<1>1. appendRoadmapTasks(ts, <<in>>) = g[S]
  BY DEF appendRoadmapTasks, FoldLeft, MapThenFoldSet
<1>2. S = {1} /\ <<in>>[1] = in
  OBVIOUS
<1>3. Max({1}) = 1
  BY DEF Max
<1>4. SUBSET S = {{}, {1}}
  BY <1>2
<1>5. h0 = F(h0)
  <2>1. ASSUME NEW s \in SUBSET S, s # {}
        PROVE  /\ s = {1}
               /\ h0[s \ {Max(s)}] = ts
               /\ <<in>>[Max(s)] = in
    <3>1. s = {1}
      BY <1>4, <2>1
    <3>2. s \ {Max(s)} = {} /\ {} \in SUBSET S
      BY <3>1, <1>3
    <3> QED
      BY <3>1, <3>2, <1>2, <1>3
  <2> HIDE DEF h0
  <2>2. h0 = [s \in SUBSET S |-> IF s = {} THEN ts ELSE AppendTask(ts, in)]
    BY DEF h0
  <2>3. \A s \in SUBSET S : h0[s] = F(h0)[s]
    BY <2>1, <2>2
  <2> QED
    BY <2>2, <2>3
<1> HIDE DEF h0, F
<1>6. g = F(g)
  BY <1>5
<1> HIDE DEF g
<1>7. g[{}] = ts /\ g[S] = AppendTask(g[S \ {Max(S)}], <<in>>[Max(S)])
  BY <1>2, <1>4, <1>6 DEF F
<1> QED
  BY <1>1, <1>2, <1>3, <1>7

\* The points an input scores on a task that has all it names.
Full(in) ==
    Overlap(in.spec, in.spec, 10, 2) + Overlap(in.code, in.code, 8, 2)
      + Overlap(in.labels, in.labels, 6, 1) + Overlap(in.research, in.research, 4, 1)

\* No list has more in common with b than b has.
Bounded(a, b, any, each) ==
    /\ Overlap(a, b, any, each) \in Nat /\ Overlap(b, b, any, each) \in Nat
    /\ Overlap(a, b, any, each) <= Overlap(b, b, any, each)
    /\ b \subseteq a => Overlap(a, b, any, each) = Overlap(b, b, any, each)
    /\ b # {} => Overlap(b, b, any, each) >= any + each

\* What two lists have in common never scores more than what is asked for.
LEMMA OverlapBounds ==
    ASSUME NEW a, NEW b, IsFiniteSet(b), NEW any \in Nat, NEW each \in {1, 2}
    PROVE  Bounded(a, b, any, each)
<1> DEFINE n == Cardinality(a \cap b)
           m == Cardinality(b)
<1>1. n \in Nat /\ m \in Nat /\ n <= m
  <2>1. a \cap b \in SUBSET b
    OBVIOUS
  <2>2. IsFiniteSet(a \cap b) /\ n <= m
    BY <2>1, FS_Subset
  <2> QED
    BY <2>2, FS_CardinalityType
<1>2. b # {} => m # 0
  BY FS_EmptySet
<1>3. b \cap b = b /\ (b \subseteq a => a \cap b = b)
  OBVIOUS
<1>4. Overlap(a, b, any, each) = IF n = 0 THEN 0 ELSE any + each * n
  BY DEF Overlap
<1>5. Overlap(b, b, any, each) = IF m = 0 THEN 0 ELSE any + each * m
  BY <1>3 DEF Overlap
<1>6. b \subseteq a => n = m
  BY <1>3
<1> HIDE DEF n, m
<1>7. CASE each = 1
  BY <1>1, <1>2, <1>4, <1>5, <1>6, <1>7 DEF Bounded
<1>8. CASE each = 2
  BY <1>1, <1>2, <1>4, <1>5, <1>6, <1>8 DEF Bounded
<1> QED
  BY <1>7, <1>8

\* The points of words that all agree.
OwnIntent(in) == IF Intent(in) = {} THEN 0 ELSE 8

\* The share of common words scores one of four values, the same words the most.
LEMMA IntentBounds ==
    ASSUME NEW r, NEW in
    PROVE  /\ IntentScore(r, in) \in {0, 3, 5, 8}
           /\ IntentScore(r, in) <= OwnIntent(in)
           /\ Intent(r) = Intent(in) /\ IsFiniteSet(Intent(in)) => IntentScore(r, in) = OwnIntent(in)
<1>1. IntentScore(r, in) \in {0, 3, 5, 8}
  BY DEF IntentScore
<1>2. Intent(in) = {} => IntentScore(r, in) = 0
  BY DEF IntentScore
<1>3. ASSUME Intent(r) = Intent(in), IsFiniteSet(Intent(in)), Intent(in) # {}
      PROVE  IntentScore(r, in) = 8
  <2> DEFINE c == Cardinality(Intent(in))
  <2>1. c \in Nat
    BY <1>3, FS_CardinalityType
  <2>2. Cardinality(Intent(r) \cap Intent(in)) = c /\ Cardinality(Intent(r) \cup Intent(in)) = c
    BY <1>3
  <2>3. IntentScore(r, in) = CASE 100 * c >= 35 * c -> 8
                               [] 100 * c >= 25 * c /\ 100 * c < 35 * c -> 5
                               [] 100 * c >= 18 * c /\ 100 * c < 25 * c -> 3
                               [] OTHER -> 0
    BY <1>3, <2>2 DEF IntentScore
  <2> HIDE DEF c
  <2>4. 100 * c >= 35 * c
    BY <2>1
  <2> QED
    BY <2>1, <2>3, <2>4
<1> QED
  BY <1>1, <1>2, <1>3 DEF OwnIntent

\* No task scores more than what is named, nine points for kind and title, and those of
\* all words;
\* one that has all that is named scores all of it.
LEMMA ScoreBounds ==
    ASSUME NEW r, NEW in, Finite(in)
    PROVE  /\ scoreRoadmapTaskReuse(r, in) \in Nat /\ Full(in) \in Nat
           /\ scoreRoadmapTaskReuse(r, in) <= Full(in) + 9 + OwnIntent(in)
           /\ /\ in.spec \subseteq r.spec /\ in.code \subseteq r.code
              /\ in.labels \subseteq r.labels /\ in.research \subseteq r.research
              => scoreRoadmapTaskReuse(r, in)
                   = Full(in) + (IF r.kind = in.kind THEN 1 ELSE 0)
                       + (IF relatedText(r.title, in.title) THEN 8 ELSE 0) + IntentScore(r, in)
           /\ Anchored(in) => Full(in) >= 5
<1> DEFINE s(a, b) == Overlap(a, b, 10, 2)
           c(a, b) == Overlap(a, b, 8, 2)
           l(a, b) == Overlap(a, b, 6, 1)
           t(a, b) == Overlap(a, b, 4, 1)
           k == IF r.kind = in.kind THEN 1 ELSE 0
           x == IF relatedText(r.title, in.title) THEN 8 ELSE 0
           i == IntentScore(r, in)
<1>1. /\ IsFiniteSet(in.spec) /\ IsFiniteSet(in.code)
      /\ IsFiniteSet(in.labels) /\ IsFiniteSet(in.research)
  BY DEF Finite
<1>2. /\ Bounded(r.spec, in.spec, 10, 2) /\ Bounded(r.code, in.code, 8, 2)
       /\ Bounded(r.labels, in.labels, 6, 1) /\ Bounded(r.research, in.research, 4, 1)
  BY <1>1, OverlapBounds
<1>3. /\ s(r.spec, in.spec) \in Nat /\ s(in.spec, in.spec) \in Nat
      /\ s(r.spec, in.spec) <= s(in.spec, in.spec)
      /\ in.spec \subseteq r.spec => s(r.spec, in.spec) = s(in.spec, in.spec)
      /\ in.spec # {} => s(in.spec, in.spec) >= 12
  BY <1>2 DEF Bounded
<1>4. /\ c(r.code, in.code) \in Nat /\ c(in.code, in.code) \in Nat
      /\ c(r.code, in.code) <= c(in.code, in.code)
      /\ in.code \subseteq r.code => c(r.code, in.code) = c(in.code, in.code)
      /\ in.code # {} => c(in.code, in.code) >= 10
  BY <1>2 DEF Bounded
<1>5. /\ l(r.labels, in.labels) \in Nat /\ l(in.labels, in.labels) \in Nat
      /\ l(r.labels, in.labels) <= l(in.labels, in.labels)
      /\ in.labels \subseteq r.labels => l(r.labels, in.labels) = l(in.labels, in.labels)
      /\ in.labels # {} => l(in.labels, in.labels) >= 7
  BY <1>2 DEF Bounded
<1>6. /\ t(r.research, in.research) \in Nat /\ t(in.research, in.research) \in Nat
      /\ t(r.research, in.research) <= t(in.research, in.research)
      /\ in.research \subseteq r.research => t(r.research, in.research) = t(in.research, in.research)
      /\ in.research # {} => t(in.research, in.research) >= 5
  BY <1>2 DEF Bounded
<1>7. /\ i \in {0, 3, 5, 8} /\ k \in {0, 1} /\ x \in {0, 8}
      /\ OwnIntent(in) \in {0, 8} /\ i <= OwnIntent(in)
  BY IntentBounds DEF OwnIntent
<1>8. Full(in) = s(in.spec, in.spec) + c(in.code, in.code) + l(in.labels, in.labels)
                   + t(in.research, in.research)
  BY DEF Full
<1>9. scoreRoadmapTaskReuse(r, in)
        = s(r.spec, in.spec) + c(r.code, in.code) + l(r.labels, in.labels)
            + t(r.research, in.research) + k + x + i
  BY DEF scoreRoadmapTaskReuse
<1>10. Anchored(in) => in.spec # {} \/ in.code # {} \/ in.labels # {} \/ in.research # {}
  BY DEF Anchored
<1> HIDE DEF s, c, l, t, i, k, x
<1>11. scoreRoadmapTaskReuse(r, in) \in Nat /\ Full(in) \in Nat
  BY <1>3, <1>4, <1>5, <1>6, <1>7, <1>8, <1>9
<1>12. scoreRoadmapTaskReuse(r, in) <= Full(in) + 9 + OwnIntent(in)
  BY <1>3, <1>4, <1>5, <1>6, <1>7, <1>8, <1>9
<1>13. ASSUME /\ in.spec \subseteq r.spec /\ in.code \subseteq r.code
              /\ in.labels \subseteq r.labels /\ in.research \subseteq r.research
       PROVE  scoreRoadmapTaskReuse(r, in) = Full(in) + k + x + i
  BY <1>3, <1>4, <1>5, <1>6, <1>7, <1>8, <1>9, <1>13
<1>14. Anchored(in) => Full(in) >= 5
  BY <1>3, <1>4, <1>5, <1>6, <1>8, <1>10
<1> QED
  BY <1>11, <1>12, <1>13, <1>14 DEF k, x, i

\* The record of a task of the roadmap.
IsTask(r) ==
    r = [title |-> r.title, kind |-> r.kind, status |-> r.status, summary |-> r.summary,
         says |-> r.says, spec |-> r.spec, code |-> r.code, labels |-> r.labels,
         research |-> r.research]

\* A task that has everything an input names.
Has(r, in) ==
    /\ r.title = in.title /\ r.status \in ActiveReuse
    /\ in.spec \subseteq r.spec /\ in.code \subseteq r.code
    /\ in.labels \subseteq r.labels /\ in.research \subseteq r.research

\* Such a task is one to reuse, for what the input names or because nothing else
\* has been added to it.
LEMMA OwnTask ==
    ASSUME NEW r, NEW in, Finite(in), in.title # << >>, Has(r, in),
           Anchored(in) \/ (Intent(in) # {} /\ Intent(r) = Intent(in) /\ r.kind = in.kind)
    PROVE  /\ isReusableRoadmapTaskMatch(r, in)
           /\ Intent(r) = Intent(in) /\ r.kind = in.kind
                => scoreRoadmapTaskReuse(r, in) = Full(in) + 9 + OwnIntent(in)
<1>1. relatedText(r.title, in.title)
  BY DEF relatedText, Has
<1>2. /\ scoreRoadmapTaskReuse(r, in)
           = Full(in) + (IF r.kind = in.kind THEN 1 ELSE 0) + 8 + IntentScore(r, in)
      /\ Full(in) \in Nat
      /\ Anchored(in) => Full(in) >= 5
  BY <1>1, ScoreBounds DEF Has
<1>3. /\ IntentScore(r, in) \in {0, 3, 5, 8} /\ OwnIntent(in) \in {0, 8}
      /\ Intent(r) = Intent(in) => IntentScore(r, in) = OwnIntent(in)
      /\ Intent(in) # {} => OwnIntent(in) = 8
  BY IntentBounds DEF Finite, OwnIntent
<1>4. scoreRoadmapTaskReuse(r, in) >= 10
  BY <1>2, <1>3
<1>5. Intent(r) = Intent(in) /\ r.kind = in.kind => scoreRoadmapTaskReuse(r, in) = Full(in) + 9 + OwnIntent(in)
  BY <1>2, <1>3
<1> QED
  BY <1>1, <1>4, <1>5 DEF isReusableRoadmapTaskMatch

\* No task is one to reuse for an input that nothing is left of to recognise.
LEMMA NoneIsRelated ==
    ASSUME NEW r, NEW in, Finite(in), Unrecognisable(in)
    PROVE  ~isReusableRoadmapTaskMatch(r, in)
<1>1. in.spec = {} /\ in.code = {} /\ in.labels = {} /\ in.research = {}
  BY DEF Unrecognisable, Anchored
<1>2. \A a, any, each : Overlap(a, {}, any, each) = 0
  <2>1. \A a : a \cap {} = {}
    OBVIOUS
  <2> QED
    BY <2>1, FS_EmptySet DEF Overlap
<1>3. scoreRoadmapTaskReuse(r, in) = (IF r.kind = in.kind THEN 1 ELSE 0)
                                       + (IF relatedText(r.title, in.title) THEN 8 ELSE 0)
                                       + IntentScore(r, in)
  <2>1. scoreRoadmapTaskReuse(r, in) = 0 + 0 + 0 + 0 + (IF r.kind = in.kind THEN 1 ELSE 0)
                                         + (IF relatedText(r.title, in.title) THEN 8 ELSE 0)
                                         + IntentScore(r, in)
    BY <1>1, <1>2 DEF scoreRoadmapTaskReuse
  <2>2. IntentScore(r, in) \in Nat
    BY IntentBounds
  <2> QED
    BY <2>1, <2>2
<1>4. IntentScore(r, in) \in {0, 3, 5, 8} /\ IntentScore(r, in) <= OwnIntent(in)
  BY IntentBounds
<1>5. in.title = << >> => ~relatedText(r.title, in.title)
  BY DEF relatedText
<1>6. scoreRoadmapTaskReuse(r, in) <= 9
  <2>1. CASE in.title = << >>
    BY <1>3, <1>4, <1>5, <2>1
  <2>2. CASE Intent(in) = {}
    BY <1>3, <1>4, <2>2 DEF OwnIntent
  <2> QED
    BY <2>1, <2>2 DEF Unrecognisable
<1>7. scoreRoadmapTaskReuse(r, in) \in Nat
  BY <1>3, <1>4
<1> QED
  BY <1>6, <1>7 DEF isReusableRoadmapTaskMatch

\* The record of a task, field by field.
Record(title, kind, status, summary, says, spec, code, labels, research) ==
    [title |-> title, kind |-> kind, status |-> status, summary |-> summary,
     says |-> says, spec |-> spec, code |-> code, labels |-> labels, research |-> research]

\* What a refinement leaves and what it adds.
LEMMA Refinement ==
    ASSUME NEW r, NEW in, IsTask(r)
    PROVE  LET v == refineRoadmapTaskFromInput(r, in) IN
           /\ IsTask(v)
           /\ v.title = r.title /\ v.status = r.status /\ v.summary = r.summary
           /\ v.kind = IF r.kind = "task" THEN in.kind ELSE r.kind
           /\ v.spec = r.spec \cup in.spec /\ v.code = r.code \cup in.code
           /\ v.labels = r.labels \cup in.labels /\ v.research = r.research \cup in.research
           /\ v.says = r.says \cup in.says \cup IF in.says \subseteq r.says THEN {} ELSE {"refinement"}
<1> DEFINE kind == IF r.kind = "task" THEN in.kind ELSE r.kind
           says == r.says \cup in.says \cup IF in.says \subseteq r.says THEN {} ELSE {"refinement"}
           v == refineRoadmapTaskFromInput(r, in)
<1> DEFINE changed(k, sp, co, la, re, sa) ==
             [r EXCEPT !.kind = k, !.spec = sp, !.code = co, !.labels = la, !.research = re, !.says = sa]
<1>1. v = changed(kind, r.spec \cup in.spec, r.code \cup in.code, r.labels \cup in.labels,
                  r.research \cup in.research, says)
  BY DEF refineRoadmapTaskFromInput
<1>2. ASSUME NEW k, NEW sp, NEW co, NEW la, NEW re, NEW sa
      PROVE  changed(k, sp, co, la, re, sa) = Record(r.title, k, r.status, r.summary, sa, sp, co, la, re)
  <2> DEFINE r1 == [r EXCEPT !.kind = k]
             r2 == [r1 EXCEPT !.spec = sp]
             r3 == [r2 EXCEPT !.code = co]
             r4 == [r3 EXCEPT !.labels = la]
             r5 == [r4 EXCEPT !.research = re]
             r6 == [r5 EXCEPT !.says = sa]
  <2>1. PICK ti, ki, st, su, sy, s, c, l, t : r = Record(ti, ki, st, su, sy, s, c, l, t)
    BY DEF IsTask, Record
  <2>2. r.title = ti /\ r.status = st /\ r.summary = su
    BY <2>1 DEF Record
  <2>3. r1 = Record(ti, k, st, su, sy, s, c, l, t)
    BY <2>1 DEF Record
  <2>4. changed(k, sp, co, la, re, sa) = r6
    OBVIOUS
  <2> HIDE DEF r1
  <2>5. r2 = Record(ti, k, st, su, sy, sp, c, l, t)
    BY <2>3 DEF Record
  <2> HIDE DEF r2
  <2>6. r3 = Record(ti, k, st, su, sy, sp, co, l, t)
    BY <2>5 DEF Record
  <2> HIDE DEF r3
  <2>7. r4 = Record(ti, k, st, su, sy, sp, co, la, t)
    BY <2>6 DEF Record
  <2> HIDE DEF r4
  <2>8. r5 = Record(ti, k, st, su, sy, sp, co, la, re)
    BY <2>7 DEF Record
  <2> HIDE DEF r5
  <2>9. r6 = Record(ti, k, st, su, sa, sp, co, la, re)
    BY <2>8 DEF Record
  <2> HIDE DEF changed, r6
  <2> QED
    BY <2>2, <2>9, <2>4
<1> HIDE DEF changed, kind, says, v
<1>3. v = Record(r.title, kind, r.status, r.summary, says, r.spec \cup in.spec,
                 r.code \cup in.code, r.labels \cup in.labels, r.research \cup in.research)
  BY <1>1, <1>2
<1>4. v.kind = kind /\ v.says = says
  BY <1>3 DEF Record
<1>5. /\ v.title = r.title /\ v.status = r.status /\ v.summary = r.summary
      /\ v.spec = r.spec \cup in.spec /\ v.code = r.code \cup in.code
      /\ v.labels = r.labels \cup in.labels /\ v.research = r.research \cup in.research
  BY <1>3 DEF Record
<1>6. IsTask(v)
  BY <1>3 DEF IsTask, Record
<1> QED
  BY <1>4, <1>5, <1>6 DEF v, kind, says

\* Refining with what is there already changes nothing.
LEMMA RefinesNothing ==
    ASSUME NEW r, NEW in, IsTask(r), Has(r, in), in.says \subseteq r.says,
           r.kind = "task" => in.kind = "task"
    PROVE  refineRoadmapTaskFromInput(r, in) = r
<1> DEFINE v == refineRoadmapTaskFromInput(r, in)
<1>1. /\ IsTask(v)
      /\ v.title = r.title /\ v.status = r.status /\ v.summary = r.summary
      /\ v.kind = IF r.kind = "task" THEN in.kind ELSE r.kind
      /\ v.spec = r.spec \cup in.spec /\ v.code = r.code \cup in.code
      /\ v.labels = r.labels \cup in.labels /\ v.research = r.research \cup in.research
      /\ v.says = r.says \cup in.says \cup IF in.says \subseteq r.says THEN {} ELSE {"refinement"}
  BY Refinement
<1> HIDE DEF v
<1>2. v.kind = r.kind
  BY <1>1
<1>3. v.spec = r.spec /\ v.code = r.code /\ v.labels = r.labels /\ v.research = r.research
  BY <1>1 DEF Has
<1>4. v.says = r.says
  BY <1>1
<1>5. /\ IsTask(v)
      /\ v.title = r.title /\ v.status = r.status /\ v.summary = r.summary
      /\ v.kind = r.kind
      /\ v.spec = r.spec /\ v.code = r.code
      /\ v.labels = r.labels /\ v.research = r.research
      /\ v.says = r.says
  BY <1>1, <1>2, <1>3, <1>4
<1>6. v = r
  BY <1>5 DEF IsTask
<1> QED
  BY <1>6 DEF v

\* A task that no other beats, and that comes first, is the one found.
LEMMA FirstIsFound ==
    ASSUME NEW ts, NEW in, 1 \in Related(ts, in), DOMAIN ts \subseteq 1 .. 2,
           \A id \in Related(ts, in) :
              /\ scoreRoadmapTaskReuse(ts[id], in) \in Nat
              /\ scoreRoadmapTaskReuse(ts[id], in) <= scoreRoadmapTaskReuse(ts[1], in)
    PROVE  findRelatedRoadmapTask(ts, in) = 1
<1> DEFINE best == {id \in Related(ts, in) : \A o \in Related(ts, in) :
                      scoreRoadmapTaskReuse(ts[o], in) <= scoreRoadmapTaskReuse(ts[id], in)}
<1>1. findRelatedRoadmapTask(ts, in) = Min(best)
  BY DEF findRelatedRoadmapTask
<1>2. 1 \in best /\ best \subseteq 1 .. 2
  BY DEF Related
<1> HIDE DEF best
<1>3. \A y \in best : 1 =< y
  BY <1>2
<1>4. Min(best) \in best /\ Min(best) =< 1
  BY <1>2, <1>3 DEF Min
<1>5. ASSUME NEW m, m \in 1 .. 2, m =< 1
      PROVE  m = 1
  BY <1>5
<1>6. Min(best) = 1
  BY <1>2, <1>4, <1>5
<1> QED
  BY <1>1, <1>6

\* A create sent twice makes one task, and a third time changes nothing: for any
\* input with a title that names a path, label or research, whatever came in
\* between, and for any with a title and a word that says something whose task was
\* left alone; for any open status of the task.  An input with nothing to
\* recognise makes another task each time (findRelatedRoadmapTask, tokenJaccard,
\* refineRoadmapTaskFromInput).
THEOREM RepetitionIsAbsorbed ==
    ASSUME NEW in, NEW between, NEW status \in ActiveReuse,
           Finite(in), Finite(between)
    PROVE  AbsorbsRepetition(in, between, status)
<1> DEFINE t1 == [NewTask(in) EXCEPT !.status = status]
           once == [appendRoadmapTasks(<<>>, <<in>>) EXCEPT ![1].status = status]
           later == appendRoadmapTasks(once, <<between>>)
           again == appendRoadmapTasks(later, <<in>>)
<1>0. Unrecognisable(in) => again = Append(later, NewTask(in))
  <2>1. again = AppendTask(later, in)
    BY AppendOne
  <2> HIDE DEF later, again
  <2>2. ASSUME Unrecognisable(in) PROVE Related(later, in) = {}
    BY <2>2, NoneIsRelated DEF Related
  <2> QED
    BY <2>1, <2>2 DEF AppendTask
<1> SUFFICES ASSUME in.title # << >>, Anchored(in) \/ (Intent(in) # {} /\ later[1] = once[1])
             PROVE  DOMAIN again = DOMAIN later /\ appendRoadmapTasks(again, <<in>>) = again
  BY <1>0 DEF AbsorbsRepetition
<1>1. /\ IsTask(t1) /\ Has(t1, in) /\ Intent(t1) = Intent(in) /\ t1.kind = in.kind
      /\ t1.says = in.says
  BY DEF NewTask, IsTask, Has, Intent
<1>2. once = <<t1>>
  <2>1. Related(<<>>, in) = {}
    BY DEF Related
  <2>2. appendRoadmapTasks(<<>>, <<in>>) = Append(<<>>, NewTask(in))
    BY <2>1, AppendOne DEF AppendTask
  <2>3. \A x : Append(<<>>, x) = <<x>>
    OBVIOUS
  <2> QED
    BY <2>2, <2>3
<1> HIDE DEF t1, once
<1>3. refineRoadmapTaskFromInput(t1, in) = t1
  BY <1>1, RefinesNothing
<1>4. isReusableRoadmapTaskMatch(t1, in) /\ scoreRoadmapTaskReuse(t1, in) = Full(in) + 9 + OwnIntent(in)
  BY <1>1, OwnTask
<1>5. later = AppendTask(once, between)
  BY AppendOne
<1>6. CASE Related(once, between) = {}
  <2> DEFINE t2 == NewTask(between)
  <2>1. /\ later = [id \in 1 .. 2 |-> IF id = 1 THEN t1 ELSE t2]
        /\ later[1] = t1 /\ later[2] = t2 /\ DOMAIN later = 1 .. 2
    <3>1. later = Append(<<t1>>, t2)
      BY <1>2, <1>5, <1>6 DEF AppendTask
    <3>2. ASSUME NEW x, NEW y
          PROVE  Append(<<x>>, y) = [id \in 1 .. 2 |-> IF id = 1 THEN x ELSE y]
      OBVIOUS
    <3> QED
      BY <3>1, <3>2
  <2> HIDE DEF t2, later
  <2>2. 1 \in Related(later, in) /\ Related(later, in) \subseteq {1, 2}
    BY <1>1, <1>4, <2>1 DEF Related, Has
  <2>3. findRelatedRoadmapTask(later, in) = 1
    <3>1. /\ scoreRoadmapTaskReuse(t1, in) \in Nat /\ scoreRoadmapTaskReuse(t2, in) \in Nat
          /\ scoreRoadmapTaskReuse(t2, in) <= scoreRoadmapTaskReuse(t1, in)
          /\ scoreRoadmapTaskReuse(t1, in) <= scoreRoadmapTaskReuse(t1, in)
      BY <1>4, ScoreBounds
    <3> QED
      BY <2>1, <2>2, <3>1, FirstIsFound
  <2>4. AppendTask(later, in) = later
    BY <1>3, <2>1, <2>2, <2>3 DEF AppendTask
  <2>5. again = later
    BY <2>4, AppendOne
  <2> QED
    BY <2>5
<1>7. CASE Related(once, between) # {}
  <2> DEFINE u == refineRoadmapTaskFromInput(t1, between)
             v == refineRoadmapTaskFromInput(u, in)
  <2>1. ASSUME NEW r, NEW i, Finite(i), Related(<<r>>, i) # {}
        PROVE  AppendTask(<<r>>, i) = <<refineRoadmapTaskFromInput(r, i)>>
    <3>1. Related(<<r>>, i) = {1}
      BY <2>1 DEF Related
    <3>2. scoreRoadmapTaskReuse(<<r>>[1], i) \in Nat
      BY <2>1, ScoreBounds
    <3>3. findRelatedRoadmapTask(<<r>>, i) = 1
      BY <3>1, <3>2, FirstIsFound
    <3> QED
      BY <2>1, <3>3 DEF AppendTask
  <2>2. later = <<u>>
    BY <1>2, <1>5, <1>7, <2>1
  <2>3. /\ IsTask(u) /\ Has(u, in)
        /\ Anchored(in) \/ (Intent(in) # {} /\ u = t1)
    <3>1. Has(u, in) /\ IsTask(u)
      BY <1>1, Refinement DEF Has
    <3> QED
      BY <1>2, <2>2, <3>1
  <2>4. IsTask(v) /\ Has(v, in) /\ in.says \subseteq v.says /\ (v.kind = "task" => in.kind = "task")
    BY <2>3, Refinement DEF Has
  <2>5. Anchored(in) \/ (Intent(in) # {} /\ v = t1)
    BY <1>3, <2>3
  <2> HIDE DEF u, v, later
  <2>6. isReusableRoadmapTaskMatch(u, in) /\ isReusableRoadmapTaskMatch(v, in)
    BY <1>1, <1>4, <2>3, <2>4, <2>5, OwnTask
  <2>7. Related(<<u>>, in) # {} /\ Related(<<v>>, in) # {}
    <3>1. <<u>>[1] = u /\ <<v>>[1] = v /\ 1 \in DOMAIN <<u>> /\ 1 \in DOMAIN <<v>>
      OBVIOUS
    <3> QED
      BY <2>3, <2>4, <2>6, <3>1 DEF Related, Has
  <2>8. again = <<v>>
    BY <2>1, <2>2, <2>7, AppendOne DEF v
  <2>9. refineRoadmapTaskFromInput(v, in) = v
    BY <2>4, RefinesNothing
  <2>10. AppendTask(<<v>>, in) = <<v>>
    BY <2>1, <2>7, <2>9
  <2>11. appendRoadmapTasks(again, <<in>>) = again
    BY <2>8, <2>10, AppendOne
  <2>12. DOMAIN again = DOMAIN later
    BY <2>2, <2>8
  <2> QED
    BY <2>11, <2>12
<1> QED
  BY <1>6, <1>7

\* So with any inputs the tool may be sent, and any words dropped.
THEOREM RepeatedCreatesAbsorbed == Spec => []RepeatedCreateAbsorbed
<1>1. RepeatedCreateAbsorbed
  <2> SUFFICES ASSUME NEW in \in Inputs, NEW between \in Inputs, NEW status \in OpenStatus
               PROVE  AbsorbsRepetition(in, between, status)
    BY DEF RepeatedCreateAbsorbed
  <2>1. Finite(in) /\ Finite(between) /\ status \in ActiveReuse
    BY InputsType DEF OpenStatus, ActiveReuse
  <2> QED
    BY <2>1, RepetitionIsAbsorbed
<1> QED
  BY <1>1, PTL

=============================================================================
