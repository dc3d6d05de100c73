------------------------- MODULE SessionHandoffProofs -------------------------
(***************************************************************************)
(* For any number of sessions and handoffs: a handoff is never queued      *)
(* twice, a file that says "started" has a session behind it, a file is    *)
(* left unparsable only by two sessions or a death, the command without a  *)
(* path takes the latest, and the purge spares what was announced.         *)
(*                                                                         *)
(* All rest on one fact about files without a lock: while a handoff is     *)
(* being staged, the call that stages it is alone with it, because nobody  *)
(* else takes a handoff whose file does not parse.                         *)
(***************************************************************************)
EXTENDS SessionHandoff, TLAPS

\* Handoffs that are not staged yet occur nowhere.
Numbered ==
    /\ \A h \in Handoff : h <= staged => mode[h] \in Mode
    /\ \A h \in Handoff : disk[h] # "absent" => h <= staged
    /\ \A s \in Session : on[s] <= staged /\ \A h \in found[s] : h <= staged
    /\ \A h \in returned \cup left : h <= staged

\* A call has a handoff in hand from taking it to the last write.
InHand == \A s \in Session : pc[s] \in {"open", "write", "newSession"} <=> on[s] # 0

\* The call s is staging its handoff.
Staging(s) == on[s] # 0 /\ mark[s] = "queued"

\* It is alone with it, and the file does not parse yet.
StagerAlone ==
    \A s \in Session : Staging(s) =>
        /\ disk[on[s]] \in {"absent", "empty"}
        /\ on[s] \notin left \cup returned
        /\ \A o \in Session \ {s} : on[o] # on[s]
        /\ \A o \in Session : on[s] \notin found[o]

\* Other writes find the file as staged, and empty it.
EmptiedBeforeWrite ==
    \A s \in Session : pc[s] = "write" /\ mark[s] # "queued" => disk[on[s]] # "queued"

\* What a scan has not read or found is not queued, and what a purge is about to delete
\* is not either, as far as it was announced before.
Announced ==
    /\ \A s \in Session : known[s] \subseteq returned
    /\ \A s \in Session : pc[s] = "scan" =>
        \A h \in known[s] : disk[h] = "queued" => h \in todo[s] \cup found[s]
    /\ \A s \in Session : pc[s] = "purge" =>
        \A h \in known[s] : disk[h] = "queued" => h \notin todo[s]

QueuedInv == StagerAlone /\ EmptiedBeforeWrite /\ NeverQueuedAgain /\ Announced

\* Two calls with one handoff in hand have been noted.
ContestNoted ==
    \A s, o \in Session : s # o /\ on[s] # 0 /\ on[s] = on[o] => on[s] \in contested

\* A writer that is alone has the empty file it opened, unless that was deleted.
LoneWriter ==
    \A s \in Session : pc[s] = "write" /\ on[s] \notin contested =>
        disk[on[s]] = IF s \in linked THEN "empty" ELSE "absent"

\* A file that does not parse has a writer, or was contested or abandoned.
TornHasWriter ==
    \A h \in Handoff : disk[h] \in Unparsable =>
        \/ h \in contested \cup abandoned
        \/ \E s \in Session : on[s] = h /\ pc[s] = "write"

TornInv == ContestNoted /\ LoneWriter /\ TornHasWriter

BaseInv == TypeOK /\ Numbered /\ InHand
IInv == BaseInv /\ QueuedInv /\ StartedIsRunning /\ TornInv

-----------------------------------------------------------------------------
\* Every action, for case splits.
Action(s) ==
    \/ Stage(s) \/ RunByPath(s) \/ RunLatest(s) \/ ReadNext(s) \/ Choose(s) \/ NewSession(s)
    \/ Open(s) \/ Fill(s) \/ Collect(s) \/ DeleteCandidate(s) \/ Crash(s)

\* The status a handoff is first marked with, and the one the session ends with.
LEMMA MarkTypes ==
    /\ \A m \in Mode : FirstMark(m) \in Status \ {"queued"}
    /\ \A r \in DOMAIN FinalMark : FinalMark[r] \in Consumed
    /\ Consumed \subseteq Status \ {"queued", "started"}
BY DEF FirstMark, FinalMark, Mode, Status, Consumed

\* What is left of a file after a write is what was written or does not parse.
LEMMA WrittenType ==
    ASSUME NEW c \in Content, NEW m \in Status
    PROVE  /\ Written(c, m) \in {m, "mixed"}
           /\ c \notin Status => Written(c, m) = m
BY DEF Written

LEMMA InitIInv == Init => IInv
<1> SUFFICES ASSUME Init PROVE IInv
  OBVIOUS
<1> USE BoundsType DEF Init, Handoff
<1>1. BaseInv
  BY DEF BaseInv, TypeOK, Numbered, InHand, Content, Status, Mode
<1>2. QueuedInv
  BY DEF QueuedInv, StagerAlone, Staging, EmptiedBeforeWrite, NeverQueuedAgain, Announced
<1>3. StartedIsRunning /\ TornInv
  BY DEF StartedIsRunning, TornInv, ContestNoted, LoneWriter, TornHasWriter, Unparsable
<1> QED
  BY <1>1, <1>2, <1>3 DEF IInv

\* Taking a handoff in hand keeps the types of what it changes.
LEMMA TakesBase ==
    ASSUME BaseInv, NEW s \in Session, NEW h \in Handoff, h <= staged, NEW m \in Status,
           Takes(s, h, m), UNCHANGED <<disk, mode, staged, linked, todo, returned, left, abandoned>>
    PROVE  /\ pc' \in [Session -> {"idle", "scan", "open", "write", "newSession", "purge"}]
           /\ on' \in [Session -> 0..MaxHandoff]
           /\ mark' \in [Session -> Status]
           /\ contested' \subseteq Handoff
           /\ \A o \in Session : on'[o] <= staged
           /\ InHand'
<1> USE BoundsType DEF BaseInv, TypeOK
<1>1. /\ pc' = [pc EXCEPT ![s] = "open"] /\ on' = [on EXCEPT ![s] = h]
      /\ mark' = [mark EXCEPT ![s] = m] /\ contested' \subseteq contested \cup {h}
  BY DEF Takes
<1>2. h \in Nat /\ h # 0 /\ h \in 0..MaxHandoff
  BY DEF Handoff
<1>3. /\ pc' \in [Session -> {"idle", "scan", "open", "write", "newSession", "purge"}]
      /\ mark' \in [Session -> Status] /\ contested' \subseteq Handoff
  BY <1>1
<1>4. on' \in [Session -> 0..MaxHandoff] /\ \A o \in Session : on'[o] <= staged
  BY <1>1, <1>2 DEF Numbered
<1>5. InHand'
  BY <1>1, <1>2 DEF InHand
<1> QED
  BY <1>3, <1>4, <1>5

\* Types.
LEMMA NextBase ==
    ASSUME BaseInv, NEW s \in Session, Action(s)
    PROVE  BaseInv'
<1> USE BoundsType DEF BaseInv, TypeOK, Numbered, InHand, Calls, history
<1>0. staged \in Nat /\ \A h \in Handoff : h \in Nat
  BY DEF Handoff
<1>1. CASE Stage(s)
  <2>1. PICK m \in Mode : mode' = [mode EXCEPT ![staged + 1] = m]
    BY <1>1 DEF Stage
  <2>2. staged + 1 \in Handoff /\ staged' = staged + 1 /\ staged' \in 0..MaxHandoff
    BY <1>1 DEF Stage, Handoff
  <2>3. /\ mode' \in [Handoff -> Mode \cup {"none"}]
        /\ \A h \in Handoff : h <= staged' => mode'[h] \in Mode
    BY <2>1, <2>2 DEF Handoff
  <2>4. /\ pc' = [pc EXCEPT ![s] = "open"] /\ on' = [on EXCEPT ![s] = staged + 1]
        /\ mark' = [mark EXCEPT ![s] = "queued"]
        /\ contested' \subseteq contested \cup {staged + 1}
    BY <1>1 DEF Stage, Takes
  <2>5. /\ on' \in [Session -> 0..MaxHandoff] /\ contested' \subseteq Handoff
        /\ \A o \in Session : on'[o] <= staged' /\ (pc'[o] \in {"open", "write", "newSession"} <=> on'[o] # 0)
    BY <2>2, <2>4 DEF Handoff
  <2> QED
    BY <1>0, <1>1, <2>2, <2>3, <2>4, <2>5 DEF Stage, Status
<1>2. CASE RunByPath(s)
  <2>1. PICK h \in Handoff : disk[h] \in Status /\ Takes(s, h, FirstMark(mode[h]))
    BY <1>2 DEF RunByPath
  <2>2. h <= staged /\ FirstMark(mode[h]) \in Status
    BY <2>1, MarkTypes DEF Status
  <2> QED
    BY <1>2, <2>1, <2>2, TakesBase DEF RunByPath
<1>3. CASE RunLatest(s)
  BY <1>3 DEF RunLatest
<1>4. CASE ReadNext(s)
  <2>1. PICK h \in todo[s] :
          /\ todo' = [todo EXCEPT ![s] = @ \ {h}]
          /\ found' = IF disk[h] = "queued" THEN [found EXCEPT ![s] = @ \cup {h}] ELSE found
    BY <1>4 DEF ReadNext
  <2>2. todo' \in [Session -> SUBSET Handoff] /\ found' \in [Session -> SUBSET Handoff]
    BY <2>1
  <2>3. \A o \in Session : \A g \in found'[o] : g <= staged
    BY <2>1
  <2> QED
    BY <1>4, <2>2, <2>3 DEF ReadNext
<1>5. CASE Choose(s)
  <2>1. CASE found[s] = {} /\ Ends(s) /\ UNCHANGED contested
    BY <1>5, <2>1 DEF Choose, Ends, Status, Handoff
  <2>2. CASE \E h \in Latest(found[s]) : Takes(s, h, FirstMark(mode[h]))
    <3>1. PICK h \in Latest(found[s]) : Takes(s, h, FirstMark(mode[h]))
      BY <2>2
    <3>2. h \in Handoff /\ h <= staged /\ FirstMark(mode[h]) \in Status
      BY MarkTypes DEF Latest
    <3> QED
      BY <1>5, <3>1, <3>2, TakesBase DEF Choose, Handoff
  <2> QED
    BY <1>5, <2>1, <2>2 DEF Choose
<1>6. CASE NewSession(s)
  <2>1. PICK r \in DOMAIN FinalMark : mark' = [mark EXCEPT ![s] = FinalMark[r]]
    BY <1>6 DEF NewSession
  <2>2. FinalMark[r] \in Status
    BY MarkTypes
  <2> QED
    BY <1>6, <2>1, <2>2 DEF NewSession
<1>7. CASE Open(s)
  <2>1. on[s] \in Handoff
    BY <1>7 DEF Open, Handoff
  <2>2. disk' = [disk EXCEPT ![on[s]] = "empty"]
    BY <1>7 DEF Open, Opened
  <2>3. /\ disk' \in [Handoff -> Content]
        /\ \A h \in Handoff : disk'[h] # "absent" => h <= staged
    BY <2>1, <2>2 DEF Content, Unparsable
  <2> QED
    BY <1>7, <2>3 DEF Open
<1>8. CASE Fill(s)
  <2>1. on[s] \in Handoff /\ on[s] <= staged
    BY <1>8 DEF Fill, Handoff
  <2>2. disk' = IF s \in linked THEN [disk EXCEPT ![on[s]] = Written(disk[on[s]], mark[s])] ELSE disk
    BY <1>8 DEF Fill
  <2>3. Written(disk[on[s]], mark[s]) \in Content
    BY <2>1, WrittenType DEF Content, Unparsable
  <2>4. /\ disk' \in [Handoff -> Content]
        /\ \A h \in Handoff : disk'[h] # "absent" => h <= staged
    BY <2>1, <2>2, <2>3
  <2>5. /\ left' \subseteq left \cup {on[s]}
        /\ returned' \subseteq returned \cup {on[s]}
    BY <1>8 DEF Fill
  <2>6. /\ left' \subseteq Handoff /\ returned' \subseteq Handoff
        /\ \A h \in returned' \cup left' : h <= staged
    BY <2>1, <2>5
  <2>7. /\ pc' \in [Session -> {"idle", "scan", "open", "write", "newSession", "purge"}]
        /\ on' \in [Session -> 0..MaxHandoff] /\ mark' \in [Session -> Status]
        /\ \A o \in Session : on'[o] <= staged
        /\ \A o \in Session : pc'[o] \in {"open", "write", "newSession"} <=> on'[o] # 0
    BY <1>8 DEF Fill, Ends, Status
  <2> QED
    BY <1>8, <2>4, <2>6, <2>7 DEF Fill
<1>9. CASE Collect(s)
  <2>1. PICK scope \in SUBSET Handoff : todo' = [todo EXCEPT ![s] = {h \in scope : Purgeable(disk[h])}]
    BY <1>9 DEF Collect
  <2>2. todo' \in [Session -> SUBSET Handoff]
    BY <2>1
  <2> QED
    BY <1>9, <2>2 DEF Collect
<1>10. CASE DeleteCandidate(s)
  <2>1. PICK h \in todo[s] :
          /\ disk' = [disk EXCEPT ![h] = "absent"]
          /\ linked' = {o \in linked : on[o] # h}
          /\ todo' = [todo EXCEPT ![s] = @ \ {h}]
    BY <1>10 DEF DeleteCandidate
  <2>2. /\ disk' \in [Handoff -> Content] /\ linked' \subseteq Session
        /\ todo' \in [Session -> SUBSET Handoff]
        /\ \A g \in Handoff : disk'[g] # "absent" => g <= staged
    BY <2>1 DEF Content
  <2>3. pc[s] \notin {"open", "write", "newSession"}
    BY <1>10 DEF DeleteCandidate
  <2>4. /\ pc' \in [Session -> {"idle", "scan", "open", "write", "newSession", "purge"}]
        /\ known' \in [Session -> SUBSET Handoff]
        /\ \A o \in Session : pc'[o] \in {"open", "write", "newSession"} <=> on[o] # 0
    BY <1>10, <2>3 DEF DeleteCandidate
  <2> QED
    BY <1>10, <2>2, <2>4 DEF DeleteCandidate
<1>11. CASE Crash(s)
  <2>1. /\ pc' = [pc EXCEPT ![s] = "idle"] /\ on' = [on EXCEPT ![s] = 0]
        /\ mark' = [mark EXCEPT ![s] = "queued"] /\ linked' = linked \ {s}
        /\ todo' = [todo EXCEPT ![s] = {}] /\ found' = [found EXCEPT ![s] = {}]
        /\ known' = [known EXCEPT ![s] = {}]
        /\ abandoned' \subseteq abandoned \cup (IF on[s] = 0 THEN {} ELSE {on[s]})
        /\ UNCHANGED <<calls, disk, mode, staged, returned, left, contested>>
    BY <1>11 DEF Crash, Ends
  <2>2. abandoned' \subseteq Handoff
    BY <2>1 DEF Handoff
  <2>3. on' \in [Session -> 0..MaxHandoff] /\ \A o \in Session : on'[o] <= staged
    BY <1>0, <2>1
  <2>4. TypeOK'
    BY <2>1, <2>2, <2>3 DEF Status
  <2> QED
    BY <2>1, <2>3, <2>4
<1> QED
  BY <1>1, <1>2, <1>3, <1>4, <1>5, <1>6, <1>7, <1>8, <1>9, <1>10, <1>11 DEF Action

-----------------------------------------------------------------------------
\* Taking a handoff that nobody is staging, for another status than queued, leaves every
\* staging call alone with its own.
LEMMA TakesQueued ==
    ASSUME BaseInv, QueuedInv, NEW s \in Session, NEW h \in Handoff, NEW m \in Status \ {"queued"},
           disk[h] \in Status \/ h \in found[s],
           Takes(s, h, m), UNCHANGED <<disk, returned, left>>,
           found' \in [Session -> SUBSET Handoff], \A o \in Session : found'[o] \subseteq found[o]
    PROVE  StagerAlone' /\ EmptiedBeforeWrite' /\ NeverQueuedAgain'
<1> USE DEF BaseInv, TypeOK, QueuedInv, StagerAlone, Staging, Takes
<1>1. \A o \in Session : Staging(o)' => o # s /\ Staging(o) /\ on'[o] = on[o] /\ on[o] # h
  BY DEF Status
<1>2. StagerAlone'
  BY <1>1
<1>3. EmptiedBeforeWrite' /\ NeverQueuedAgain'
  BY DEF EmptiedBeforeWrite, NeverQueuedAgain
<1> QED
  BY <1>2, <1>3

\* A handoff being staged stays with the one call that stages it, and what has left
\* the queue does not come back.
LEMMA NextQueued ==
    ASSUME BaseInv, BaseInv', QueuedInv, NEW s \in Session, Action(s)
    PROVE  QueuedInv'
<1> USE DEF BaseInv, TypeOK, QueuedInv, Calls, history
<1>1. CASE Stage(s)
  <2>1. /\ pc' = [pc EXCEPT ![s] = "open"] /\ on' = [on EXCEPT ![s] = staged + 1]
        /\ mark' = [mark EXCEPT ![s] = "queued"]
        /\ UNCHANGED <<disk, todo, found, returned, known, left>>
    BY <1>1 DEF Stage, Takes
  <2>2. /\ staged + 1 \in Handoff /\ disk[staged + 1] = "absent"
        /\ staged + 1 \notin left \cup returned
        /\ \A o \in Session : on[o] # staged + 1 /\ staged + 1 \notin found[o]
    BY <1>1, BoundsType DEF Stage, Numbered, Handoff
  <2>3. StagerAlone'
    BY <2>1, <2>2 DEF StagerAlone, Staging
  <2> QED
    BY <2>1, <2>3 DEF EmptiedBeforeWrite, NeverQueuedAgain, Announced
<1>2. CASE RunByPath(s)
  <2>1. PICK h \in Handoff : disk[h] \in Status /\ Takes(s, h, FirstMark(mode[h]))
    BY <1>2 DEF RunByPath
  <2>2. FirstMark(mode[h]) \in Status \ {"queued"}
    BY <2>1, MarkTypes DEF Numbered, Status
  <2>3. StagerAlone' /\ EmptiedBeforeWrite' /\ NeverQueuedAgain'
    BY <1>2, <2>1, <2>2, TakesQueued DEF RunByPath
  <2> QED
    BY <1>2, <2>1, <2>3 DEF RunByPath, Takes, Announced
<1>3. CASE RunLatest(s)
  BY <1>3 DEF RunLatest, StagerAlone, Staging, EmptiedBeforeWrite, NeverQueuedAgain, Announced, Numbered, Handoff
<1>4. CASE ReadNext(s)
  <2>1. PICK h \in todo[s] :
          /\ todo' = [todo EXCEPT ![s] = @ \ {h}]
          /\ found' = IF disk[h] = "queued" THEN [found EXCEPT ![s] = @ \cup {h}] ELSE found
    BY <1>4 DEF ReadNext
  <2>2. UNCHANGED <<disk, pc, on, mark, returned, known, left>> /\ pc[s] = "scan"
    BY <1>4 DEF ReadNext
  <2>3. StagerAlone'
    BY <2>1, <2>2 DEF StagerAlone, Staging
  <2>4. Announced'
    BY <2>1, <2>2 DEF Announced
  <2> QED
    BY <2>2, <2>3, <2>4 DEF EmptiedBeforeWrite, NeverQueuedAgain
<1>5. CASE Choose(s)
  <2>1. \A o \in Session : found'[o] \subseteq found[o]
    BY <1>5 DEF Choose
  <2>2. UNCHANGED <<disk, todo, returned, left>> /\ known' = [known EXCEPT ![s] = {}]
    BY <1>5 DEF Choose
  <2>3. CASE found[s] = {} /\ Ends(s) /\ UNCHANGED contested
    <3>1. StagerAlone'
      BY <2>1, <2>2, <2>3 DEF Ends, StagerAlone, Staging
    <3> QED
      BY <2>1, <2>2, <2>3, <3>1, <1>5 DEF Choose, Ends, EmptiedBeforeWrite, NeverQueuedAgain, Announced
  <2>4. CASE \E h \in Latest(found[s]) : Takes(s, h, FirstMark(mode[h]))
    <3>1. PICK h \in Latest(found[s]) : Takes(s, h, FirstMark(mode[h]))
      BY <2>4
    <3>2. h \in Handoff /\ h \in found[s] /\ FirstMark(mode[h]) \in Status \ {"queued"}
      BY MarkTypes DEF Latest, Numbered
    <3>3. StagerAlone' /\ EmptiedBeforeWrite' /\ NeverQueuedAgain'
      BY <2>1, <2>2, <3>1, <3>2, TakesQueued
    <3> QED
      BY <1>5, <2>2, <3>1, <3>3 DEF Choose, Takes, Announced
  <2> QED
    BY <1>5, <2>3, <2>4 DEF Choose
<1>6. CASE NewSession(s)
  <2>1. PICK r \in DOMAIN FinalMark : mark' = [mark EXCEPT ![s] = FinalMark[r]]
    BY <1>6 DEF NewSession
  <2>2. FinalMark[r] # "queued"
    BY MarkTypes
  <2> QED
    BY <1>6, <2>1, <2>2 DEF NewSession, StagerAlone, Staging, EmptiedBeforeWrite, NeverQueuedAgain, Announced
<1>7. CASE Open(s)
  <2>1. on[s] \in Handoff
    BY <1>7 DEF Open, InHand, Handoff
  <2>2. disk' = [disk EXCEPT ![on[s]] = "empty"]
    BY <1>7 DEF Open, Opened
  <2> QED
    BY <1>7, <2>1, <2>2 DEF Open, StagerAlone, Staging, EmptiedBeforeWrite, NeverQueuedAgain, Announced
<1>8. CASE Fill(s)
  <2>1. on[s] \in Handoff
    BY <1>8 DEF Fill, InHand, Handoff
  <2>2. /\ \A h \in Handoff \ {on[s]} : disk'[h] = disk[h]
        /\ disk'[on[s]] \in {disk[on[s]], mark[s], "mixed"}
        /\ s \in linked => disk'[on[s]] \in {mark[s], "mixed"}
    BY <1>8, <2>1, WrittenType DEF Fill
  <2>3. /\ \A o \in Session \ {s} : on'[o] = on[o] /\ mark'[o] = mark[o] /\ pc'[o] = pc[o]
        /\ on'[s] = 0 \/ (on'[s] = on[s] /\ mark'[s] # "queued")
        /\ left' \subseteq left \cup {on[s]}
        /\ pc'[s] # "write" /\ pc'[s] # "scan" /\ pc'[s] # "purge"
        /\ returned' \subseteq returned \cup {on[s]} /\ returned \subseteq returned'
        /\ UNCHANGED <<todo, found, known>>
    BY <1>8 DEF Fill, Ends
  <2>4. \A o \in Session \ {s} : Staging(o) => on[o] # on[s]
    BY DEF StagerAlone
  <2>5. StagerAlone'
    <3> SUFFICES ASSUME NEW t \in Session, Staging(t)'
                 PROVE  /\ disk'[on'[t]] \in {"absent", "empty"}
                        /\ on'[t] \notin left' \cup returned'
                        /\ \A o \in Session \ {t} : on'[o] # on'[t]
                        /\ \A o \in Session : on'[t] \notin found'[o]
      BY DEF StagerAlone
    <3>1. t # s /\ Staging(t) /\ on'[t] = on[t]
      BY <2>3 DEF Staging
    <3>2. on[t] # on[s] /\ on[t] \in Handoff
      BY <2>4, <3>1 DEF Staging, Handoff
    <3>3. disk'[on[t]] = disk[on[t]] /\ on[t] \notin left' \cup returned'
      BY <2>2, <2>3, <3>1, <3>2 DEF StagerAlone
    <3>4. \A o \in Session \ {t} : on'[o] # on[t]
      BY <2>3, <3>1, <3>2 DEF StagerAlone, Handoff
    <3> QED
      BY <2>3, <3>1, <3>3, <3>4 DEF StagerAlone
  <2>6. CASE mark[s] = "queued"
    <3>1. Staging(s) /\ left' = left
      BY <1>8, <2>1, <2>6 DEF Fill, Staging, Handoff
    <3>2. on[s] \notin left \cup returned /\ \A o \in Session \ {s} : on[o] # on[s]
      BY <3>1 DEF StagerAlone
    <3>3. ASSUME NEW t \in Session, pc'[t] = "write" /\ mark'[t] # "queued"
          PROVE  disk'[on'[t]] # "queued"
      <4>1. t # s /\ pc[t] = "write" /\ mark[t] # "queued" /\ on'[t] = on[t]
        BY <2>3, <3>3
      <4>2. on[t] \in Handoff /\ on[t] # on[s]
        BY <3>2, <4>1 DEF InHand, Handoff
      <4> QED
        BY <2>2, <4>1, <4>2 DEF EmptiedBeforeWrite
    <3>4. NeverQueuedAgain'
      BY <2>1, <2>2, <3>1, <3>2 DEF NeverQueuedAgain
    <3>5. Announced'
      BY <2>1, <2>2, <2>3, <3>2 DEF Announced
    <3> QED
      BY <2>5, <3>3, <3>4, <3>5 DEF EmptiedBeforeWrite
  <2>7. CASE mark[s] # "queued"
    <3>1. left' = left \cup {on[s]} /\ disk'[on[s]] # "queued"
      BY <1>8, <2>2, <2>7 DEF Fill, EmptiedBeforeWrite
    <3>2. \A h \in Handoff : disk'[h] = "queued" => disk[h] = "queued"
      BY <2>2, <3>1
    <3>3. EmptiedBeforeWrite'
      BY <2>1, <2>3, <3>2, BaseInv' DEF EmptiedBeforeWrite, InHand, Handoff
    <3>4. NeverQueuedAgain'
      BY <3>1, <3>2 DEF NeverQueuedAgain
    <3>5. Announced'
      BY <2>3, <3>2 DEF Announced
    <3> QED
      BY <2>5, <3>3, <3>4, <3>5
  <2> QED
    BY <2>6, <2>7
<1>9. CASE Collect(s)
  <2>1. PICK scope \in SUBSET Handoff : todo' = [todo EXCEPT ![s] = {h \in scope : Purgeable(disk[h])}]
    BY <1>9 DEF Collect
  <2>2. \A h \in todo'[s] : disk[h] # "queued"
    BY <2>1 DEF Purgeable, Consumed, Unparsable
  <2>3. \A o \in Session \ {s} : todo'[o] = todo[o]
    BY <2>1
  <2> QED
    BY <1>9, <2>2, <2>3 DEF Collect, StagerAlone, Staging, EmptiedBeforeWrite, NeverQueuedAgain, Announced
<1>10. CASE DeleteCandidate(s)
  <2>1. PICK h \in todo[s] :
          /\ disk' = [disk EXCEPT ![h] = "absent"]
          /\ todo' = [todo EXCEPT ![s] = @ \ {h}]
    BY <1>10 DEF DeleteCandidate
  <2>2. \A g \in Handoff : disk'[g] \in {disk[g], "absent"}
    BY <2>1
  <2>3. /\ UNCHANGED <<on, mark, found, returned, left>> /\ pc[s] = "purge"
        /\ \A o \in Session : pc'[o] = pc[o] \/ pc'[o] = "idle"
        /\ \A o \in Session : known'[o] \subseteq known[o] /\ (pc'[o] # "idle" => known'[o] = known[o])
    BY <1>10 DEF DeleteCandidate
  <2>4. StagerAlone'
    BY <2>2, <2>3 DEF StagerAlone, Staging, Handoff
  <2>5. EmptiedBeforeWrite' /\ NeverQueuedAgain'
    BY <2>2, <2>3 DEF EmptiedBeforeWrite, NeverQueuedAgain, InHand, Handoff
  <2>6. Announced'
    BY <2>1, <2>2, <2>3 DEF Announced
  <2> QED
    BY <2>4, <2>5, <2>6
<1>11. CASE Crash(s)
  BY <1>11 DEF Crash, Ends, StagerAlone, Staging, EmptiedBeforeWrite, NeverQueuedAgain, Announced
<1> QED
  BY <1>1, <1>2, <1>3, <1>4, <1>5, <1>6, <1>7, <1>8, <1>9, <1>10, <1>11 DEF Action

-----------------------------------------------------------------------------
\* A file says "started" only while the session that wrote it has not written on.
LEMMA NextStarted ==
    ASSUME BaseInv, StartedIsRunning, NEW s \in Session, Action(s)
    PROVE  StartedIsRunning'
<1> DEFINE Runs(o, h) == on[o] = h /\ (pc[o] = "newSession" \/ (pc[o] = "open" /\ mark[o] \in Consumed))
<1> USE DEF BaseInv, TypeOK, Calls, history
<1> SUFFICES ASSUME NEW h \in Handoff, disk'[h] = "started"
             PROVE  h \in abandoned' \/ \E o \in Session : Runs(o, h)'
  BY DEF StartedIsRunning
<1>1. disk[h] = "started" => h \in abandoned \/ \E o \in Session : Runs(o, h)
  BY DEF StartedIsRunning
<1>2. ASSUME UNCHANGED disk, abandoned \subseteq abandoned',
             \A o \in Session \ {s} : on'[o] = on[o] /\ pc'[o] = pc[o] /\ mark'[o] = mark[o],
             Runs(s, h) => Runs(s, h)' \/ h \in abandoned'
      PROVE  h \in abandoned' \/ \E o \in Session : Runs(o, h)'
  BY <1>1, <1>2
<1>3. CASE Stage(s)
  BY <1>2, <1>3 DEF Stage, Takes, InHand, Handoff
<1>4. CASE RunByPath(s)
  BY <1>2, <1>4 DEF RunByPath, Takes, InHand, Handoff
<1>5. CASE RunLatest(s)
  BY <1>2, <1>5 DEF RunLatest, InHand, Handoff
<1>6. CASE ReadNext(s)
  BY <1>2, <1>6 DEF ReadNext
<1>7. CASE Choose(s)
  BY <1>2, <1>7 DEF Choose, Takes, Ends
<1>8. CASE NewSession(s)
  BY <1>2, <1>8, MarkTypes DEF NewSession
<1>9. CASE Open(s)
  <2>1. disk' = [disk EXCEPT ![on[s]] = "empty"] /\ on[s] \in Handoff
    BY <1>9 DEF Open, Opened, InHand, Handoff
  <2>2. h # on[s] /\ disk[h] = "started"
    BY <2>1
  <2> QED
    BY <1>1, <1>9, <2>2 DEF Open
<1>10. CASE Fill(s)
  <2>1. on[s] \in Handoff
    BY <1>10 DEF Fill, InHand, Handoff
  <2>2. h # on[s] => disk'[h] = disk[h]
    BY <1>10, <2>1 DEF Fill
  <2>3. disk'[on[s]] \in {disk[on[s]], mark[s], "mixed"}
    BY <1>10, <2>1, WrittenType DEF Fill
  <2>4. CASE disk[h] = "started"
    BY <1>1, <1>10, <2>4 DEF Fill, Ends
  <2>5. CASE disk[h] # "started"
    <3>1. h = on[s] /\ mark[s] = "started"
      BY <2>2, <2>3, <2>5
    <3>2. pc' = [pc EXCEPT ![s] = "newSession"] /\ UNCHANGED on
      BY <1>10, <3>1 DEF Fill
    <3>3. Runs(s, h)'
      BY <3>1, <3>2
    <3> QED
      BY <3>3
  <2> QED
    BY <2>4, <2>5
<1>11. CASE Collect(s)
  BY <1>2, <1>11 DEF Collect, InHand, Handoff
<1>12. CASE DeleteCandidate(s)
  <2>1. PICK g \in todo[s] : disk' = [disk EXCEPT ![g] = "absent"]
    BY <1>12 DEF DeleteCandidate
  <2>2. disk[h] = "started"
    BY <2>1
  <2> QED
    BY <1>1, <1>12, <2>2 DEF DeleteCandidate
<1>13. CASE Crash(s)
  BY <1>2, <1>13 DEF Crash, Ends, Handoff
<1> QED
  BY <1>3, <1>4, <1>5, <1>6, <1>7, <1>8, <1>9, <1>10, <1>11, <1>12, <1>13 DEF Action

-----------------------------------------------------------------------------
\* Taking a handoff in hand writes nothing and notes the contest.
LEMMA TakesTorn ==
    ASSUME BaseInv, TornInv, NEW s \in Session, on[s] = 0, NEW h \in Handoff, NEW m \in Status,
           Takes(s, h, m), UNCHANGED <<disk, linked, abandoned>>
    PROVE  TornInv'
<1> USE DEF BaseInv, TypeOK, InHand, Takes, TornInv
<1>1. ContestNoted'
  BY DEF ContestNoted, Handoff
<1>2. LoneWriter'
  BY DEF LoneWriter
<1>3. TornHasWriter'
  BY DEF TornHasWriter, Handoff
<1> QED
  BY <1>1, <1>2, <1>3

\* A file that does not parse keeps its writer, or the trace of two or of a death.
LEMMA NextTorn ==
    ASSUME BaseInv, TornInv, NEW s \in Session, Action(s)
    PROVE  TornInv'
<1> USE DEF BaseInv, TypeOK, InHand, TornInv, Calls, history
<1>1. CASE Stage(s)
  <2>1. staged + 1 \in Handoff
    BY <1>1, BoundsType DEF Stage, Handoff
  <2> QED
    BY <1>1, <2>1, TakesTorn DEF Stage, Status
<1>2. CASE RunByPath(s)
  <2>1. PICK h \in Handoff : disk[h] \in Status /\ Takes(s, h, FirstMark(mode[h]))
    BY <1>2 DEF RunByPath
  <2>2. FirstMark(mode[h]) \in Status
    BY <2>1, MarkTypes DEF Numbered, Status
  <2> QED
    BY <1>2, <2>1, <2>2, TakesTorn DEF RunByPath
<1>3. CASE RunLatest(s)
  BY <1>3 DEF RunLatest, ContestNoted, LoneWriter, TornHasWriter
<1>4. CASE ReadNext(s)
  BY <1>4 DEF ReadNext, ContestNoted, LoneWriter, TornHasWriter
<1>5. CASE Choose(s)
  <2>1. CASE found[s] = {} /\ Ends(s) /\ UNCHANGED contested
    BY <1>5, <2>1 DEF Choose, Ends, ContestNoted, LoneWriter, TornHasWriter
  <2>2. CASE \E h \in Latest(found[s]) : Takes(s, h, FirstMark(mode[h]))
    <3>1. PICK h \in Latest(found[s]) : Takes(s, h, FirstMark(mode[h]))
      BY <2>2
    <3>2. h \in Handoff /\ FirstMark(mode[h]) \in Status
      BY MarkTypes DEF Latest, Numbered
    <3> QED
      BY <1>5, <3>1, <3>2, TakesTorn DEF Choose
  <2> QED
    BY <1>5, <2>1, <2>2 DEF Choose
<1>6. CASE NewSession(s)
  BY <1>6 DEF NewSession, ContestNoted, LoneWriter, TornHasWriter
<1>7. CASE Open(s)
  <2>1. disk' = [disk EXCEPT ![on[s]] = "empty"] /\ on[s] \in Handoff
    BY <1>7 DEF Open, Opened, Handoff
  <2>2. ContestNoted' /\ TornHasWriter'
    BY <1>7, <2>1 DEF Open, ContestNoted, TornHasWriter
  <2>3. ASSUME NEW t \in Session, pc'[t] = "write", on'[t] \notin contested'
        PROVE  disk'[on'[t]] = IF t \in linked' THEN "empty" ELSE "absent"
    <3>1. UNCHANGED <<on, contested>> /\ linked' = linked \cup {s}
      BY <1>7 DEF Open
    <3>2. CASE t = s
      BY <2>1, <3>1, <3>2
    <3>3. CASE t # s
      <4>1. pc[t] = "write" /\ on[t] # 0 /\ on[t] \in Handoff
        BY <1>7, <2>3, <3>3 DEF Open, Handoff
      <4>2. on[t] # on[s]
        BY <2>3, <3>1, <3>3, <4>1 DEF ContestNoted
      <4> QED
        BY <2>1, <2>3, <3>1, <3>3, <4>1, <4>2 DEF LoneWriter
    <3> QED
      BY <3>2, <3>3
  <2> QED
    BY <2>2, <2>3 DEF LoneWriter
<1>8. CASE Fill(s)
  <2>1. on[s] \in Handoff
    BY <1>8 DEF Fill, Handoff
  <2>2. /\ \A h \in Handoff \ {on[s]} : disk'[h] = disk[h]
        /\ disk'[on[s]] = IF s \in linked THEN Written(disk[on[s]], mark[s]) ELSE disk[on[s]]
    BY <1>8, <2>1 DEF Fill
  <2>3. /\ \A o \in Session \ {s} : on'[o] = on[o] /\ pc'[o] = pc[o] /\ (o \in linked' <=> o \in linked)
        /\ on'[s] \in {0, on[s]} /\ pc'[s] # "write"
        /\ UNCHANGED <<contested, abandoned>>
    BY <1>8 DEF Fill, Ends
  <2>4. ContestNoted'
    BY <2>1, <2>3 DEF ContestNoted
  <2>5. ASSUME NEW t \in Session, pc'[t] = "write", on'[t] \notin contested'
        PROVE  disk'[on'[t]] = IF t \in linked' THEN "empty" ELSE "absent"
    <3>1. t # s /\ pc[t] = "write" /\ on'[t] = on[t] /\ on[t] \in Handoff
      BY <2>3, <2>5 DEF Handoff
    <3>2. on[t] # on[s]
      BY <2>1, <2>3, <2>5, <3>1 DEF ContestNoted, Handoff
    <3> QED
      BY <2>2, <2>3, <2>5, <3>1, <3>2 DEF LoneWriter
  <2>6. ASSUME NEW h \in Handoff, disk'[h] \in Unparsable, h \notin contested' \cup abandoned'
        PROVE  \E o \in Session : on'[o] = h /\ pc'[o] = "write"
    <3>1. CASE h = on[s]
      <4>1. disk[h] = IF s \in linked THEN "empty" ELSE "absent"
        BY <1>8, <2>3, <2>6, <3>1 DEF Fill, LoneWriter
      <4>2. disk'[h] \in {mark[s], "absent"}
        BY <2>2, <3>1, <4>1, WrittenType DEF Status
      <4> QED
        BY <2>6, <4>2 DEF Unparsable, Status
    <3>2. CASE h # on[s]
      <4>1. PICK o \in Session : on[o] = h /\ pc[o] = "write"
        BY <2>2, <2>3, <2>6, <3>2 DEF TornHasWriter
      <4> QED
        BY <2>3, <3>2, <4>1
    <3> QED
      BY <3>1, <3>2
  <2> QED
    BY <2>4, <2>5, <2>6 DEF LoneWriter, TornHasWriter
<1>9. CASE Collect(s)
  BY <1>9 DEF Collect, ContestNoted, LoneWriter, TornHasWriter
<1>10. CASE DeleteCandidate(s)
  <2>1. PICK h \in todo[s] :
          /\ disk' = [disk EXCEPT ![h] = "absent"]
          /\ linked' = {o \in linked : on[o] # h}
    BY <1>10 DEF DeleteCandidate
  <2>2. /\ UNCHANGED <<on, contested, abandoned>>
        /\ \A o \in Session : pc'[o] = pc[o] \/ (o = s /\ pc'[o] = "idle" /\ pc[o] = "purge")
    BY <1>10 DEF DeleteCandidate
  <2>3. ContestNoted'
    BY <2>2 DEF ContestNoted
  <2>4. LoneWriter'
    BY <2>1, <2>2 DEF LoneWriter, Handoff
  <2>5. TornHasWriter'
    BY <2>1, <2>2 DEF TornHasWriter, Unparsable
  <2> QED
    BY <2>3, <2>4, <2>5
<1>11. CASE Crash(s)
  BY <1>11 DEF Crash, Ends, ContestNoted, LoneWriter, TornHasWriter, Handoff
<1> QED
  BY <1>1, <1>2, <1>3, <1>4, <1>5, <1>6, <1>7, <1>8, <1>9, <1>10, <1>11 DEF Action

-----------------------------------------------------------------------------
\* What the invariant needs to be inductive.
LEMMA NextIInv == IInv /\ [Next]_vars => IInv'
<1> SUFFICES ASSUME IInv, [Next]_vars PROVE IInv'
  OBVIOUS
<1>1. CASE UNCHANGED vars
  BY <1>1 DEF IInv, BaseInv, TypeOK, Numbered, InHand, QueuedInv, StagerAlone, Staging,
              EmptiedBeforeWrite, NeverQueuedAgain, Announced, StartedIsRunning, TornInv,
              ContestNoted, LoneWriter, TornHasWriter, vars
<1>2. ASSUME NEW s \in Session, Action(s) PROVE IInv'
  <2>1. BaseInv'
    BY <1>2, NextBase DEF IInv
  <2> QED
    BY <1>2, <2>1, NextQueued, NextStarted, NextTorn DEF IInv
<1> QED
  BY <1>1, <1>2 DEF Next, Action, Tool, Command, Write, Purge

\* The invariant holds throughout.
LEMMA Invariant == Spec => []IInv
BY InitIInv, NextIInv, PTL DEF Spec

\* The variables keep their types.
THEOREM TypeCorrect == Spec => []TypeOK
<1>1. IInv => TypeOK
  BY DEF IInv, BaseInv
<1> QED
  BY <1>1, Invariant, PTL

\* A handoff that has left the queue never comes back to it.
THEOREM QueuedOnce == Spec => []NeverQueuedAgain
<1>1. IInv => NeverQueuedAgain
  BY DEF IInv, QueuedInv
<1> QED
  BY <1>1, Invariant, PTL

\* A handoff that says "started" has a session behind it, or one that died.
THEOREM StartedRuns == Spec => []StartedIsRunning
<1>1. IInv => StartedIsRunning
  BY DEF IInv
<1> QED
  BY <1>1, Invariant, PTL

\* A file is left unparsable only by two calls on one handoff or by a death.
THEOREM TornExplained == Spec => []TornOnlyByTwoOrDeath
<1>1. IInv => TornOnlyByTwoOrDeath
  BY DEF IInv, TornInv, TornHasWriter, TornOnlyByTwoOrDeath
<1> QED
  BY <1>1, Invariant, PTL

\* The command without a path takes the latest handoff.
THEOREM LatestTaken == Spec => LatestIsLatest
<1> DEFINE Right == \A s \in Session : pc[s] = "scan" /\ pc'[s] = "open" =>
                      \A h \in known[s] : disk[h] = "queued" => h <= on'[s]
<1>1. IInv /\ [Next]_vars => [Right]_vars
  <2> SUFFICES ASSUME IInv, Next, NEW s \in Session, pc[s] = "scan", pc'[s] = "open",
                      NEW h \in known[s], disk[h] = "queued"
               PROVE  h <= on'[s]
    OBVIOUS
  <2> USE DEF IInv, BaseInv, TypeOK
  <2>1. PICK o \in Session : Action(o)
    BY DEF Next, Action, Tool, Command, Write, Purge
  <2>2. o = s /\ Choose(s)
    BY <2>1 DEF Action, Stage, RunByPath, RunLatest, ReadNext, Choose, NewSession, Open, Fill,
                Collect, DeleteCandidate, Crash, Calls, Takes, Ends
  <2>3. PICK g \in Latest(found[s]) : Takes(s, g, FirstMark(mode[g]))
    BY <2>2 DEF Choose, Ends
  <2>4. h \in found[s]
    BY <2>2 DEF QueuedInv, Announced, Choose
  <2> QED
    BY <2>3, <2>4 DEF Latest, Takes
<1> QED
  BY <1>1, Invariant, PTL DEF Spec, LatestIsLatest

\* The purge spares the queued handoffs that were announced before it looked.
THEOREM AnnouncedSpared == Spec => PurgeSparesAnnounced
<1> DEFINE Right == \A h \in Handoff : disk[h] = "queued" /\ disk'[h] = "absent" =>
                      \E s \in Session : pc[s] = "purge" /\ h \in todo[s] \ known[s]
<1>1. IInv /\ [Next]_vars => [Right]_vars
  <2> SUFFICES ASSUME IInv, Next, NEW h \in Handoff, disk[h] = "queued", disk'[h] = "absent"
               PROVE  \E s \in Session : pc[s] = "purge" /\ h \in todo[s] \ known[s]
    OBVIOUS
  <2> USE DEF IInv, BaseInv, TypeOK
  <2>1. PICK o \in Session : Action(o)
    BY DEF Next, Action, Tool, Command, Write, Purge
  <2>2. ~Fill(o) /\ ~Open(o)
    BY WrittenType DEF Fill, Open, Opened, Status
  <2>3. DeleteCandidate(o)
    BY <2>1, <2>2 DEF Action, Stage, RunByPath, RunLatest, ReadNext, Choose, NewSession,
                      Collect, Crash, history
  <2>4. pc[o] = "purge" /\ h \in todo[o]
    BY <2>3 DEF DeleteCandidate
  <2>5. h \notin known[o]
    BY <2>4 DEF QueuedInv, Announced
  <2> QED
    BY <2>4, <2>5
<1> QED
  BY <1>1, Invariant, PTL DEF Spec, PurgeSparesAnnounced
=============================================================================
