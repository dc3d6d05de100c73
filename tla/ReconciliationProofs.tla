------------------------ MODULE ReconciliationProofs ------------------------
(***************************************************************************)
(* For any number of handlers, inputs, files and bounds of Reconciliation: *)
(*  - the purge removes only what its restore ledger names;                *)
(*  - once every call has returned, the stored graph is what a rebuild     *)
(*    would make now, unless something outside the handlers came between;  *)
(*  - a report passes an implementation build only if that build and a     *)
(*    plan it consumes could be read and were accepted;                    *)
(*  - accepted and applied builds that are hot are routed, and what the    *)
(*    purge may take routes nothing;                                       *)
(*  - the state tool, the agency, the status panel, its pages and the      *)
(*    control room agree on the work, whenever the graph is current.       *)
(* The first two expand nothing of the graph: View is a function of the    *)
(* files and of what git lists as changed.  The others rest on lemmas      *)
(* about the graph and the lens of any workspace, and on what the files    *)
(* can hold.                                                               *)
(***************************************************************************)
EXTENDS Reconciliation, FiniteSetTheorems, SequenceTheorems, WellFoundedInduction, TLAPS

\* A call that has something to write.
Writing(c) == c = [phase |-> "open", kind |-> c.kind, path |-> c.path, data |-> c.data]

\* A purge that has something to delete, and a ledger for it.
Purging(phase) ==
    gc.name \in LedgerNames /\ gc = [phase |-> phase, todo |-> gc.todo, name |-> gc.name]

\* One call per handler, and the purge in one of its phases.
Shape ==
    /\ call = [h \in Handlers |-> call[h]]
    /\ \A h \in Handlers : call[h].phase = "open" => Writing(call[h])
    /\ \/ gc = Idle
       \/ Purging("open") \/ Purging("ledger") \/ Purging("delete")

\* There is a ledger, or none, for every name.
Ledgers ==
    /\ ledger = [n \in LedgerNames |-> ledger[n]]
    /\ purged = [n \in LedgerNames |-> purged[n]]

\* What is being deleted is in the purge's ledger before the first deletion, and
\* until it is opened again nothing has been removed under a name that its ledger
\* lacks.
DeletesLogged ==
    /\ gc.phase = "ledger" => purged[gc.name] = {}
    /\ gc.phase = "delete" => gc.todo \subseteq ledger[gc.name]

\* A torn file has a writer that is about to fill it.
TornOwned ==
    ~behind => \A p \in torn : \E h \in Handlers : call[h].phase = "fill" /\ call[h].path = p

\* What the command line is about to store has not been overtaken.
StoreFresh ==
    ~behind /\ cli.phase = "store" => torn = {} /\ cli.view = View(W)

\* When nobody is on the way to a rebuild, none is needed.
Repaired ==
    /\ ~behind
    /\ gc.phase # "delete" /\ cli.phase \notin {"ops", "store"}
    /\ \A h \in Handlers : call[h].phase \notin {"fill", "rebuild"}
    => torn = {} /\ stored = View(W)

LedgerInv == Shape /\ Ledgers /\ DeletesLogged /\ LedgerCovers
GraphInv == Shape /\ TornOwned /\ StoreFresh /\ Repaired

\* What a tool call does when it begins: its own entry was nobody's, and
\* nothing else has changed.
Begins ==
    /\ call' = [h \in Handlers |-> call'[h]]
    /\ \A h \in Handlers :
         \/ call'[h] = call[h]
         \/ call[h] = Idle /\ (Writing(call'[h]) \/ call'[h] = [phase |-> "rebuild"])
    /\ UNCHANGED <<files, torn, dirty, behind, outside, others>>

-----------------------------------------------------------------------------
\* The view depends on nothing but the files and the changes git lists.
LEMMA ViewStays ==
    ASSUME UNCHANGED <<files, dirty>>
    PROVE  View(W)' = View(W)
BY DEF W, Seen

\* Each of the six calls starts alike: one idle handler gets its record, or goes
\* straight to a rebuild, and nothing else changes.
LEMMA CallsBegin ==
    ASSUME Shape, NEW h \in Handlers,
           \/ WriteBuild(h) \/ WriteReport(h) \/ MoveTask(h)
           \/ CloseTask(h) \/ ArchiveTask(h) \/ Consult(h)
    PROVE  Begins
<1>1. ASSUME NEW kind, NEW path, NEW data, Begin(h, kind, path, data)
      PROVE  Begins
  BY <1>1 DEF Begin, Begins, Shape, Writing
<1>2. CASE WriteBuild(h)
  BY <1>1, <1>2 DEF WriteBuild
<1>3. CASE WriteReport(h)
  BY <1>1, <1>3 DEF WriteReport
<1>4. CASE MoveTask(h)
  BY <1>1, <1>4 DEF MoveTask, TaskCall
<1>5. CASE CloseTask(h)
  BY <1>1, <1>5 DEF CloseTask, TaskCall
<1>6. CASE ArchiveTask(h)
  BY <1>1, <1>6 DEF ArchiveTask, TaskCall
<1>7. CASE Consult(h)
  BY <1>7 DEF Consult, Begins, Shape
<1> QED
  BY <1>2, <1>3, <1>4, <1>5, <1>6, <1>7

\* A call goes from open to fill with its record, and from there to a rebuild.
LEMMA FillsOrEnds ==
    ASSUME Shape, NEW h \in Handlers
    PROVE  /\ Truncate(h) => /\ call'[h].phase = "fill" /\ call'[h].path = call[h].path
                             /\ \A g \in Handlers \ {h} : call'[g] = call[g]
           /\ Fill(h) \/ Rebuild(h) => /\ call'[h].phase \in {"idle", "rebuild"}
                                      /\ \A g \in Handlers \ {h} : call'[g] = call[g]
<1>1. ASSUME Truncate(h)
      PROVE  /\ call'[h].phase = "fill" /\ call'[h].path = call[h].path
             /\ \A g \in Handlers \ {h} : call'[g] = call[g]
  <2>1. Writing(call[h])
    BY <1>1 DEF Truncate, Shape
  <2>2. call'[h] = [call[h] EXCEPT !.phase = "fill"]
    BY <1>1 DEF Truncate, Shape
  <2>3. \A g \in Handlers \ {h} : call'[g] = call[g]
    BY <1>1 DEF Truncate, Shape
  <2>4. call'[h] = [phase |-> "fill", kind |-> call[h].kind, path |-> call[h].path, data |-> call[h].data]
    BY <2>1, <2>2 DEF Writing
  <2> QED
    BY <2>3, <2>4
<1>2. Fill(h) \/ Rebuild(h) => /\ call'[h].phase \in {"idle", "rebuild"}
                              /\ \A g \in Handlers \ {h} : call'[g] = call[g]
  BY DEF Fill, Rebuild, Shape, Idle
<1> QED
  BY <1>1, <1>2

\* What each phase carries holds at the start and is kept by every step.
LEMMA ShapeInit == Init => Shape
BY DEF Init, Shape, Idle

\* Every step keeps it, whichever process makes it.
LEMMA ShapeStep == Shape /\ [Next]_vars => Shape'
<1> SUFFICES ASSUME Shape, [Next]_vars PROVE Shape'
  OBVIOUS
<1>1. CASE Begins
  BY <1>1 DEF Begins, Shape, Purging, Writing, others
<1>2. ASSUME NEW h \in Handlers, Truncate(h) \/ Fill(h) \/ Rebuild(h) PROVE Shape'
  <2>1. call' = [g \in Handlers |-> call'[g]] /\ gc' = gc
    BY <1>2 DEF Truncate, Fill, Rebuild, Shape, others
  <2>2. \A g \in Handlers : call'[g] = call[g] \/ call'[g].phase # "open"
    BY <1>2, FillsOrEnds DEF Shape
  <2> QED
    BY <2>1, <2>2 DEF Shape, Purging, Writing
<1>3. CASE PurgeStart
  <2>1. Purging("open")'
    BY <1>3 DEF PurgeStart, Purging
  <2> QED
    BY <1>3, <2>1 DEF PurgeStart, Shape, Writing
<1>4. CASE PurgeOpen \/ PurgeLedger
  <2>1. Purging("ledger")' \/ Purging("delete")'
    BY <1>4 DEF PurgeOpen, PurgeLedger, Shape, Idle, Purging
  <2> QED
    BY <1>4, <2>1 DEF PurgeOpen, PurgeLedger, Shape, Writing
<1>5. CASE PurgeDelete
  <2>1. gc' = [gc EXCEPT !.todo = gc'.todo] /\ Purging("delete")
    BY <1>5 DEF PurgeDelete, Shape, Idle, Purging
  <2>2. Purging("delete")'
    BY <2>1 DEF Purging
  <2>3. /\ call' = [h \in Handlers |-> call'[h]]
        /\ \A h \in Handlers : call'[h] = call[h] \/ call'[h].phase = "rebuild"
    BY <1>5 DEF PurgeDelete
  <2> QED
    BY <2>2, <2>3 DEF Shape, Writing
<1>6. CASE PurgeEnd
  BY <1>6 DEF PurgeEnd, Shape, Writing
<1>7. CASE ApplyOp \/ FailOp \/ CliRead \/ CliStore
  BY <1>7 DEF ApplyOp, FailOp, CliRead, CliStore, Shape, Purging, Writing
<1>8. CASE Edit \/ Commit \/ Crash
  BY <1>8 DEF Edit, Commit, Crash, Shape, Purging, Writing, Idle, others
<1>9. CASE UNCHANGED vars
  BY <1>9 DEF vars, Shape, Purging, Writing
<1> QED
  BY <1>1, <1>2, <1>3, <1>4, <1>5, <1>6, <1>7, <1>8, <1>9, CallsBegin DEF Next

-----------------------------------------------------------------------------
(* The restore ledger *)

\* What is still to be deleted is in the ledger, so what has been is too.
LEMMA LedgerStep == LedgerInv /\ [Next]_vars => LedgerInv'
<1> SUFFICES ASSUME LedgerInv, [Next]_vars PROVE Ledgers' /\ DeletesLogged' /\ LedgerCovers'
  BY ShapeStep DEF LedgerInv
<1> USE DEF LedgerInv
<1>1. CASE UNCHANGED <<gc, ledger, purged>>
  BY <1>1 DEF Ledgers, DeletesLogged, LedgerCovers
<1>2. CASE PurgeStart
  BY <1>2 DEF PurgeStart, Ledgers, DeletesLogged, LedgerCovers
<1>3. CASE PurgeOpen
  <2>1. Purging("open") /\ gc' = [phase |-> "ledger", todo |-> gc.todo, name |-> gc.name]
    BY <1>3 DEF PurgeOpen, Shape, Purging, Idle
  <2>2. /\ ledger' = [ledger EXCEPT ![gc.name] = {}]
        /\ purged' = [purged EXCEPT ![gc.name] = {}]
    BY <1>3 DEF PurgeOpen
  <2> QED
    BY <2>1, <2>2 DEF Purging, Ledgers, DeletesLogged, LedgerCovers
<1>4. CASE PurgeLedger
  <2>1. Purging("ledger") /\ gc' = [phase |-> "delete", todo |-> gc.todo, name |-> gc.name]
    BY <1>4 DEF PurgeLedger, Shape, Purging, Idle
  <2>2. ledger' = [ledger EXCEPT ![gc.name] = gc.todo] /\ purged' = purged
    BY <1>4 DEF PurgeLedger
  <2> QED
    BY <2>1, <2>2 DEF Purging, Ledgers, DeletesLogged, LedgerCovers
<1>5. CASE PurgeDelete
  <2>1. PICK p \in gc.todo :
          /\ gc' = [gc EXCEPT !.todo = @ \ {p}]
          /\ purged' = [purged EXCEPT ![gc.name] = @ \cup ({p} \cap (Evidence \cup torn))]
    BY <1>5 DEF PurgeDelete
  <2>2. Purging("delete") /\ gc.todo \subseteq ledger[gc.name] /\ ledger' = ledger
    BY <1>5 DEF PurgeDelete, DeletesLogged, Shape, Purging, Idle
  <2>3. gc' = [phase |-> "delete", todo |-> gc.todo \ {p}, name |-> gc.name]
    BY <2>1, <2>2 DEF Purging
  <2>4. DeletesLogged'
    BY <2>2, <2>3 DEF Purging, DeletesLogged
  <2>5. Ledgers'
    BY <2>1, <2>2 DEF Ledgers
  <2>6. ASSUME NEW n \in LedgerNames PROVE purged'[n] \subseteq ledger'[n]
    BY <2>1, <2>2, <2>6 DEF Ledgers, LedgerCovers
  <2>7. LedgerCovers'
    BY <2>6 DEF LedgerCovers
  <2> QED
    BY <2>4, <2>5, <2>7
<1>6. CASE PurgeEnd \/ Crash
  BY <1>6 DEF PurgeEnd, Crash, Idle, Ledgers, DeletesLogged, LedgerCovers
<1>7. ASSUME NEW h \in Handlers, Truncate(h) \/ Fill(h) \/ Rebuild(h)
      PROVE  UNCHANGED <<gc, ledger, purged>>
  BY <1>7 DEF Truncate, Fill, Rebuild, others
<1>8. CASE ApplyOp \/ FailOp \/ CliRead \/ CliStore
  BY <1>1, <1>8 DEF ApplyOp, FailOp, CliRead, CliStore
<1>9. CASE Edit \/ Commit \/ Begins \/ UNCHANGED vars
  BY <1>1, <1>9 DEF Edit, Commit, Begins, others, vars
<1> QED
  BY <1>1, <1>2, <1>3, <1>4, <1>5, <1>6, <1>7, <1>8, <1>9, CallsBegin DEF Next

\* Whatever a purge has removed by the time anything may stop it, its own restore
\* ledger on disk names it, until another purge replaces that ledger
\* (runCodewikiGc, writeRestoreLedger).
THEOREM PurgeIsLogged == Spec => []LedgerCovers
<1>1. Init => LedgerInv
  BY ShapeInit DEF Init, LedgerInv, Ledgers, DeletesLogged, LedgerCovers, Idle
<1> QED
  BY <1>1, LedgerStep, PTL DEF Spec, LedgerInv

-----------------------------------------------------------------------------
(* The stored graph *)

\* The graph a session starts with was rebuilt from the files it finds.
LEMMA GraphInit == Init => GraphInv
BY ShapeInit DEF Init, Idle, GraphInv, TornOwned, StoreFresh, Repaired

\* A file that does not parse has a handler that is about to fill it.
LEMMA TornOwnedStep ==
    ASSUME GraphInv, [Next]_vars
    PROVE  TornOwned'
<1> USE DEF GraphInv
<1>1. CASE Begins
  BY <1>1 DEF Begins, TornOwned, Writing, Idle, others
<1>2. ASSUME NEW h \in Handlers, Truncate(h) PROVE TornOwned'
  <2>1. /\ call'[h].phase = "fill" /\ call'[h].path = call[h].path
        /\ \A g \in Handlers \ {h} : call'[g] = call[g]
    BY <1>2, FillsOrEnds
  <2>2. call[h].phase = "open" /\ torn' = torn \cup {call[h].path} /\ (~behind' => ~behind)
    BY <1>2 DEF Truncate, Outdate
  <2> QED
    BY <2>1, <2>2 DEF TornOwned
<1>3. ASSUME NEW h \in Handlers, Fill(h) PROVE TornOwned'
  BY <1>3 DEF Fill, Outdate, TornOwned, Shape
<1>4. ASSUME NEW h \in Handlers, Rebuild(h) PROVE TornOwned'
  BY <1>4 DEF Rebuild, Rebuilt, TornOwned, Shape
<1>5. CASE PurgeStart \/ PurgeOpen \/ PurgeLedger
  BY <1>5 DEF PurgeStart, PurgeOpen, PurgeLedger, TornOwned
<1>6. CASE PurgeDelete
  <2> SUFFICES ASSUME ~behind', NEW q \in torn'
               PROVE  \E h \in Handlers : call'[h].phase = "fill" /\ call'[h].path = q
    BY DEF TornOwned
  <2>1. PICK p \in gc.todo :
          /\ torn' = torn \ {p}
          /\ call' = [h \in Handlers |->
                       IF call[h].phase = "fill" /\ call[h].path = p
                       THEN [phase |-> "rebuild"] ELSE call[h]]
          /\ Outdate
    BY <1>6 DEF PurgeDelete
  <2>2. PICK h \in Handlers : call[h].phase = "fill" /\ call[h].path = q
    BY <2>1 DEF Outdate, TornOwned
  <2>3. call'[h] = call[h]
    BY <2>1, <2>2
  <2> QED
    BY <2>2, <2>3
<1>7. CASE PurgeEnd
  BY <1>7 DEF PurgeEnd, Rebuilt, TornOwned
<1>8. CASE ApplyOp \/ FailOp \/ CliRead \/ CliStore
  BY <1>8 DEF ApplyOp, FailOp, CliRead, CliStore, TornOwned
<1>9. CASE Edit \/ Commit \/ Crash
  BY <1>9 DEF Edit, Commit, Crash, TornOwned
<1>10. CASE UNCHANGED vars
  BY <1>10 DEF vars, TornOwned
<1> QED
  BY <1>1, <1>2, <1>3, <1>4, <1>5, <1>6, <1>7, <1>8, <1>9, <1>10, CallsBegin DEF Next

\* What the command line is about to store is still what the files say.
LEMMA StoreFreshStep ==
    ASSUME GraphInv, [Next]_vars
    PROVE  StoreFresh'
<1> USE DEF GraphInv
<1>1. CASE Begins \/ UNCHANGED vars
  BY <1>1, ViewStays DEF Begins, StoreFresh, others, vars
<1>2. ASSUME NEW h \in Handlers, Truncate(h) \/ Fill(h) PROVE StoreFresh'
  BY <1>2 DEF Truncate, Fill, Outdate, StoreFresh, others
<1>3. ASSUME NEW h \in Handlers, Rebuild(h) PROVE StoreFresh'
  BY <1>3, ViewStays DEF Rebuild, Rebuilt, StoreFresh
<1>4. CASE PurgeStart \/ PurgeOpen \/ PurgeLedger
  BY <1>4, ViewStays DEF PurgeStart, PurgeOpen, PurgeLedger, StoreFresh
<1>5. CASE PurgeDelete
  BY <1>5 DEF PurgeDelete, Outdate, StoreFresh
<1>6. CASE PurgeEnd
  BY <1>6, ViewStays DEF PurgeEnd, Rebuilt, StoreFresh
<1>7. CASE CliRead
  BY <1>7, ViewStays DEF CliRead, StoreFresh, Idle
<1>8. CASE ApplyOp \/ FailOp \/ CliStore
  BY <1>8 DEF ApplyOp, FailOp, CliStore, StoreFresh, Idle
<1>9. CASE Edit \/ Commit \/ Crash
  BY <1>9 DEF Edit, Commit, Crash, StoreFresh
<1> QED
  BY <1>1, <1>2, <1>3, <1>4, <1>5, <1>6, <1>7, <1>8, <1>9, CallsBegin DEF Next, GraphInv

\* When the stored graph is older than the files, somebody will rebuild it.
LEMMA RepairedStep ==
    ASSUME GraphInv, [Next]_vars
    PROVE  Repaired'
<1> USE DEF GraphInv
<1>1. CASE Begins \/ UNCHANGED vars
  <2>1. \A h \in Handlers : call[h].phase \in {"fill", "rebuild"} => call'[h] = call[h]
    BY <1>1 DEF Begins, Idle, vars
  <2>2. UNCHANGED <<files, torn, dirty, behind, stored, gc, cli>>
    BY <1>1 DEF Begins, others, vars
  <2> QED
    BY <2>1, <2>2, ViewStays DEF Repaired
<1>2. ASSUME NEW h \in Handlers, Truncate(h) PROVE Repaired'
  <2>1. call'[h].phase = "fill"
    BY <1>2, FillsOrEnds
  <2> QED
    BY <2>1 DEF Repaired
<1>10. ASSUME NEW h \in Handlers, Fill(h) PROVE Repaired'
  BY <1>10 DEF Fill, Repaired, Shape
<1>3. ASSUME NEW h \in Handlers, Rebuild(h) PROVE Repaired'
  BY <1>3, ViewStays DEF Rebuild, Rebuilt, Repaired, TornOwned, Shape
<1>4. CASE PurgeStart \/ PurgeOpen
  BY <1>4, ViewStays DEF PurgeStart, PurgeOpen, Repaired, Idle
<1>5. CASE PurgeLedger \/ PurgeDelete
  BY <1>5 DEF PurgeLedger, PurgeDelete, Repaired, Shape, Purging, Idle
<1>6. CASE PurgeEnd
  BY <1>6, ViewStays DEF PurgeEnd, Rebuilt, Repaired, TornOwned
<1>7. CASE ApplyOp \/ FailOp \/ CliRead
  BY <1>7 DEF ApplyOp, FailOp, CliRead, Repaired
<1>8. CASE CliStore
  BY <1>8, ViewStays DEF CliStore, Repaired, StoreFresh
<1>9. CASE Edit \/ Commit \/ Crash
  BY <1>9 DEF Edit, Commit, Crash, Repaired
<1> QED
  BY <1>1, <1>2, <1>3, <1>4, <1>5, <1>6, <1>7, <1>8, <1>9, <1>10, CallsBegin DEF Next

\* When every call has returned and nothing came between, the graph is what a
\* rebuild would now make of the files and of git's list, whatever the handlers and the other process did to one another
\* (runRebuild and runRebuildUnlocked behind every writer).
THEOREM GraphIsCurrent == Spec => []GraphCurrent
<1>1. GraphInv /\ [Next]_vars => GraphInv'
  BY ShapeStep, TornOwnedStep, StoreFreshStep, RepairedStep DEF GraphInv
<1>2. GraphInv => GraphCurrent
  BY DEF GraphInv, GraphCurrent, Quiet, Repaired, Idle
<1> QED
  BY GraphInit, <1>1, <1>2, PTL DEF Spec

-----------------------------------------------------------------------------
(* A report that passes an implementation build *)

\* Nothing but WriteReport puts the record of a report into an idle handler.
LEMMA ReportsBegin ==
    ASSUME Shape, [Next]_vars, NEW h \in Handlers,
           call[h] = Idle, call'[h].phase = "open", call'[h].kind = "reports"
    PROVE  WriteReport(h)
<1>1. ASSUME NEW g \in Handlers, g # h,
             \/ WriteBuild(g) \/ WriteReport(g) \/ MoveTask(g) \/ CloseTask(g)
             \/ ArchiveTask(g) \/ Consult(g) \/ Truncate(g) \/ Fill(g) \/ Rebuild(g)
      PROVE  call'[h] = Idle
  <2>1. ASSUME NEW kind, NEW path, NEW data, Begin(g, kind, path, data)
        PROVE  call'[h] = Idle
    BY <1>1, <2>1 DEF Begin, Shape
  <2>2. CASE WriteBuild(g) \/ WriteReport(g)
    BY <2>1, <2>2 DEF WriteBuild, WriteReport
  <2>3. CASE MoveTask(g) \/ CloseTask(g) \/ ArchiveTask(g)
    BY <2>1, <2>3 DEF MoveTask, CloseTask, ArchiveTask, TaskCall
  <2>4. CASE Consult(g)
    BY <1>1, <2>4 DEF Consult, Shape
  <2>5. CASE Truncate(g) \/ Fill(g) \/ Rebuild(g)
    BY <1>1, <2>5, FillsOrEnds
  <2> QED
    BY <1>1, <2>2, <2>3, <2>4, <2>5
<1>2. ~(WriteBuild(h) \/ MoveTask(h) \/ CloseTask(h) \/ ArchiveTask(h))
  <2>1. ASSUME NEW kind, NEW path, NEW data, Begin(h, kind, path, data)
        PROVE  kind = "reports"
    BY <2>1 DEF Begin, Shape
  <2> QED
    BY <2>1 DEF WriteBuild, MoveTask, CloseTask, ArchiveTask, TaskCall
<1>3. ~(Consult(h) \/ Truncate(h) \/ Fill(h) \/ Rebuild(h))
  BY DEF Consult, Truncate, Fill, Rebuild, Shape, Idle
<1>4. ~(PurgeStart \/ PurgeOpen \/ PurgeLedger \/ PurgeEnd \/ ApplyOp \/ FailOp \/ CliRead \/ CliStore)
  BY DEF PurgeStart, PurgeOpen, PurgeLedger, PurgeEnd, ApplyOp, FailOp, CliRead, CliStore, Idle
<1>5. ~PurgeDelete
  <2>1. PurgeDelete => call'[h] = call[h] \/ call'[h].phase = "rebuild"
    BY DEF PurgeDelete
  <2> QED
    BY <2>1 DEF Idle
<1>6. ~(Edit \/ Commit \/ Crash \/ UNCHANGED vars)
  BY DEF Edit, Commit, Crash, Idle, vars
<1> QED
  BY <1>1, <1>2, <1>3, <1>4, <1>5, <1>6 DEF Next, Idle

\* References without a gap: there is one, and each can be read and is accepted.
LEMMA AcceptedRefs ==
    ASSUME NEW w, NEW refs, AcceptedRefGaps(w, refs) = {}
    PROVE  /\ refs # {}
           /\ \A p \in refs : p \in DOMAIN w.builds /\ w.builds[p].state \in AcceptedStates
BY DEF AcceptedRefGaps, Readable

\* What a report that passes an implementation build has been through.
LEMMA PassedImplementation ==
    ASSUME NEW w, NEW in \in ReportInputs, in.profile = "implementation",
           NewReport(w, in).verdict = "pass"
    PROVE  /\ IsolationStatus(in) = "isolated"
           /\ \E p \in in.source \cap DOMAIN w.builds :
                /\ w.builds[p].kind = "implementation_build"
                /\ w.builds[p].state \in AcceptedStates
                /\ \E q \in w.builds[p].planning \cap DOMAIN w.builds :
                     w.builds[q].state \in AcceptedStates
<1>1. in.verdict = "pass" /\ PolicyGaps(w, in) = {}
  BY DEF NewReport, ReportVerdict
<1>2. IsolationGaps(in) = {} /\ ReadinessGaps(w, in) = {} /\ TraceabilityGaps(w, in) = {}
  BY <1>1 DEF PolicyGaps
<1>3. IsolationStatus(in) = "isolated"
  BY <1>2, ReportFields DEF IsolationGaps, IsolationStatus, ImmutableProfiles
<1>4. in.source # {} /\ Readable(w, SourceOf(in))
  BY <1>1, <1>2 DEF ReadinessGaps
<1> DEFINE p == SourceOf(in)
           b == w.builds[p]
<1>5. b.kind = "implementation_build" /\ AcceptedRefGaps(w, b.planning) = {}
  BY <1>1, <1>2, <1>4 DEF ReadinessGaps
<1>6. b.state \in AcceptedStates
  BY <1>1, <1>2, <1>4 DEF TraceabilityGaps, TracedProfiles
<1>7. p \in in.source \cap DOMAIN w.builds
  BY <1>4 DEF SourceOf, Readable
<1>8. PICK q \in b.planning : q \in DOMAIN w.builds /\ w.builds[q].state \in AcceptedStates
  BY <1>5, AcceptedRefs
<1> QED
  BY <1>3, <1>5, <1>6, <1>7, <1>8

\* The builds a report is computed from are those that parse.
LEMMA ParsedBuilds ==
    /\ DOMAIN ParsedW.builds = DOMAIN files.builds \ torn
    /\ \A p \in DOMAIN files.builds \ torn : ParsedW.builds[p] = files.builds[p]
BY DEF ParsedW, W

\* No report passes an implementation build unless, when it was computed, that
\* build and a plan it consumes could be read and were accepted, and the graph
\* takes it for isolated (validationIsolationGaps, validationCommitReadinessGaps
\* and validationSemanticTraceability against the isolation summary of graph.ts).
THEOREM PassingIsTraceable == Spec => PassIsTraceable
<1>1. ASSUME Shape, [Next]_vars, NEW h \in Handlers,
             call[h] = Idle, call'[h].phase = "open", call'[h].kind = "reports",
             call'[h].data.verdict = "pass", call'[h].data.profile = "implementation"
      PROVE  /\ call'[h].data.isolation = "isolated"
             /\ \E p \in call'[h].data.source \cap (DOMAIN files.builds \ torn) :
                  /\ files.builds[p].kind = "implementation_build"
                  /\ files.builds[p].state \in AcceptedStates
                  /\ \E q \in files.builds[p].planning \cap (DOMAIN files.builds \ torn) :
                       files.builds[q].state \in AcceptedStates
  <2>1. PICK in \in ReportInputs :
          Begin(h, "reports", ReportPath(NewReport(ParsedW, in)), NewReport(ParsedW, in))
    BY <1>1, ReportsBegin DEF WriteReport
  <2>2. call'[h].data = NewReport(ParsedW, in)
    BY <2>1, <1>1 DEF Begin, Shape
  <2>3. /\ in.profile = "implementation" /\ in.source = call'[h].data.source
        /\ IsolationStatus(in) = call'[h].data.isolation
    BY <1>1, <2>2 DEF NewReport
  <2>4. NewReport(ParsedW, in).verdict = "pass"
    BY <1>1, <2>2
  <2> HIDE <2>2
  <2>5. /\ IsolationStatus(in) = "isolated"
        /\ \E p \in in.source \cap DOMAIN ParsedW.builds :
             /\ ParsedW.builds[p].kind = "implementation_build"
             /\ ParsedW.builds[p].state \in AcceptedStates
             /\ \E q \in ParsedW.builds[p].planning \cap DOMAIN ParsedW.builds :
                  ParsedW.builds[q].state \in AcceptedStates
    BY <2>3, <2>4, PassedImplementation
  <2> QED
    BY <2>3, <2>5, ParsedBuilds
<1>2. Shape /\ [Next]_vars =>
        [\A h \in Handlers :
           LET c == call'[h] IN
           /\ call[h] = Idle /\ c.phase = "open" /\ c.kind = "reports"
           /\ c.data.verdict = "pass" /\ c.data.profile = "implementation"
           => /\ c.data.isolation = "isolated"
              /\ \E p \in c.data.source \cap (DOMAIN files.builds \ torn) :
                   /\ files.builds[p].kind = "implementation_build"
                   /\ files.builds[p].state \in AcceptedStates
                   /\ \E q \in files.builds[p].planning \cap (DOMAIN files.builds \ torn) :
                        files.builds[q].state \in AcceptedStates]_vars
  BY <1>1
<1> QED
  BY ShapeInit, ShapeStep, <1>2, PTL DEF Spec, PassIsTraceable

-----------------------------------------------------------------------------
(* What is pending, and what the files become *)

\* A call that has yet to write what it holds.
Pends(c) == c.phase \in {"open", "fill"}

\* Every file there is to hold, whatever is written to it.
FilesHeld == DOMAIN files = {"builds", "reports", "tasks", "archived", "sprints", "docs", "lint"}

\* The ids of tasks, each of which is of one list.
Ids == Range(TaskIds)

\* Tasks with an id of the list and a status.
TasksKnown(tasks) ==
    /\ DOMAIN tasks \subseteq Ids
    /\ \A t \in DOMAIN tasks : "status" \in DOMAIN tasks[t] /\ tasks[t].status \in Statuses

\* What a call writes of the tasks is as well known as what it has read.
KeepsTasks(data) == FilesHeld /\ TasksKnown(files.tasks) => TasksKnown(data.tasks)

\* A task that moves keeps its id and gets a status.
LEMMA MovedTasks ==
    ASSUME NEW t \in DOMAIN files.tasks, NEW s \in Statuses
    PROVE  KeepsTasks([files EXCEPT !.tasks[t].status = s])
<1> SUFFICES ASSUME FilesHeld, TasksKnown(files.tasks)
             PROVE  TasksKnown([files EXCEPT !.tasks[t].status = s].tasks)
  BY DEF KeepsTasks
<1> DEFINE new == [files.tasks EXCEPT ![t] = [files.tasks[t] EXCEPT !.status = s]]
<1>1. [files EXCEPT !.tasks[t].status = s].tasks = new
  BY DEF FilesHeld
<1>2. DOMAIN new = DOMAIN files.tasks
  OBVIOUS
<1>3. ASSUME NEW u \in DOMAIN new
      PROVE  "status" \in DOMAIN new[u] /\ new[u].status \in Statuses
  BY DEF TasksKnown
<1> QED
  BY <1>1, <1>2, <1>3 DEF TasksKnown

\* A task that is archived leaves the others as they are.
LEMMA ArchivedTasks ==
    ASSUME NEW t
    PROVE  KeepsTasks([files EXCEPT !.archived = @ \cup {t},
                                    !.tasks = [u \in DOMAIN @ \ {t} |-> @[u]]])
BY DEF KeepsTasks, TasksKnown, FilesHeld

\* Every task update that begins writes tasks as well known as it found them.
LEMMA TaskCallsBegin ==
    ASSUME NEW g \in Handlers, MoveTask(g) \/ CloseTask(g) \/ ArchiveTask(g)
    PROVE  \E data : KeepsTasks(data) /\ Begin(g, "tasks", Queue, data)
<1>1. {"in_progress", "blocked", "done"} \subseteq Statuses
  BY DEF Statuses, OpenStatuses
<1>2. ASSUME NEW t \in DOMAIN files.tasks, NEW s \in Statuses,
             Begin(g, "tasks", Queue, [files EXCEPT !.tasks[t].status = s])
      PROVE  \E data : KeepsTasks(data) /\ Begin(g, "tasks", Queue, data)
  <2> DEFINE data == [files EXCEPT !.tasks[t].status = s]
  <2>1. KeepsTasks(data) /\ Begin(g, "tasks", Queue, data)
    BY <1>2, MovedTasks
  <2> HIDE DEF data
  <2> QED
    BY <2>1
<1>4. CASE MoveTask(g)
  BY <1>1, <1>2, <1>4 DEF MoveTask, TaskCall
<1>5. CASE CloseTask(g)
  BY <1>1, <1>2, <1>5 DEF CloseTask, TaskCall
<1>6. CASE ArchiveTask(g)
  <2>1. PICK t \in DOMAIN files.tasks :
          Begin(g, "tasks", Queue, [files EXCEPT !.archived = @ \cup {t},
                                                 !.tasks = [u \in DOMAIN @ \ {t} |-> @[u]]])
    BY <1>6, Zenon DEF ArchiveTask, TaskCall
  <2> DEFINE data == [files EXCEPT !.archived = @ \cup {t},
                                   !.tasks = [u \in DOMAIN @ \ {t} |-> @[u]]]
  <2>2. Begin(g, "tasks", Queue, data)
    BY <2>1, Zenon
  <2>3. KeepsTasks(data)
    BY ArchivedTasks, Zenon
  <2> HIDE DEF data
  <2> QED
    BY <2>2, <2>3
<1> QED
  BY <1>4, <1>5, <1>6

\* The record a handler is about to write was there before the step, or is that
\* of a call that begins with it.
LEMMA PendingComesFrom ==
    ASSUME Shape, [Next]_vars, NEW h \in Handlers, Pends(call'[h])
    PROVE  \/ /\ Pends(call[h])
              /\ call'[h].kind = call[h].kind
              /\ call'[h].path = call[h].path
              /\ call'[h].data = call[h].data
           \/ \E in \in BuildInputs :
                /\ call'[h].kind = "builds"
                /\ call'[h].path = in.path
                /\ call'[h].data = NewBuild(W, in)
           \/ \E in \in ReportInputs :
                /\ call'[h].kind = "reports"
                /\ call'[h].path = ReportPath(NewReport(ParsedW, in))
           \/ call'[h].kind = "tasks" /\ call'[h].path = Queue /\ KeepsTasks(call'[h].data)
<1> DEFINE Stays == /\ Pends(call[h])
                    /\ call'[h].kind = call[h].kind
                    /\ call'[h].path = call[h].path
                    /\ call'[h].data = call[h].data
           Starts(kind, path, data) ==
             call'[h].kind = kind /\ call'[h].path = path /\ call'[h].data = data
<1>1. ASSUME call'[h] = call[h] PROVE Stays
  BY <1>1 DEF Pends
<1>2. ASSUME NEW g \in Handlers, NEW kind, NEW path, NEW data, Begin(g, kind, path, data)
      PROVE  Stays \/ Starts(kind, path, data)
  <2>1. CASE g = h
    BY <1>2, <2>1 DEF Begin, Shape
  <2>2. CASE g # h
    BY <1>1, <1>2, <2>2 DEF Begin, Shape
  <2> QED
    BY <2>1, <2>2
<1>3. ASSUME NEW g \in Handlers, WriteBuild(g)
      PROVE  Stays \/ \E in \in BuildInputs : Starts("builds", in.path, NewBuild(W, in))
  BY <1>2, <1>3 DEF WriteBuild
<1>4. ASSUME NEW g \in Handlers, WriteReport(g)
      PROVE  Stays \/ \E in \in ReportInputs :
                        Starts("reports", ReportPath(NewReport(ParsedW, in)), NewReport(ParsedW, in))
  BY <1>2, <1>4 DEF WriteReport
<1>5. ASSUME NEW g \in Handlers, MoveTask(g) \/ CloseTask(g) \/ ArchiveTask(g)
      PROVE  Stays \/ \E data : KeepsTasks(data) /\ Starts("tasks", Queue, data)
  <2>1. PICK data : KeepsTasks(data) /\ Begin(g, "tasks", Queue, data)
    BY <1>5, TaskCallsBegin
  <2>2. Stays \/ Starts("tasks", Queue, data)
    BY <1>2, <2>1
  <2> HIDE DEF Stays, Starts
  <2> QED
    BY <2>1, <2>2
<1>6. ASSUME NEW g \in Handlers, Consult(g) PROVE Stays
  BY <1>1, <1>6 DEF Consult, Shape, Pends
<1>7. ASSUME NEW g \in Handlers, Fill(g) \/ Rebuild(g) PROVE Stays
  BY <1>1, <1>7, FillsOrEnds DEF Pends
<1>8. ASSUME NEW g \in Handlers, Truncate(g) PROVE Stays
  <2>1. CASE g # h
    BY <1>1, <1>8, <2>1, FillsOrEnds
  <2>2. CASE g = h
    <3>1. Writing(call[h]) /\ call[h].phase = "open"
      BY <1>8, <2>2 DEF Truncate, Shape
    <3>2. call'[h] = [call[h] EXCEPT !.phase = "fill"]
      BY <1>8, <2>2 DEF Truncate, Shape
    <3> QED
      BY <3>1, <3>2 DEF Writing, Pends
  <2> QED
    BY <2>1, <2>2
<1>9. ASSUME PurgeStart \/ PurgeOpen \/ PurgeLedger \/ PurgeEnd \/ ApplyOp \/ FailOp \/ CliRead \/ CliStore
      PROVE  Stays
  BY <1>1, <1>9 DEF PurgeStart, PurgeOpen, PurgeLedger, PurgeEnd, ApplyOp, FailOp, CliRead, CliStore
<1>10. ASSUME PurgeDelete PROVE Stays
  <2>1. call'[h] = call[h] \/ call'[h].phase = "rebuild"
    BY <1>10 DEF PurgeDelete
  <2> QED
    BY <1>1, <2>1 DEF Pends
<1>11. ASSUME Edit \/ Commit \/ UNCHANGED vars PROVE Stays
  BY <1>1, <1>11 DEF Edit, Commit, vars
<1>12. ASSUME Crash PROVE Stays
  BY <1>12 DEF Crash, Idle, Pends
<1> HIDE DEF Stays
<1>13. \/ Stays
       \/ \E in \in BuildInputs : Starts("builds", in.path, NewBuild(W, in))
       \/ \E in \in ReportInputs :
            Starts("reports", ReportPath(NewReport(ParsedW, in)), NewReport(ParsedW, in))
       \/ \E data : KeepsTasks(data) /\ Starts("tasks", Queue, data)
  BY <1>3, <1>4, <1>5, <1>6, <1>7, <1>8, <1>9, <1>10, <1>11, <1>12 DEF Next
<1> QED
  BY <1>13 DEF Stays

\* The files are what they were, or a record has landed in them, or the purge
\* has taken something out.
LEMMA FilesComeFrom ==
    ASSUME [Next]_vars
    PROVE  \/ files' = files
           \/ \E h \in Handlers : call[h].phase = "fill" /\ files' = Landed(call[h])
           \/ \E p : files' = [files EXCEPT !.builds = Without(@, p), !.reports = Without(@, p)]
<1>1. ASSUME NEW h \in Handlers, Truncate(h) \/ Rebuild(h) PROVE files' = files
  BY <1>1 DEF Truncate, Rebuild
<1>2. ASSUME NEW h \in Handlers,
             \/ WriteBuild(h) \/ WriteReport(h) \/ MoveTask(h)
             \/ CloseTask(h) \/ ArchiveTask(h) \/ Consult(h)
      PROVE  files' = files
  BY <1>2 DEF WriteBuild, WriteReport, MoveTask, CloseTask, ArchiveTask, TaskCall, Begin, Consult
<1>3. ASSUME NEW h \in Handlers, Fill(h)
      PROVE  call[h].phase = "fill" /\ files' = Landed(call[h])
  BY <1>3 DEF Fill
<1>4. CASE PurgeStart \/ PurgeOpen \/ PurgeLedger \/ PurgeEnd \/ ApplyOp \/ FailOp \/ CliRead \/ CliStore
  BY <1>4 DEF PurgeStart, PurgeOpen, PurgeLedger, PurgeEnd, ApplyOp, FailOp, CliRead, CliStore
<1>5. CASE PurgeDelete
  BY <1>5 DEF PurgeDelete
<1>6. CASE Edit \/ Commit \/ Crash \/ UNCHANGED vars
  BY <1>6 DEF Edit, Commit, Crash, vars
<1> QED
  BY <1>1, <1>2, <1>3, <1>4, <1>5, <1>6 DEF Next

-----------------------------------------------------------------------------
(* Hot builds are routed *)

\* Every build, on disk or on its way there, is of one of the four loops.
BuildsKnown ==
    /\ \A p \in DOMAIN files.builds : files.builds[p].kind \in Range(KindOf)
    /\ \A h \in Handlers :
         Pends(call[h]) /\ call[h].kind = "builds" => call[h].data.kind \in Range(KindOf)

\* What the routing of hot builds rests on.
KindInv == Shape /\ FilesHeld /\ BuildsKnown

\* Each of the four inputs makes a build of its own kind.
LEMMA NewBuildKind ==
    ASSUME NEW w, NEW in \in BuildInputs
    PROVE  NewBuild(w, in).kind \in Range(KindOf)
<1>1. CASE in.kind = "feedback"
  BY <1>1 DEF NewBuild, FeedbackBuild, BlankBuild, KindOf, Range
<1>2. CASE in.kind = "documentation"
  BY <1>2 DEF NewBuild, DocumentationBuild, BlankBuild, KindOf, Range
<1>3. CASE in.kind = "planning"
  BY <1>3 DEF NewBuild, PlanningBuild, BlankBuild, KindOf, Range
<1>4. CASE in.kind = "implementation"
  BY <1>4 DEF NewBuild, ImplementationBuild, BlankBuild, KindOf, Range
<1> QED
  BY <1>1, <1>2, <1>3, <1>4, BuildFields DEF KindOf

\* The seeds have no other kind.
LEMMA KindInit == Init => KindInv
BY ShapeInit, SeedFiles DEF Init, KindInv, FilesHeld, BuildsKnown, Pends, Idle

\* No step brings a build of a fifth kind, whatever a handler held while other
\* handlers, the purge and the user went on.
LEMMA KindStep == KindInv /\ [Next]_vars => KindInv'
<1> SUFFICES ASSUME KindInv, [Next]_vars PROVE FilesHeld' /\ BuildsKnown'
  BY ShapeStep DEF KindInv
<1> USE DEF KindInv
<1>1. ASSUME NEW h \in Handlers, Pends(call'[h]), call'[h].kind = "builds"
      PROVE  call'[h].data.kind \in Range(KindOf)
  <2>1. CASE Pends(call[h]) /\ call'[h].kind = call[h].kind /\ call'[h].data = call[h].data
    BY <1>1, <2>1 DEF BuildsKnown
  <2>2. CASE \E in \in BuildInputs : call'[h].data = NewBuild(W, in)
    BY <2>2, NewBuildKind
  <2> QED
    BY <1>1, <2>1, <2>2, PendingComesFrom
<1>2. FilesHeld' /\ \A p \in DOMAIN files'.builds : files'.builds[p].kind \in Range(KindOf)
  <2>1. CASE files' = files
    BY <2>1 DEF FilesHeld, BuildsKnown
  <2>2. ASSUME NEW h \in Handlers, call[h].phase = "fill", files' = Landed(call[h])
        PROVE  FilesHeld' /\ \A p \in DOMAIN files'.builds : files'.builds[p].kind \in Range(KindOf)
    <3>1. CASE call[h].kind = "builds"
      <4>1. call[h].data.kind \in Range(KindOf)
        BY <2>2, <3>1 DEF BuildsKnown, Pends
      <4>2. files' = [files EXCEPT !.builds = Put(files.builds, call[h].path, call[h].data)]
        BY <2>2, <3>1 DEF Landed
      <4>3. FilesHeld' /\ files'.builds = Put(files.builds, call[h].path, call[h].data)
        BY <4>2 DEF FilesHeld
      <4> QED
        BY <4>1, <4>3 DEF Put, BuildsKnown
    <3>2. CASE call[h].kind # "builds"
      <4>1. FilesHeld' /\ files'.builds = files.builds
        BY <2>2, <3>2 DEF Landed, FilesHeld
      <4> QED
        BY <4>1 DEF BuildsKnown
    <3> QED
      BY <3>1, <3>2
  <2>3. ASSUME NEW p, files' = [files EXCEPT !.builds = Without(@, p), !.reports = Without(@, p)]
        PROVE  FilesHeld' /\ \A q \in DOMAIN files'.builds : files'.builds[q].kind \in Range(KindOf)
    <3>1. FilesHeld' /\ files'.builds = Without(files.builds, p)
      BY <2>3 DEF FilesHeld
    <3> QED
      BY <3>1 DEF Without, BuildsKnown
  <2> QED
    BY <2>1, <2>2, <2>3, FilesComeFrom
<1> QED
  BY <1>1, <1>2 DEF BuildsKnown

\* A build of one of the four kinds that is hot, and accepted or applied, is what
\* some reconciliation item is about.
LEMMA HotHasItem ==
    ASSUME NEW w, NEW p \in HotBuilds(w), w.builds[p].kind \in Range(KindOf),
           w.builds[p].state \in {"accepted", "applied"}
    PROVE  p \in {i.about : i \in Items(w)}
<1> DEFINE b == w.builds[p]
<1>1. p \in DOMAIN w.builds /\ Routable(w, p) /\ ~Validated(w, p) /\ ~Consumed(w, p)
  BY DEF HotBuilds
<1>2. b.kind \in {"feedback_build", "documentation_build", "planning_build", "implementation_build"}
  BY DEF Range, KindOf
<1>3. ASSUME BuildLoop(w, p) # "observe" PROVE p \in {i.about : i \in Items(w)}
  <2> DEFINE i == Item("build", p, BuildLoop(w, p), "drift", BuildLayers(w, p))
  <2>1. i \in Items(w)
    BY <1>1, <1>3 DEF BuildItems, Items
  <2>2. i.about = p
    BY DEF Item
  <2> QED
    BY <2>1, <2>2
<1>4. CASE b.state = "accepted"
  <2>1. BuildLoop(w, p) # "observe"
    BY <1>1, <1>2, <1>4 DEF BuildLoop
  <2> QED
    BY <1>3, <2>1
<1>5. CASE b.state = "applied" /\ b.kind # "feedback_build"
  <2>1. BuildLoop(w, p) # "observe"
    BY <1>1, <1>2, <1>5 DEF BuildLoop
  <2> QED
    BY <1>3, <2>1
<1>6. CASE b.kind = "feedback_build"
  <2>1. DocumentationOf(w, p) = {} /\ Traced(w, p)
    BY <1>1, <1>6 DEF Consumed, Traced
  <2>2. "documentation_build" \in TraceGaps(w, p)
    BY <2>1 DEF TraceGaps
  <2>3. p \in {q \in OfKind(w, "feedback_build") : Traced(w, q) /\ TraceGaps(w, q) # {}}
    BY <1>1, <1>6, <2>1, <2>2 DEF OfKind
  <2>4. TraceItem(p, TraceGaps(w, p)) \in TraceItems(w)
    BY <2>3 DEF TraceItems
  <2>5. PICK i \in TraceItems(w) : i.about = p
    BY <2>4 DEF TraceItem, Item
  <2> QED
    BY <2>5 DEF Items
<1> QED
  BY <1>2, <1>4, <1>5, <1>6

\* The class a build is filed under and the items that route work are two
\* derivations, and no accepted or applied build is hot to the one and unknown
\* to the other (buildArtifactClass and buildReconciliationItems).
THEOREM HotWorkIsRouted == Spec => []HotIsRouted
<1>1. KindInv => HotIsRouted
  <2> SUFFICES ASSUME KindInv, NEW p \in HotBuilds(W), files.builds[p].state \in {"accepted", "applied"}
               PROVE  p \in {i.about : i \in Items(W)}
    BY DEF HotIsRouted
  <2>1. W.builds = files.builds
    BY DEF W
  <2>2. p \in DOMAIN W.builds
    BY DEF HotBuilds
  <2> QED
    BY <2>1, <2>2, HotHasItem DEF KindInv, BuildsKnown
<1> QED
  BY KindInit, KindStep, <1>1, PTL DEF Spec

-----------------------------------------------------------------------------
(* Types *)

\* What is on its way is on its way to a file that a call may write.
PendingPaths == \A h \in Handlers : Pends(call[h]) => call[h].path \in Paths

\* What the other process is about to store names a loop too.
CliShape ==
    \/ cli = Idle
    \/ cli = [phase |-> "ops", done |-> cli.done]
    \/ cli = [phase |-> "store", view |-> cli.view] /\ cli.view.loop \in Range(Loops)

\* The parts of the type invariant: files, git, loops, and the rest.
PathInv == Shape /\ PendingPaths /\ torn \subseteq Paths
GitInv  == Sources \subseteq tracked /\ dirty \subseteq tracked
LoopInv == CliShape /\ stored.loop \in Range(Loops)
RestInv ==
    /\ \A h \in Handlers : call[h].phase \in {"idle", "open", "fill", "rebuild"}
    /\ calls \in 0 .. MaxCalls /\ outside \in 0 .. MaxOutside
    /\ behind \in BOOLEAN

\* All that the types rest on.
TypeInv == KindInv /\ PathInv /\ GitInv /\ LoopInv /\ RestInv

\* The least of some numbers.
LEMMA LeastIsThere ==
    ASSUME NEW S, S \subseteq Nat, S # {}
    PROVE  Min(S) \in S /\ \A y \in S : Min(S) =< y
<1>1. PICK x \in S : \A y \in S : ~ (<<y, x>> \in OpToRel(<, Nat))
  BY WFMin, NatLessThanWellFounded
<1>2. \A y \in S : ~ (<<y, x>> \in OpToRel(<, Nat)) => x =< y
  BY DEF OpToRel
<1>3. \E z \in S : \A y \in S : z =< y
  BY <1>1, <1>2
<1> QED
  BY <1>3 DEF Min

\* A rebuild always names one of the six loops.
LEMMA NextLoopIsALoop == ASSUME NEW w PROVE NextLoop(w) \in Range(Loops)
<1> DEFINE needed == {it.loop : it \in Items(w)}
           S == {i \in 1 .. Len(Loops) : Loops[i] \in needed}
<1>1. Len(Loops) = 6 /\ DOMAIN Loops = 1 .. 6
  BY DEF Loops
<1>2. NextLoop(w) = IF (IF S # {} THEN Min(S) ELSE 0) = 0 THEN "observe"
                    ELSE Loops[IF S # {} THEN Min(S) ELSE 0]
  BY DEF NextLoop, SelectInSeq
<1>3. "observe" \in Range(Loops)
  <2>1. Loops[6] = "observe"
    BY DEF Loops
  <2> QED
    BY <1>1, <2>1 DEF Range
<1>4. S # {} => Min(S) \in 1 .. 6
  <2>1. S \subseteq 1 .. 6 /\ S \subseteq Nat
    BY <1>1
  <2> HIDE DEF S
  <2> QED
    BY <2>1, LeastIsThere
<1> HIDE DEF S
<1>5. S # {} => Loops[Min(S)] \in Range(Loops) /\ Min(S) # 0
  BY <1>1, <1>4 DEF Range
<1> QED
  BY <1>2, <1>3, <1>5

\* A report lands under the verdict its author gave, or as a block.
LEMMA ReportPaths ==
    ASSUME NEW w, NEW in \in ReportInputs
    PROVE  ReportPath(NewReport(w, in)) \in Paths
<1> DEFINE v == ReportVerdict(w, in)
<1>1. v \in {"pass", "fail", "block"}
  BY ReportFields DEF ReportVerdict
<1> HIDE DEF v
<1>2. ReportPath(NewReport(w, in))
        = ReportPath([profile |-> in.profile, verdict |-> v, task |-> in.task])
  BY DEF NewReport, ReportPath, v
<1> QED
  BY <1>1, <1>2 DEF Paths

\* A session starts with nothing torn, changed or under way.
LEMMA TypeInit == Init => TypeInv
<1> SUFFICES ASSUME Init PROVE TypeInv
  OBVIOUS
<1>1. KindInv /\ PathInv
  BY KindInit DEF Init, KindInv, PathInv, PendingPaths, Pends, Idle
<1>2. GitInv
  BY DEF Init, GitInv
<1>3. LoopInv
  BY NextLoopIsALoop DEF Init, LoopInv, CliShape, View
<1>4. RestInv
  <2>1. calls \in 0 .. MaxCalls /\ outside \in 0 .. MaxOutside
    BY Bounds DEF Init
  <2>2. behind = FALSE /\ \A h \in Handlers : call[h].phase = "idle"
    BY DEF Init, Idle
  <2> QED
    BY <2>1, <2>2 DEF RestInv
<1> QED
  BY <1>1, <1>2, <1>3, <1>4 DEF TypeInv

\* Only a file that a call may write is ever torn.
LEMMA PathStep == PathInv /\ [Next]_vars => PathInv'
<1> SUFFICES ASSUME PathInv, [Next]_vars PROVE PendingPaths' /\ torn' \subseteq Paths
  BY ShapeStep DEF PathInv, Paths, ReportPath, Queue
<1> USE DEF PathInv
<1>1. PendingPaths'
  <2> SUFFICES ASSUME NEW h \in Handlers, Pends(call'[h]) PROVE call'[h].path \in Paths
    BY DEF PendingPaths, Pends, Paths, ReportPath, Queue
  <2>1. CASE Pends(call[h]) /\ call'[h].path = call[h].path
    BY <2>1 DEF PendingPaths
  <2>2. Queue \in Paths /\ \A in \in BuildInputs : in.path \in Paths
    BY DEF Paths
  <2>3. CASE \E in \in ReportInputs : call'[h].path = ReportPath(NewReport(ParsedW, in))
    BY <2>3, ReportPaths
  <2> QED
    BY <2>1, <2>2, <2>3, PendingComesFrom
<1>2. torn' \subseteq torn \/ \E h \in Handlers : Pends(call[h]) /\ torn' = torn \cup {call[h].path}
  <2>1. ASSUME NEW h \in Handlers, Truncate(h)
        PROVE  Pends(call[h]) /\ torn' = torn \cup {call[h].path}
    BY <2>1 DEF Truncate, Pends
  <2>2. ASSUME NEW h \in Handlers, Fill(h) \/ Rebuild(h) PROVE torn' \subseteq torn
    BY <2>2 DEF Fill, Rebuild
  <2>3. CASE Begins \/ UNCHANGED vars
    BY <2>3 DEF Begins, vars
  <2>4. CASE PurgeStart \/ PurgeOpen \/ PurgeLedger \/ PurgeEnd \/ ApplyOp \/ FailOp \/ CliRead \/ CliStore
    BY <2>4 DEF PurgeStart, PurgeOpen, PurgeLedger, PurgeEnd, ApplyOp, FailOp, CliRead, CliStore
  <2>5. CASE PurgeDelete \/ Edit \/ Commit \/ Crash
    BY <2>5 DEF PurgeDelete, Edit, Commit, Crash
  <2> QED
    BY <2>1, <2>2, <2>3, <2>4, <2>5, CallsBegin DEF Next
<1>3. torn' \subseteq Paths
  BY <1>2 DEF PendingPaths
<1> QED
  BY <1>1, <1>3

\* git lists as changed only what HEAD has.
LEMMA GitStep == Shape /\ GitInv /\ [Next]_vars => GitInv'
<1> SUFFICES ASSUME Shape, GitInv, [Next]_vars PROVE GitInv'
  OBVIOUS
<1>1. CASE Begins \/ UNCHANGED vars
  BY <1>1 DEF Begins, others, vars, GitInv
<1>2. ASSUME NEW h \in Handlers, Truncate(h) \/ Fill(h) \/ Rebuild(h) PROVE GitInv'
  BY <1>2 DEF Truncate, Fill, Rebuild, Touch, others, GitInv
<1>3. CASE PurgeStart \/ PurgeOpen \/ PurgeLedger \/ PurgeEnd
  BY <1>3 DEF PurgeStart, PurgeOpen, PurgeLedger, PurgeEnd, GitInv
<1>4. CASE PurgeDelete
  BY <1>4 DEF PurgeDelete, Touch, GitInv
<1>5. CASE ApplyOp
  BY <1>5 DEF ApplyOp, Touch, GitInv
<1>6. CASE FailOp \/ CliRead \/ CliStore
  BY <1>6 DEF FailOp, CliRead, CliStore, GitInv
<1>7. CASE Edit \/ Commit \/ Crash
  BY <1>7 DEF Edit, Commit, Crash, others, GitInv
<1> QED
  BY <1>1, <1>2, <1>3, <1>4, <1>5, <1>6, <1>7, CallsBegin DEF Next

\* Whoever stores the graph, what others read of it names a loop.
LEMMA LoopStep == Shape /\ LoopInv /\ [Next]_vars => LoopInv'
<1> SUFFICES ASSUME Shape, LoopInv, [Next]_vars PROVE LoopInv'
  OBVIOUS
<1>1. View(W).loop \in Range(Loops)
  BY NextLoopIsALoop DEF View
<1>2. CASE UNCHANGED <<stored, cli>>
  BY <1>2 DEF LoopInv, CliShape
<1>3. CASE Rebuilt /\ UNCHANGED cli
  BY <1>1, <1>3 DEF Rebuilt, LoopInv, CliShape
<1>4. ASSUME NEW h \in Handlers, Truncate(h) \/ Fill(h) PROVE LoopInv'
  BY <1>2, <1>4 DEF Truncate, Fill, others
<1>5. ASSUME NEW h \in Handlers, Rebuild(h) PROVE LoopInv'
  BY <1>3, <1>5 DEF Rebuild
<1>6. CASE PurgeStart \/ PurgeOpen \/ PurgeLedger \/ PurgeDelete \/ PurgeEnd
  BY <1>2, <1>3, <1>6 DEF PurgeStart, PurgeOpen, PurgeLedger, PurgeDelete, PurgeEnd
<1>7. CASE ApplyOp
  <2>1. cli' = [phase |-> "ops", done |-> cli'.done] /\ stored' = stored
    BY <1>7 DEF ApplyOp
  <2> QED
    BY <2>1 DEF LoopInv, CliShape
<1>8. CASE FailOp
  BY <1>8 DEF FailOp, LoopInv, CliShape
<1>9. CASE CliRead
  BY <1>1, <1>9 DEF CliRead, LoopInv, CliShape
<1>10. CASE CliStore
  BY <1>10 DEF CliStore, LoopInv, CliShape, Idle
<1>11. CASE Begins \/ Edit \/ Commit \/ Crash \/ UNCHANGED vars
  BY <1>2, <1>11 DEF Begins, Edit, Commit, Crash, others, vars
<1> QED
  BY <1>4, <1>5, <1>6, <1>7, <1>8, <1>9, <1>10, <1>11, CallsBegin DEF Next

\* Phases and counters stay within their bounds.
LEMMA RestStep == Shape /\ RestInv /\ [Next]_vars => RestInv'
<1> SUFFICES ASSUME Shape, RestInv, [Next]_vars PROVE RestInv'
  OBVIOUS
<1>1. \A h \in Handlers : call'[h].phase \in {"idle", "open", "fill", "rebuild"}
  <2> SUFFICES ASSUME NEW h \in Handlers PROVE call'[h].phase \in {"idle", "open", "fill", "rebuild"}
    OBVIOUS
  <2>1. CASE call'[h] = call[h]
    BY <2>1 DEF RestInv
  <2>2. CASE Begins
    BY <2>1, <2>2 DEF Begins, Writing
  <2>3. ASSUME NEW g \in Handlers, Truncate(g) \/ Fill(g) \/ Rebuild(g)
        PROVE  call'[h].phase \in {"idle", "open", "fill", "rebuild"}
    BY <2>1, <2>3, FillsOrEnds
  <2>4. CASE PurgeStart \/ PurgeOpen \/ PurgeLedger \/ PurgeEnd \/ ApplyOp \/ FailOp \/ CliRead \/ CliStore
    BY <2>1, <2>4 DEF PurgeStart, PurgeOpen, PurgeLedger, PurgeEnd, ApplyOp, FailOp, CliRead, CliStore
  <2>5. CASE PurgeDelete
    <3>1. call'[h] = call[h] \/ call'[h].phase = "rebuild"
      BY <2>5 DEF PurgeDelete
    <3> QED
      BY <2>1, <3>1
  <2>6. CASE Edit \/ Commit \/ UNCHANGED vars
    BY <2>1, <2>6 DEF Edit, Commit, vars
  <2>7. CASE Crash
    BY <2>7 DEF Crash, Idle
  <2> QED
    BY <2>2, <2>3, <2>4, <2>5, <2>6, <2>7, CallsBegin DEF Next
<1> DEFINE Counted == calls < MaxCalls /\ calls' = calls + 1
<1>2. calls' = calls \/ Counted
  <2>1. ASSUME NEW h \in Handlers,
               \/ WriteBuild(h) \/ WriteReport(h) \/ MoveTask(h)
               \/ CloseTask(h) \/ ArchiveTask(h) \/ Consult(h)
        PROVE  Counted
    BY <2>1 DEF WriteBuild, WriteReport, MoveTask, CloseTask, ArchiveTask, TaskCall, Begin, Consult
  <2>2. ASSUME NEW h \in Handlers, Truncate(h) \/ Fill(h) \/ Rebuild(h) PROVE calls' = calls
    BY <2>2 DEF Truncate, Fill, Rebuild
  <2>3. ASSUME PurgeStart \/ PurgeOpen \/ PurgeLedger \/ PurgeDelete \/ PurgeEnd PROVE calls' = calls
    BY <2>3 DEF PurgeStart, PurgeOpen, PurgeLedger, PurgeDelete, PurgeEnd
  <2>4. ASSUME ApplyOp \/ FailOp \/ CliRead \/ CliStore PROVE calls' = calls
    BY <2>4 DEF ApplyOp, FailOp, CliRead, CliStore
  <2>5. ASSUME Edit \/ Commit \/ Crash \/ UNCHANGED vars PROVE calls' = calls
    BY <2>5 DEF Edit, Commit, Crash, vars
  <2> HIDE DEF Counted
  <2> QED
    BY <2>1, <2>2, <2>3, <2>4, <2>5 DEF Next
<1>3. outside' = outside \/ Happens
  <2>1. ASSUME NEW h \in Handlers, Truncate(h) \/ Fill(h) \/ Rebuild(h) PROVE outside' = outside
    BY <2>1 DEF Truncate, Fill, Rebuild
  <2>2. CASE Begins
    BY <2>2 DEF Begins
  <2>3. CASE PurgeStart \/ PurgeOpen \/ PurgeLedger \/ PurgeDelete \/ PurgeEnd
    BY <2>3 DEF PurgeStart, PurgeOpen, PurgeLedger, PurgeDelete, PurgeEnd
  <2>4. CASE ApplyOp \/ FailOp \/ CliRead \/ CliStore
    BY <2>4 DEF ApplyOp, FailOp, CliRead, CliStore
  <2>5. CASE Edit \/ Commit \/ Crash \/ UNCHANGED vars
    BY <2>5 DEF Edit, Commit, Crash, vars
  <2> QED
    BY <2>1, <2>2, <2>3, <2>4, <2>5, CallsBegin DEF Next
<1>4. behind' \in BOOLEAN
  <2>1. CASE behind' = behind
    BY <2>1 DEF RestInv
  <2>2. ASSUME Outdate \/ Rebuilt PROVE behind' \in BOOLEAN
    BY <2>2, Zenon DEF Outdate, Rebuilt, RestInv
  <2>3. ASSUME NEW h \in Handlers, Truncate(h) \/ Fill(h) \/ Rebuild(h) PROVE behind' \in BOOLEAN
    <3>1. Outdate \/ Rebuilt \/ behind' = TRUE
      BY <2>3 DEF Truncate, Fill, Rebuild
    <3> QED
      BY <2>2, <3>1
  <2>4. CASE Begins \/ UNCHANGED vars
    BY <2>1, <2>4 DEF Begins, vars
  <2>5. CASE PurgeStart \/ PurgeOpen \/ PurgeLedger
    BY <2>1, <2>5 DEF PurgeStart, PurgeOpen, PurgeLedger
  <2>6. CASE PurgeDelete \/ PurgeEnd
    <3>1. Outdate \/ Rebuilt \/ behind' = TRUE
      BY <2>6 DEF PurgeDelete, PurgeEnd
    <3> QED
      BY <2>2, <3>1
  <2>7. CASE ApplyOp \/ CliStore
    BY <2>1, <2>7 DEF ApplyOp, CliStore
  <2>8. CASE FailOp \/ CliRead \/ Edit \/ Commit \/ Crash
    <3>1. behind' = TRUE \/ behind' = FALSE
      BY <2>8 DEF FailOp, CliRead, Edit, Commit, Crash
    <3> QED
      BY <3>1
  <2> QED
    BY <2>3, <2>4, <2>5, <2>6, <2>7, <2>8, CallsBegin DEF Next
<1>5. calls' \in 0 .. MaxCalls /\ outside' \in 0 .. MaxOutside
  BY <1>2, <1>3, Bounds DEF RestInv, Happens
<1> QED
  BY <1>1, <1>4, <1>5 DEF RestInv

\* Every file that fails to parse is one a tool call writes, git lists as changed
\* only what it tracks, and the stored graph names a loop, whichever process
\* stored it last.
THEOREM TypeCorrect == Spec => []TypeOK
<1>1. TypeInv /\ [Next]_vars => TypeInv'
  BY KindStep, PathStep, GitStep, LoopStep, RestStep DEF TypeInv, KindInv
<1>2. TypeInv => TypeOK
  <2> SUFFICES ASSUME TypeInv PROVE TypeOK
    OBVIOUS
  <2>1. gc.phase \in {"idle", "open", "ledger", "delete"} /\ cli.phase \in {"idle", "ops", "store"}
    BY DEF TypeInv, PathInv, LoopInv, Shape, Purging, CliShape, Idle
  <2>2. FilesHeld /\ torn \subseteq Paths /\ dirty \subseteq tracked /\ stored.loop \in Range(Loops)
    BY DEF TypeInv, KindInv, PathInv, GitInv, LoopInv
  <2>3. RestInv
    BY DEF TypeInv
  <2>4. behind \in BOOLEAN
    BY <2>3 DEF RestInv
  <2> QED
    BY <2>1, <2>2, <2>3, <2>4, Zenon DEF TypeOK, FilesHeld, RestInv
<1> QED
  BY TypeInit, <1>1, <1>2, PTL DEF Spec

-----------------------------------------------------------------------------
(* What routes work is kept from the purge *)

\* Builds and reports are where they belong, also those on their way there, and
\* none is of the state that nobody writes.
Placed ==
    /\ \A p \in DOMAIN files.builds : Under(p, "builds") /\ files.builds[p].state # "purged"
    /\ \A p \in DOMAIN files.reports : Under(p, "validation")
    /\ \A h \in Handlers : Pends(call[h]) =>
         \/ /\ call[h].kind = "builds"
            /\ Under(call[h].path, "builds") /\ call[h].data.state # "purged"
         \/ call[h].kind = "reports" /\ Under(call[h].path, "validation")
         \/ call[h].kind = "tasks"

\* git tracks paths that name something.
PathsTracked == \A p \in tracked : IsPath(p)

\* What the purge's forbearance rests on.
PlaceInv == KindInv /\ GitInv /\ Placed /\ PathsTracked

\* A build has the state its author asked for.
LEMMA NewBuildState ==
    ASSUME NEW w, NEW in \in BuildInputs
    PROVE  NewBuild(w, in).state = in.state
<1>1. CASE in.kind = "feedback"
  BY <1>1 DEF NewBuild, FeedbackBuild, BlankBuild
<1>2. CASE in.kind = "documentation"
  BY <1>2 DEF NewBuild, DocumentationBuild, BlankBuild
<1>3. CASE in.kind = "planning"
  BY <1>3 DEF NewBuild, PlanningBuild, BlankBuild
<1>4. CASE in.kind = "implementation"
  BY <1>4 DEF NewBuild, ImplementationBuild, BlankBuild
<1> QED
  BY <1>1, <1>2, <1>3, <1>4, BuildFields DEF KindOf

\* The seeds have every file in its place.
LEMMA PlaceInit == Init => PlaceInv
<1> SUFFICES ASSUME Init PROVE PlaceInv
  OBVIOUS
<1>1. KindInv
  BY KindInit
<1>2. GitInv
  BY DEF Init, GitInv
<1>3. Placed
  BY SeedFiles DEF Init, Placed, Pends, Idle
<1>4. PathsTracked
  <2>1. PICK s \in Seeds : tracked = Sources \cup {Queue} \cup s.committed
    BY DEF Init
  <2>2. \A p \in s.committed : IsPath(p)
    BY SeedFiles
  <2>3. IsPath(Queue)
    BY DEF IsPath, Queue
  <2> QED
    BY <2>1, <2>2, <2>3, SourcePaths DEF PathsTracked
<1> QED
  BY <1>1, <1>2, <1>3, <1>4 DEF PlaceInv

\* No step puts a file elsewhere.
LEMMA PlaceStep == PlaceInv /\ [Next]_vars => PlaceInv'
<1> SUFFICES ASSUME PlaceInv, [Next]_vars PROVE Placed' /\ PathsTracked'
  BY KindStep, GitStep DEF PlaceInv, KindInv
<1> USE DEF PlaceInv
<1>1. ASSUME NEW h \in Handlers, Pends(call'[h])
      PROVE  \/ /\ call'[h].kind = "builds"
                /\ Under(call'[h].path, "builds") /\ call'[h].data.state # "purged"
             \/ call'[h].kind = "reports" /\ Under(call'[h].path, "validation")
             \/ call'[h].kind = "tasks"
  <2>1. CASE /\ Pends(call[h])
             /\ call'[h].kind = call[h].kind
             /\ call'[h].path = call[h].path
             /\ call'[h].data = call[h].data
    BY <2>1 DEF Placed
  <2>2. ASSUME NEW in \in BuildInputs, call'[h].path = in.path, call'[h].data = NewBuild(W, in)
        PROVE  Under(call'[h].path, "builds") /\ call'[h].data.state # "purged"
    BY <2>2, NewBuildState, BuildFields
  <2>3. ASSUME NEW in, call'[h].path = ReportPath(NewReport(ParsedW, in))
        PROVE  Under(call'[h].path, "validation")
    BY <2>3 DEF ReportPath, Under
  <2> QED
    BY <1>1, <2>1, <2>2, <2>3, PendingComesFrom DEF KindInv
<1>2. /\ \A p \in DOMAIN files'.builds : Under(p, "builds") /\ files'.builds[p].state # "purged"
      /\ \A p \in DOMAIN files'.reports : Under(p, "validation")
  <2>1. CASE files' = files
    BY <2>1 DEF Placed
  <2>2. ASSUME NEW h \in Handlers, call[h].phase = "fill", files' = Landed(call[h])
        PROVE  /\ \A p \in DOMAIN files'.builds : Under(p, "builds") /\ files'.builds[p].state # "purged"
               /\ \A p \in DOMAIN files'.reports : Under(p, "validation")
    <3>1. Pends(call[h])
      BY <2>2 DEF Pends
    <3>2. CASE call[h].kind = "builds"
      <4>1. Under(call[h].path, "builds") /\ call[h].data.state # "purged"
        BY <3>1, <3>2 DEF Placed
      <4>2. /\ files'.builds = Put(files.builds, call[h].path, call[h].data)
            /\ files'.reports = files.reports
        BY <2>2, <3>2 DEF Landed, KindInv, FilesHeld
      <4> QED
        BY <4>1, <4>2 DEF Put, Placed
    <3>3. CASE call[h].kind = "reports"
      <4>1. Under(call[h].path, "validation")
        BY <3>1, <3>3 DEF Placed
      <4>2. /\ files'.reports = Put(files.reports, call[h].path, call[h].data)
            /\ files'.builds = files.builds
        BY <2>2, <3>3 DEF Landed, KindInv, FilesHeld
      <4> QED
        BY <4>1, <4>2 DEF Put, Placed
    <3>4. CASE call[h].kind = "tasks"
      <4>1. files'.reports = files.reports /\ files'.builds = files.builds
        BY <2>2, <3>4 DEF Landed, KindInv, FilesHeld
      <4> QED
        BY <4>1 DEF Placed
    <3> QED
      BY <3>1, <3>2, <3>3, <3>4 DEF Placed
  <2>3. ASSUME NEW q, files' = [files EXCEPT !.builds = Without(@, q), !.reports = Without(@, q)]
        PROVE  /\ \A p \in DOMAIN files'.builds : Under(p, "builds") /\ files'.builds[p].state # "purged"
               /\ \A p \in DOMAIN files'.reports : Under(p, "validation")
    <3>1. files'.builds = Without(files.builds, q) /\ files'.reports = Without(files.reports, q)
      BY <2>3 DEF KindInv, FilesHeld
    <3> QED
      BY <3>1 DEF Without, Placed
  <2> QED
    BY <2>1, <2>2, <2>3, FilesComeFrom
<1>3. PathsTracked'
  <2>1. tracked' = tracked \/ Commit
    <3>1. ASSUME NEW h \in Handlers, Truncate(h) \/ Fill(h) \/ Rebuild(h) PROVE tracked' = tracked
      BY <3>1 DEF Truncate, Fill, Rebuild, others
    <3>2. CASE Begins \/ UNCHANGED vars
      BY <3>2 DEF Begins, others, vars
    <3>3. CASE PurgeStart \/ PurgeOpen \/ PurgeLedger \/ PurgeDelete \/ PurgeEnd
      BY <3>3 DEF PurgeStart, PurgeOpen, PurgeLedger, PurgeDelete, PurgeEnd
    <3>4. CASE ApplyOp \/ FailOp \/ CliRead \/ CliStore
      BY <3>4 DEF ApplyOp, FailOp, CliRead, CliStore
    <3>5. CASE Edit \/ Crash
      BY <3>5 DEF Edit, Crash, others
    <3> QED
      BY <3>1, <3>2, <3>3, <3>4, <3>5, CallsBegin DEF Next, KindInv
  <2>2. CASE Commit
    <3>1. tracked' = Sources \cup {Queue} \cup Evidence
      BY <2>2 DEF Commit
    <3>2. IsPath(Queue) /\ \A p \in Evidence : IsPath(p)
      BY DEF IsPath, Queue, Evidence, Placed, Under
    <3> QED
      BY <3>1, <3>2, SourcePaths DEF PathsTracked, IsPath, Queue
  <2> QED
    BY <2>1, <2>2 DEF PathsTracked, IsPath
<1> QED
  BY <1>1, <1>2, <1>3 DEF Placed, Under, Pends

\* A prefix has the segments of the path it begins.
LEMMA PrefixSegments ==
    ASSUME NEW s, NEW t, Len(s) \in Nat, IsPrefix(s, t), NEW k \in 1 .. Len(s)
    PROVE  s[k] = t[k]
<1>1. ASSUME NEW u PROVE SubSeq(u, 1, Len(s))[k] = u[k]
  <2> DEFINE S == {u[i] : i \in 1 .. Len(s)}
  <2>1. \A i \in 1 .. Len(s) : u[i] \in S
    OBVIOUS
  <2> HIDE DEF S
  <2>2. \A i \in 1 .. Len(s) - 1 + 1 : SubSeq(u, 1, Len(s))[i] = u[1 + i - 1]
    BY <2>1, SubSeqProperties
  <2> QED
    BY <2>2
<1>2. SubSeq(s, 1, Len(s)) = SubSeq(t, 1, Len(s))
  BY DEF IsPrefix
<1> QED
  BY <1>1, <1>2

IsEvidence(p) == Under(p, "builds") \/ Under(p, "validation")

\* No build or report is source code or knowledge.
LEMMA EvidenceIsNoSource == ASSUME NEW p, IsEvidence(p) PROVE SemanticType(p) = "none"
<1>1. p[1] = ".codewiki" /\ p[2] \in {"builds", "validation"}
  BY DEF IsEvidence, Under
<1>2. ASSUME NEW root, Len(root) \in Nat \ {0}, root[1] # ".codewiki"
      PROVE  ~IsPrefix(root, p)
  BY <1>1, <1>2, PrefixSegments
<1>3. ASSUME NEW root, Len(root) \in Nat, Len(root) > 1, root[2] \in {"kb", "roadmap"}
      PROVE  ~IsPrefix(root, p)
  <2>1. 2 \in 1 .. Len(root)
    BY <1>3
  <2>2. IsPrefix(root, p) => root[2] = p[2]
    BY <1>3, <2>1, PrefixSegments
  <2> QED
    BY <1>1, <1>3, <2>2
<1>4. Len(SemanticRoots) = 14
  BY DEF SemanticRoots
<1>5. ASSUME NEW i \in 1 .. 3 PROVE ~IsPrefix(SemanticRoots[i].root, p)
  <2>1. Len(SemanticRoots[i].root) = 3 /\ SemanticRoots[i].root[2] = "kb"
    BY <1>5 DEF SemanticRoots
  <2> QED
    BY <1>3, <2>1
<1>6. ~IsPrefix(SemanticRoots[4].root, p)
  <2>1. Len(SemanticRoots[4].root) = 3 /\ SemanticRoots[4].root[2] = "roadmap"
    BY DEF SemanticRoots
  <2> QED
    BY <1>3, <2>1
<1>7. ASSUME NEW i \in 5 .. 14 PROVE ~IsPrefix(SemanticRoots[i].root, p)
  <2>1. Len(SemanticRoots[i].root) \in 1 .. 4 /\ SemanticRoots[i].root[1] # ".codewiki"
    BY <1>7 DEF SemanticRoots
  <2> QED
    BY <1>2, <2>1
<1> DEFINE S == {i \in 1 .. Len(SemanticRoots) : IsPrefix(SemanticRoots[i].root, p)}
<1>8. S = {}
  BY <1>4, <1>5, <1>6, <1>7
<1>9. SelectInSeq(SemanticRoots, LAMBDA r : IsPrefix(r.root, p)) = 0
  BY <1>8 DEF SelectInSeq
<1> QED
  BY <1>9 DEF SemanticType

\* A path git lists as changed in the sources says nothing of a build or report.
LEMMA EvidenceIsNotDirtySource ==
    ASSUME NEW w, \A d \in w.dirty : IsPath(d), NEW p, IsEvidence(p)
    PROVE  ~IsPathDirty(w, p)
<1> SUFFICES ASSUME NEW d \in w.dirty, ~IsPrefix(<<".codewiki">>, d), PathsOverlap(d, p)
             PROVE  FALSE
  BY DEF IsPathDirty, SourceDirty, IsData
<1>1. Len(d) \in Nat \ {0} /\ Len(p) \in Nat \ {0} /\ p[1] = ".codewiki"
  BY DEF IsPath, IsEvidence, Under
<1>2. d[1] = ".codewiki"
  BY <1>1, PrefixSegments DEF PathsOverlap
<1>3. SubSeq(<<".codewiki">>, 1, 1) = SubSeq(d, 1, 1)
  BY <1>2
<1> QED
  BY <1>1, <1>3 DEF IsPrefix

\* Whatever the files are, if builds and reports are in their places and none
\* has the state nobody writes, what the purge may take routes nothing.
LEMMA PurgeableIsQuiet ==
    ASSUME NEW w,
           \A p \in DOMAIN w.builds : Under(p, "builds") /\ w.builds[p].state # "purged",
           \A v \in DOMAIN w.reports : Under(v, "validation"),
           \A d \in w.dirty : IsPath(d),
           NEW p \in PurgeableBuilds(w) \cup PurgeableReports(w),
           NEW i \in Items(w), i.kind # "lint"
    PROVE  i.about # p
<1>1. IsEvidence(p) /\ Len(p) \in Nat \ {0, 1}
  BY DEF PurgeableBuilds, PurgeableReports, IsEvidence, Under
<1>2. p \in DOMAIN w.builds =>
        /\ w.builds[p].kind = "implementation_build"
        /\ HasDigests(w.builds[p])
        /\ Validated(w, p)
  <2> SUFFICES ASSUME p \in DOMAIN w.builds
               PROVE  /\ w.builds[p].kind = "implementation_build"
                      /\ HasDigests(w.builds[p])
                      /\ Validated(w, p)
    OBVIOUS
  <2>1. p \in PurgeableBuilds(w)
    BY DEF PurgeableReports, Under
  <2>2. ArchivePurgeable(w, p)
    BY <2>1 DEF PurgeableBuilds
  <2>3. w.builds[p].kind = "implementation_build" /\ HasLedger(w.builds[p])
    BY <2>2 DEF ArchivePurgeable, CompactCold
  <2>4. HasDigests(w.builds[p]) /\ SafeToPush(w.builds[p])
    BY <2>2 DEF ArchivePurgeable
  <2> QED
    BY <2>3, <2>4 DEF Validated
<1>3. p \in DOMAIN w.reports => w.reports[p].verdict = "pass"
  BY DEF PurgeableBuilds, PurgeableReports, Under
<1>4. ASSUME i \in BuildItems(w) PROVE i.about # p
  <2>1. PICK q \in DOMAIN w.builds : i.about = q /\ BuildLoop(w, q) # "observe"
    BY <1>4 DEF BuildItems, Item
  <2>2. p \in DOMAIN w.builds => BuildLoop(w, p) = "observe"
    BY <1>2 DEF BuildLoop
  <2> QED
    BY <2>1, <2>2
<1>5. ASSUME i \in PublicationItems(w) PROVE i.about # p
  <2>1. PICK q \in DOMAIN w.builds : i.about = q /\ ~HasContentProof(w.builds[q])
    BY <1>5 DEF PublicationItems, Item
  <2> QED
    BY <1>2, <2>1 DEF HasContentProof
<1>6. ASSUME i \in SemanticItems(w) PROVE i.about # p
  <2>1. SemanticType(i.about) # "none"
    BY <1>6 DEF SemanticItems, Item
  <2> QED
    BY <1>1, <2>1, EvidenceIsNoSource
<1>7. ASSUME i \in TraceItems(w) PROVE i.about # p
  <2>1. i.about \in DOMAIN w.builds /\ w.builds[i.about].kind = "feedback_build"
    BY <1>7 DEF TraceItems, TraceItem, Item, OfKind
  <2> QED
    BY <1>2, <2>1
<1>8. ASSUME i \in ReportItems(w) PROVE i.about # p
  <2>1. PICK v \in DOMAIN w.reports : ReportRoutes(w, v) /\ i.about = v
    BY <1>8 DEF ReportItems, Item
  <2>2. w.reports[v].verdict \in {"fail", "block"}
    BY <2>1 DEF ReportRoutes
  <2> QED
    BY <1>3, <2>1, <2>2
<1>9. i \notin LintItems(w)
  BY DEF LintItems, Item
<1>10. ASSUME i \in TaskItems(w) PROVE i.about # p
  <2>1. PICK t : i.about = <<t>>
    BY <1>10 DEF TaskItems, Item
  <2> QED
    BY <1>1, <2>1
<1>11. ASSUME i \in CodeItems(w) PROVE i.about # p
  <2>1. IsPathDirty(w, i.about)
    BY <1>11 DEF CodeItems, Item
  <2> QED
    BY <1>1, <2>1, EvidenceIsNotDirtySource
<1> QED
  BY <1>4, <1>5, <1>6, <1>7, <1>8, <1>9, <1>10, <1>11 DEF Items

\* What the list is read as are paths, like what is on it.
LEMMA SeenPaths ==
    ASSUME NEW S, \A p \in S : IsPath(p)
    PROVE  \A d \in Seen(S) : IsPath(d)
<1> SUFFICES ASSUME NEW p \in S PROVE IsPath(p) /\ IsPath(Clipped(p))
  BY DEF Seen
<1> QED
  BY DEF IsPath, Clipped

\* There is one path read for each on the list.
LEMMA SeenFinite ==
    ASSUME NEW S, IsFiniteSet(S)
    PROVE  IsFiniteSet(Seen(S))
<1> DEFINE f == [p \in S |-> IF \A q \in S \ {p} : Precedes(p, q) THEN Clipped(p) ELSE p]
<1>1. Seen(S) = {f[p] : p \in S}
  BY DEF Seen
<1>2. f \in Surjection(S, Seen(S))
  BY <1>1 DEF Surjection
<1> QED
  BY <1>2, FS_Surjection

\* What the retention manifest offers the purge is nothing that the reconciliation
\* items of the same rebuild still ask somebody to work on
\* (buildRetentionManifest and buildReconciliationItems of graph.ts).
THEOREM PurgeSparesDrift == Spec => []DriftNotPurgeable
<1>1. PlaceInv => DriftNotPurgeable
  <2> SUFFICES ASSUME PlaceInv,
                      NEW p \in PurgeableBuilds(W) \cup PurgeableReports(W),
                      NEW i \in Items(W), i.kind # "lint"
               PROVE  i.about # p
    BY DEF DriftNotPurgeable
  <2>1. W.builds = files.builds /\ W.reports = files.reports /\ W.dirty = Seen(dirty)
    BY DEF W
  <2>2. \A d \in W.dirty : IsPath(d)
    BY <2>1, SeenPaths DEF PlaceInv, GitInv, PathsTracked
  <2>3. /\ \A q \in DOMAIN W.builds : Under(q, "builds") /\ W.builds[q].state # "purged"
        /\ \A v \in DOMAIN W.reports : Under(v, "validation")
    BY <2>1 DEF PlaceInv, Placed
  <2> QED
    BY <2>2, <2>3, PurgeableIsQuiet
<1> QED
  BY PlaceInit, PlaceStep, <1>1, PTL DEF Spec

-----------------------------------------------------------------------------
(* What the lens and the control room make of any workspace: two parts of    *)
(* SurfacesAgree that need no list of tasks.                                 *)

\* A rebuild has a loop to run as soon as one item asks for one.
LEMMA AskedLoopIsRun ==
    ASSUME NEW w, NEW it \in Items(w), NEW j \in 1 .. 5, it.loop = Loops[j]
    PROVE  NextLoop(w) # "observe"
<1> DEFINE needed == {i.loop : i \in Items(w)}
           S == {i \in 1 .. Len(Loops) : Loops[i] \in needed}
<1>1. Len(Loops) = 6
  BY DEF Loops
<1>2. NextLoop(w) = IF (IF S # {} THEN Min(S) ELSE 0) = 0 THEN "observe"
                    ELSE Loops[IF S # {} THEN Min(S) ELSE 0]
  BY DEF NextLoop, SelectInSeq
<1>3. j \in S /\ S \subseteq Nat /\ S \subseteq 1 .. 6
  BY <1>1
<1> HIDE DEF S
<1>4. Min(S) \in S /\ Min(S) =< j
  <2>1. S # {}
    BY <1>3
  <2>2. Min(S) \in S /\ \A y \in S : Min(S) =< y
    BY <1>3, <2>1, LeastIsThere
  <2> QED
    BY <1>3, <2>2
<1>5. Min(S) \in 1 .. 5
  <2>1. ASSUME NEW m \in 1 .. 6, m =< j PROVE m \in 1 .. 5
    BY <2>1
  <2> QED
    BY <1>3, <1>4, <2>1
<1>6. \A i \in 1 .. 5 : Loops[i] # "observe"
  BY DEF Loops
<1> QED
  BY <1>2, <1>3, <1>5, <1>6

\* A document the status lens calls untracked, whose issues no open task names, is
\* also one the graph's own items send somebody to: when the graph has nothing to
\* do, the lens has found no drift (buildStatusState of state-builders.ts against
\* buildAlignmentGraph of graph.ts).
THEOREM LensDriftIsRouted ==
    ASSUME NEW w
    PROVE  Specs(w, "untracked") # {} => NextLoop(w) # "observe"
<1> SUFFICES ASSUME NEW d \in Specs(w, "untracked") PROVE NextLoop(w) # "observe"
  OBVIOUS
<1>1. SpecDrift(w, d) = "untracked"
  BY DEF Specs
<1>2. /\ SpecTasks(w, d, {"todo", "in_progress"}) = {}
      /\ SpecTasks(w, d, {"blocked"}) = {}
      /\ SpecIssues(w, d) # {}
  BY <1>1 DEF SpecDrift
<1>3. PICK i \in w.lint : i.path = d /\ i.kind # "large-doc"
  BY <1>2 DEF SpecIssues
<1>4. ~ \E t \in DOMAIN w.tasks : IsOpen(w, t) /\ i.path \in w.tasks[t].specs
  BY <1>2, <1>3 DEF SpecTasks, IsOpen, OpenStatuses
<1>5. Item("lint", i.path, "documentation", "drift", {"knowledge", "roadmap"}) \in Items(w)
  BY <1>3, <1>4 DEF LintItems, Items
<1>6. Item("lint", i.path, "documentation", "drift", {"knowledge", "roadmap"}).loop = Loops[2]
  BY DEF Item, Loops
<1> QED
  BY <1>5, <1>6, AskedLoopIsRun

\* What the control room serves of the graph has all the evidence that the graph
\* calls hot, though it chooses by rules of its own (isDefaultGraphNodeVisible of
\* control-room.ts against buildGraph of graph.ts).
LEMMA HotIsServed ==
    ASSUME NEW w
    PROVE  HotBuilds(w) \cup HotReports(w) \subseteq Visible(w).evidence
<1>1. ASSUME NEW p \in HotBuilds(w)
      PROVE  p \in DOMAIN w.builds /\ ~CompactCold(w, p) /\ ~Superseded(w, p)
  BY DEF HotBuilds, CompactCold, Routable
<1>2. ASSUME NEW v \in HotReports(w)
      PROVE  v \in DOMAIN w.reports /\ w.reports[v].verdict # "pass"
  BY DEF HotReports
<1> QED
  BY <1>1, <1>2 DEF Visible

\* The map drawn from it lacks a hot build or report only if seventy work nodes come
\* before it in the graph, whatever the order of the nodes: past seventy nothing
\* keeps what is hot on the map (drawGraphMap).
THEOREM HotIsVisible ==
    ASSUME NEW w, NEW S, NEW nodes \in Seq(S),
           Visible(w).evidence \subseteq Range(nodes),
           NEW p \in HotBuilds(w) \cup HotReports(w)
    PROVE  \/ p \in Range(Drawn(nodes))
           \/ \E i \in 1 .. Len(nodes) : i > MapLimit /\ nodes[i] = p
<1>1. PICK i \in 1 .. Len(nodes) : nodes[i] = p
  BY HotIsServed DEF Range
<1>2. CASE i <= MapLimit
  <2>1. Len(nodes) \in Nat /\ i <= Least(Len(nodes), MapLimit)
    BY <1>2 DEF Least
  <2>2. Least(Len(nodes), MapLimit) \in 0 .. Len(nodes)
    BY <2>1 DEF Least, MapLimit
  <2>3. Len(Drawn(nodes)) = Least(Len(nodes), MapLimit) /\ Drawn(nodes)[i] = nodes[i]
    BY <2>1, <2>2 DEF Drawn
  <2> QED
    BY <1>1, <2>1, <2>2, <2>3 DEF Range
<1> QED
  BY <1>1, <1>2 DEF MapLimit

-----------------------------------------------------------------------------
(* Lists, and what a filter makes of them *)

\* Induction up to n, over a set.
LEMMA UpTo ==
    ASSUME NEW n \in Nat, NEW S, 0 \in S, \A m \in 0 .. n : m < n /\ m \in S => m + 1 \in S
    PROVE  0 .. n \subseteq S
<1> DEFINE bad == {m \in 0 .. n : m \notin S}
<1>1. SUFFICES ASSUME bad # {} PROVE FALSE
  OBVIOUS
<1>2. PICK m \in bad : \A k \in bad : m =< k
  <2>1. bad \in SUBSET Nat
    OBVIOUS
  <2> HIDE DEF bad
  <2>2. PICK m \in bad : \A k \in bad : ~ (<<k, m>> \in OpToRel(<, Nat))
    BY <1>1, <2>1, WFMin, NatLessThanWellFounded
  <2>3. \A k \in bad : ~ (<<k, m>> \in OpToRel(<, Nat)) => m =< k
    BY <2>1 DEF OpToRel
  <2> QED
    BY <2>2, <2>3
<1>3. m \in 0 .. n /\ m \notin S /\ m # 0
  OBVIOUS
<1>4. m - 1 \in 0 .. n /\ m - 1 < n /\ m - 1 \in S
  BY <1>2, <1>3
<1>5. (m - 1) + 1 \in S
  BY <1>4
<1> QED
  BY <1>3, <1>5

\* No element twice.
Once(list) == \A i, j \in 1 .. Len(list) : list[i] = list[j] => i = j

\* The elements of a list.
LEMMA ElementsOf ==
    ASSUME NEW A, NEW list \in Seq(A)
    PROVE  /\ Range(list) = {list[i] : i \in 1 .. Len(list)}
           /\ Range(list) \subseteq A
           /\ Len(list) \in Nat
           /\ list # <<>> <=> Range(list) # {}
           /\ list # <<>> => 1 \in 1 .. Len(list) /\ list[1] \in Range(list)
<1>1. Range(list) = {list[i] : i \in 1 .. Len(list)} /\ Len(list) \in Nat
  BY DEF Range
<1>2. list = <<>> => Len(list) = 0
  BY EmptySeq
<1>3. list # <<>> => Len(list) \in Nat \ {0}
  BY EmptySeq
<1>4. list # <<>> => 1 \in 1 .. Len(list)
  BY <1>3
<1>5. Range(list) \subseteq A
  BY <1>1, ElementOfSeq
<1> QED
  BY <1>1, <1>2, <1>4, <1>5

\* The recursion of Kept, as far as m.
KeptStep(list, S, g, i) ==
    IF i = 0 THEN <<>>
    ELSE IF list[i] \in S THEN Append(g[i - 1], list[i])
    ELSE g[i - 1]

\* g makes the steps of the recursion up to m.
Filters(list, S, g, m) == g = [i \in 0 .. m |-> KeptStep(list, S, g, i)]

\* There is a function that makes these steps, up to the end of the list.
LEMMA FilterExists ==
    ASSUME NEW list, Len(list) \in Nat, NEW S
    PROVE  \E g : Filters(list, S, g, Len(list))
<1> DEFINE T == {m \in 0 .. Len(list) : \E g : Filters(list, S, g, m)}
<1>1. 0 \in T
  <2> DEFINE g == [i \in 0 .. 0 |-> <<>>]
  <2>1. Filters(list, S, g, 0)
    BY DEF Filters, KeptStep
  <2> HIDE DEF g
  <2> QED
    BY <2>1
<1>2. ASSUME NEW m \in 0 .. Len(list), m < Len(list), m \in T
      PROVE  m + 1 \in T
  <2>1. PICK g : Filters(list, S, g, m)
    BY <1>2
  <2> DEFINE h == [i \in 0 .. (m + 1) |-> IF i = m + 1 THEN KeptStep(list, S, g, i) ELSE g[i]]
  <2>2. \A i \in 0 .. m : g[i] = KeptStep(list, S, g, i)
    BY <2>1 DEF Filters
  <2>3. \A i \in 0 .. (m + 1) : h[i] = IF i = m + 1 THEN KeptStep(list, S, g, i) ELSE g[i]
    OBVIOUS
  <2>4. h = [i \in 0 .. (m + 1) |-> h[i]]
    OBVIOUS
  <2> HIDE DEF h
  <2>5. ASSUME NEW i \in 0 .. (m + 1)
        PROVE  h[i] = KeptStep(list, S, h, i)
    <3>1. h[i] = KeptStep(list, S, g, i)
      <4>1. i # m + 1 => i \in 0 .. m
        OBVIOUS
      <4> QED
        BY <2>2, <2>3, <4>1
    <3>2. i # 0 => h[i - 1] = g[i - 1]
      <4>1. i # 0 => i - 1 \in 0 .. (m + 1) /\ i - 1 # m + 1
        OBVIOUS
      <4> QED
        BY <2>3, <4>1
    <3> QED
      BY <3>1, <3>2 DEF KeptStep
  <2>6. Filters(list, S, h, m + 1)
    BY <2>4, <2>5 DEF Filters
  <2>7. m + 1 \in 0 .. Len(list)
    BY <1>2
  <2> QED
    BY <2>6, <2>7
<1>3. 0 .. Len(list) \subseteq T
  <2> HIDE DEF T
  <2> QED
    BY <1>1, <1>2, UpTo
<1> QED
  BY <1>3

\* A filter keeps of the first i elements those in S, none twice that was there once.
Sifted(A, list, S, i, kept) ==
    /\ kept \in Seq(A)
    /\ \A x : (\E k \in 1 .. Len(kept) : kept[k] = x) <=> (\E k \in 1 .. i : list[k] = x) /\ x \in S
    /\ Once(list) => Once(kept)

\* The next step of the recursion keeps or drops one element more.
LEMMA SiftedStep ==
    ASSUME NEW A, NEW list \in Seq(A), NEW S, NEW m \in 0 .. Len(list), m < Len(list),
           NEW g, Sifted(A, list, S, m, g[m])
    PROVE  Sifted(A, list, S, m + 1, KeptStep(list, S, g, m + 1))
<1> DEFINE kept == g[m]
           x == list[m + 1]
<1>1. /\ kept \in Seq(A) /\ Len(kept) \in Nat
      /\ \A y : (\E k \in 1 .. Len(kept) : kept[k] = y) <=> (\E k \in 1 .. m : list[k] = y) /\ y \in S
      /\ Once(list) => Once(kept)
  BY DEF Sifted
<1>2. /\ m + 1 \in 1 .. Len(list) /\ m + 1 # 0 /\ (m + 1) - 1 = m
      /\ 1 .. (m + 1) = (1 .. m) \cup {m + 1} /\ m + 1 \notin 1 .. m /\ 1 .. m \subseteq 1 .. Len(list)
  OBVIOUS
<1>3. x \in A
  BY <1>2, ElementOfSeq
<1>4. KeptStep(list, S, g, m + 1) = IF x \in S THEN Append(kept, x) ELSE kept
  BY <1>2 DEF KeptStep
<1>5. \A y : (\E k \in 1 .. (m + 1) : list[k] = y) <=> (\E k \in 1 .. m : list[k] = y) \/ y = x
  BY <1>2
<1>6. Once(list) => \A k \in 1 .. m : list[k] # x
  BY <1>2 DEF Once
<1> HIDE DEF kept, x
<1>7. CASE x \in S
  <2> DEFINE more == Append(kept, x)
  <2>1. /\ more \in Seq(A) /\ Len(more) = Len(kept) + 1 /\ more[Len(kept) + 1] = x
        /\ \A k \in 1 .. Len(kept) : more[k] = kept[k]
    BY <1>1, <1>3
  <2> HIDE DEF more
  <2>2. 1 .. Len(more) = (1 .. Len(kept)) \cup {Len(kept) + 1}
    BY <1>1, <2>1
  <2>3. \A y : (\E k \in 1 .. Len(more) : more[k] = y) <=> (\E k \in 1 .. Len(kept) : kept[k] = y) \/ y = x
    BY <2>1, <2>2
  <2>4. \A y : (\E k \in 1 .. Len(more) : more[k] = y) <=> (\E k \in 1 .. (m + 1) : list[k] = y) /\ y \in S
    BY <1>1, <1>5, <1>7, <2>3
  <2>5. ASSUME Once(list) PROVE Once(more)
    <3>1. \A k \in 1 .. Len(kept) : kept[k] # x
      BY <1>1, <1>6, <2>5
    <3> QED
      BY <1>1, <2>1, <2>2, <2>5, <3>1 DEF Once
  <2> QED
    BY <1>4, <1>7, <2>1, <2>4, <2>5 DEF Sifted, more
<1>8. CASE x \notin S
  <2>1. \A y : (\E k \in 1 .. Len(kept) : kept[k] = y) <=> (\E k \in 1 .. (m + 1) : list[k] = y) /\ y \in S
    BY <1>1, <1>5, <1>8
  <2> QED
    BY <1>1, <1>4, <1>8, <2>1 DEF Sifted
<1> QED
  BY <1>7, <1>8

\* What Kept returns.
LEMMA KeptIs ==
    ASSUME NEW A, NEW list \in Seq(A), NEW S
    PROVE  /\ Kept(list, S) \in Seq(A)
           /\ Range(Kept(list, S)) = Range(list) \cap S
           /\ Once(list) => Once(Kept(list, S))
<1> DEFINE n == Len(list)
           g == CHOOSE g : Filters(list, S, g, n)
           T == {i \in 0 .. n : Sifted(A, list, S, i, g[i])}
<1>1. n \in Nat
  OBVIOUS
<1>2. Filters(list, S, g, n)
  BY <1>1, FilterExists
<1>3. Kept(list, S) = g[n]
  BY DEF Kept, Filters, KeptStep
<1> HIDE DEF g
<1>4. \A i \in 0 .. n : g[i] = KeptStep(list, S, g, i)
  BY <1>2 DEF Filters
<1> HIDE DEF n
<1>5. 0 \in T
  <2>1. g[0] = <<>>
    BY <1>1, <1>4 DEF KeptStep
  <2>2. Sifted(A, list, S, 0, <<>>)
    BY DEF Sifted, Once
  <2> QED
    BY <1>1, <2>1, <2>2
<1>6. ASSUME NEW m \in 0 .. n, m < n, m \in T
      PROVE  m + 1 \in T
  <2>1. Sifted(A, list, S, m + 1, KeptStep(list, S, g, m + 1))
    BY <1>6, SiftedStep DEF n
  <2>2. m + 1 \in 0 .. n
    BY <1>1, <1>6
  <2> QED
    BY <1>4, <2>1, <2>2
<1>7. 0 .. n \subseteq T
  <2> HIDE DEF T
  <2> QED
    BY <1>1, <1>5, <1>6, UpTo
<1>8. Sifted(A, list, S, n, g[n])
  BY <1>1, <1>7
<1>9. /\ Kept(list, S) \in Seq(A)
      /\ \A x : (\E k \in 1 .. Len(Kept(list, S)) : Kept(list, S)[k] = x)
                 <=> (\E k \in 1 .. Len(list) : list[k] = x) /\ x \in S
      /\ Once(list) => Once(Kept(list, S))
  BY <1>3, <1>8 DEF Sifted, n
<1>10. Range(Kept(list, S)) = {Kept(list, S)[i] : i \in 1 .. Len(Kept(list, S))}
  BY <1>9, ElementsOf
<1>11. Range(list) = {list[i] : i \in 1 .. Len(list)}
  BY ElementsOf
<1> QED
  BY <1>9, <1>10, <1>11

\* One list after the other.
LEMMA JoinedIs ==
    ASSUME NEW A, NEW a \in Seq(A), NEW b \in Seq(A)
    PROVE  /\ a \o b \in Seq(A) /\ Len(a \o b) = Len(a) + Len(b)
           /\ Range(a \o b) = Range(a) \cup Range(b)
           /\ Once(a) /\ Once(b) /\ Range(a) \cap Range(b) = {} => Once(a \o b)
<1> DEFINE c == a \o b
<1>1. /\ c \in Seq(A) /\ Len(c) = Len(a) + Len(b) /\ Len(a) \in Nat /\ Len(b) \in Nat
      /\ \A i \in 1 .. Len(c) : c[i] = IF i =< Len(a) THEN a[i] ELSE b[i - Len(a)]
  BY ConcatProperties
<1> HIDE DEF c
<1>2. /\ Range(a) = {a[i] : i \in 1 .. Len(a)} /\ Range(b) = {b[i] : i \in 1 .. Len(b)}
      /\ Range(c) = {c[i] : i \in 1 .. Len(c)}
  BY <1>1, ElementsOf
<1>3. \A i \in 1 .. Len(c) : IF i =< Len(a) THEN i \in 1 .. Len(a) ELSE i - Len(a) \in 1 .. Len(b)
  BY <1>1
<1>4. /\ \A i \in 1 .. Len(a) : i \in 1 .. Len(c) /\ c[i] = a[i]
      /\ \A i \in 1 .. Len(b) : Len(a) + i \in 1 .. Len(c) /\ c[Len(a) + i] = b[i]
  <2>1. \A i \in 1 .. Len(a) : i \in 1 .. Len(c) /\ i =< Len(a)
    BY <1>1
  <2>2. \A i \in 1 .. Len(b) : Len(a) + i \in 1 .. Len(c) /\ ~(Len(a) + i =< Len(a)) /\ Len(a) + i - Len(a) = i
    BY <1>1
  <2>3. ASSUME NEW i \in 1 .. Len(a) PROVE i \in 1 .. Len(c) /\ c[i] = a[i]
    BY <1>1, <2>1
  <2>4. ASSUME NEW i \in 1 .. Len(b) PROVE Len(a) + i \in 1 .. Len(c) /\ c[Len(a) + i] = b[i]
    <3> DEFINE k == Len(a) + i
    <3>1. k \in 1 .. Len(c) /\ ~(k =< Len(a)) /\ k - Len(a) = i
      BY <2>2
    <3> HIDE DEF k
    <3>2. c[k] = b[k - Len(a)]
      BY <1>1, <3>1
    <3> QED
      BY <3>1, <3>2 DEF k
  <2> QED
    BY <2>3, <2>4
<1>5. Range(c) = Range(a) \cup Range(b)
  BY <1>1, <1>2, <1>3, <1>4
<1>6. ASSUME Once(a), Once(b), Range(a) \cap Range(b) = {}
      PROVE  Once(c)
  <2> SUFFICES ASSUME NEW i \in 1 .. Len(c), NEW j \in 1 .. Len(c), c[i] = c[j] PROVE i = j
    BY DEF Once
  <2>1. \A k \in 1 .. Len(a), l \in 1 .. Len(b) : a[k] # b[l]
    BY <1>2, <1>6
  <2>2. CASE i =< Len(a) /\ j =< Len(a)
    BY <1>1, <1>3, <1>6, <2>2 DEF Once
  <2>3. CASE i > Len(a) /\ j > Len(a)
    <3>1. i - Len(a) \in 1 .. Len(b) /\ j - Len(a) \in 1 .. Len(b) /\ b[i - Len(a)] = b[j - Len(a)]
      BY <1>1, <1>3, <2>3
    <3>2. i - Len(a) = j - Len(a)
      BY <1>6, <3>1 DEF Once
    <3> QED
      BY <1>1, <3>2
  <2>4. CASE i =< Len(a) /\ j > Len(a)
    BY <1>1, <1>3, <2>1, <2>4
  <2>5. CASE i > Len(a) /\ j =< Len(a)
    BY <1>1, <1>3, <2>1, <2>5
  <2> QED
    BY <1>1, <2>2, <2>3, <2>4, <2>5
<1> QED
  BY <1>1, <1>5, <1>6 DEF c

\* A list without repetition is as long as it has elements.
LEMMA OnceCounted ==
    ASSUME NEW A, NEW list \in Seq(A), Once(list)
    PROVE  IsFiniteSet(Range(list)) /\ Cardinality(Range(list)) = Len(list)
<1>1. Range(list) = {list[i] : i \in 1 .. Len(list)} /\ Len(list) \in Nat
  BY ElementsOf
<1>2. list \in [1 .. Len(list) -> Range(list)]
  BY <1>1
<1>3. list \in Bijection(1 .. Len(list), Range(list))
  <2>1. \A i, j \in 1 .. Len(list) : list[i] = list[j] => i = j
    BY DEF Once
  <2>2. \A x \in Range(list) : \E i \in 1 .. Len(list) : list[i] = x
    BY <1>1
  <2> HIDE DEF Range
  <2> QED
    BY <1>2, <2>1, <2>2, Zenon DEF Bijection, Injection, Surjection, IsInjective
<1>4. IsFiniteSet(1 .. Len(list))
  BY <1>1, FS_Interval
<1> QED
  <2>1. ExistsBijection(1 .. Len(list), Range(list))
    BY <1>3 DEF ExistsBijection
  <2> QED
    BY <1>1, <2>1, <1>4, FS_CountingElements, FS_Bijection

\* With fewer elements it is no longer.
LEMMA OnceLengths ==
    ASSUME NEW A, NEW a \in Seq(A), NEW b \in Seq(A), Once(a), Once(b), Range(a) \subseteq Range(b)
    PROVE  Len(a) =< Len(b)
BY OnceCounted, FS_Subset

\* The first k elements of a list.
LEMMA FirstOf ==
    ASSUME NEW A, NEW list \in Seq(A), NEW k \in 0 .. Len(list)
    PROVE  /\ SubSeq(list, 1, k) \in Seq(A) /\ Len(SubSeq(list, 1, k)) = k
           /\ \A i \in 1 .. k : SubSeq(list, 1, k)[i] = list[i]
           /\ Range(SubSeq(list, 1, k)) \subseteq Range(list)
           /\ k = Len(list) => Range(SubSeq(list, 1, k)) = Range(list)
<1>1. \A i \in 1 .. k : list[i] \in A
  OBVIOUS
<1>2. k \in Nat /\ k - 1 + 1 = k /\ (1 =< k \/ k = 0) /\ \A i \in 1 .. k : 1 + i - 1 = i
  OBVIOUS
<1>3. /\ SubSeq(list, 1, k) \in Seq(A) /\ Len(SubSeq(list, 1, k)) = k
      /\ \A i \in 1 .. k : SubSeq(list, 1, k)[i] = list[i]
  BY <1>1, <1>2, SubSeqProperties
<1>4. /\ Range(SubSeq(list, 1, k)) = {SubSeq(list, 1, k)[i] : i \in 1 .. k}
      /\ Range(list) = {list[i] : i \in 1 .. Len(list)}
  BY <1>3, ElementsOf
<1> QED
  BY <1>3, <1>4

-----------------------------------------------------------------------------
(* The lists of tasks that the lens and the panel make *)

\* The first of a list, or something else.
LEMMA FirstOr ==
    ASSUME NEW A, NEW list \in Seq(A), NEW x
    PROVE  Append(list, x)[1] = IF list = <<>> THEN x ELSE list[1]
<1> DEFINE B == A \cup {x}
<1>1. list \in Seq(B) /\ x \in B
  BY SeqMonotonic
<1> HIDE DEF B
<1>2. CASE list = <<>>
  <2>1. Len(list) + 1 = 1
    BY <1>2
  <2>2. Append(list, x)[Len(list) + 1] = x
    BY <1>1, AppendProperties
  <2> QED
    BY <1>2, <2>1, <2>2
<1>3. CASE list # <<>>
  <2>1. 1 \in 1 .. Len(list)
    BY <1>3, ElementsOf
  <2>2. \A i \in 1 .. Len(list) : Append(list, x)[i] = list[i]
    BY <1>1, AppendProperties
  <2> QED
    BY <1>3, <2>1, <2>2
<1> QED
  BY <1>2, <1>3

\* The tasks of a status, and those that are active or open, each once.
LEMMA OfStatusIs ==
    ASSUME NEW w, DOMAIN w.tasks \subseteq Ids, NEW status
    PROVE  /\ OfStatus(w, status) \in Seq(Ids)
           /\ Range(OfStatus(w, status)) = {t \in DOMAIN w.tasks : w.tasks[t].status = status}
           /\ Once(OfStatus(w, status))
<1> DEFINE S == {t \in DOMAIN w.tasks : w.tasks[t].status = status}
<1>1. TaskIds \in Seq(Ids) /\ Once(TaskIds)
  BY TaskIdList DEF Ids, Once
<1>2. /\ Kept(TaskIds, S) \in Seq(Ids) /\ Once(Kept(TaskIds, S))
      /\ Range(Kept(TaskIds, S)) = Range(TaskIds) \cap S
  BY <1>1, KeptIs
<1>3. Range(TaskIds) \cap S = S
  BY DEF Ids
<1> QED
  BY <1>2, <1>3 DEF OfStatus

\* The active tasks, then those to do: all that are open, each once, and none is "".
LEMMA OpenTasksAre ==
    ASSUME NEW w, DOMAIN w.tasks \subseteq Ids
    PROVE  /\ ActiveTasks(w) \in Seq(Ids) /\ Once(ActiveTasks(w))
           /\ Range(ActiveTasks(w)) = {t \in DOMAIN w.tasks : w.tasks[t].status \in {"in_progress", "blocked"}}
           /\ OpenTasks(w) \in Seq(Ids) /\ Once(OpenTasks(w))
           /\ Range(OpenTasks(w)) = {t \in DOMAIN w.tasks : IsOpen(w, t)}
           /\ "" \notin Range(OpenTasks(w))
<1> DEFINE P == OfStatus(w, "in_progress")
           B == OfStatus(w, "blocked")
           T == OfStatus(w, "todo")
<1>1. /\ P \in Seq(Ids) /\ Range(P) = {t \in DOMAIN w.tasks : w.tasks[t].status = "in_progress"} /\ Once(P)
      /\ B \in Seq(Ids) /\ Range(B) = {t \in DOMAIN w.tasks : w.tasks[t].status = "blocked"} /\ Once(B)
      /\ T \in Seq(Ids) /\ Range(T) = {t \in DOMAIN w.tasks : w.tasks[t].status = "todo"} /\ Once(T)
  BY OfStatusIs
<1>2. ActiveTasks(w) = P \o B /\ OpenTasks(w) = ActiveTasks(w) \o T
  BY DEF ActiveTasks, OpenTasks
<1> HIDE DEF P, B, T
<1>3. Range(P) \cap Range(B) = {} /\ (Range(P) \cup Range(B)) \cap Range(T) = {}
  BY <1>1
<1>4. /\ ActiveTasks(w) \in Seq(Ids) /\ Once(ActiveTasks(w))
      /\ Range(ActiveTasks(w)) = Range(P) \cup Range(B)
  <2>1. /\ P \o B \in Seq(Ids) /\ Once(P \o B)
        /\ Range(P \o B) = Range(P) \cup Range(B)
    <3> HIDE DEF Range
    <3> QED
      BY <1>1, <1>3, JoinedIs
  <2> QED
    BY <1>2, <2>1
<1>5. /\ OpenTasks(w) \in Seq(Ids) /\ Once(OpenTasks(w))
      /\ Range(OpenTasks(w)) = Range(ActiveTasks(w)) \cup Range(T)
  <2> DEFINE L == ActiveTasks(w)
  <2>1. L \in Seq(Ids) /\ Once(L) /\ Range(L) \cap Range(T) = {}
    BY <1>3, <1>4
  <2> HIDE DEF L
  <2>2. L \o T \in Seq(Ids) /\ Once(L \o T) /\ Range(L \o T) = Range(L) \cup Range(T)
    BY <1>1, <2>1, JoinedIs
  <2> QED
    BY <1>2, <2>2 DEF L
<1>6. Range(ActiveTasks(w)) = {t \in DOMAIN w.tasks : w.tasks[t].status \in {"in_progress", "blocked"}}
  BY <1>1, <1>4
<1>7. Range(OpenTasks(w)) = {t \in DOMAIN w.tasks : IsOpen(w, t)}
  BY <1>1, <1>5, <1>6 DEF IsOpen, OpenStatuses
<1>8. "" \notin Ids
  BY TaskIdList DEF Ids
<1> QED
  BY <1>4, <1>5, <1>6, <1>7, <1>8

\* The task to resume is open, or there is none.
LEMMA ResumeTaskIsOpen ==
    ASSUME NEW w, DOMAIN w.tasks \subseteq Ids
    PROVE  ResumeTask(w) = "" \/ IsOpen(w, ResumeTask(w))
<1> DEFINE A == RunnableActive(w)
           T == RunnableTodo(w)
<1>1. /\ A \in Seq(Ids) /\ Range(A) \subseteq {t \in DOMAIN w.tasks : IsOpen(w, t)}
      /\ T \in Seq(Ids) /\ Range(T) \subseteq {t \in DOMAIN w.tasks : IsOpen(w, t)}
  <2> DEFINE L == ActiveTasks(w)
             D == OfStatus(w, "todo")
  <2>1. L \in Seq(Ids) /\ D \in Seq(Ids)
    BY OpenTasksAre, OfStatusIs
  <2>2. Range(L) \subseteq {t \in DOMAIN w.tasks : IsOpen(w, t)}
    <3>1. Range(L) = {t \in DOMAIN w.tasks : w.tasks[t].status \in {"in_progress", "blocked"}}
      BY OpenTasksAre
    <3> QED
      BY <3>1 DEF IsOpen, OpenStatuses
  <2>3. Range(D) \subseteq {t \in DOMAIN w.tasks : IsOpen(w, t)}
    BY OfStatusIs DEF IsOpen, OpenStatuses
  <2>4. A = Kept(L, Executable(w)) /\ T = Kept(D, Executable(w))
    BY DEF RunnableActive, RunnableTodo
  <2> HIDE DEF L, D, A, T
  <2>5. /\ Kept(L, Executable(w)) \in Seq(Ids) /\ Range(Kept(L, Executable(w))) = Range(L) \cap Executable(w)
        /\ Kept(D, Executable(w)) \in Seq(Ids) /\ Range(Kept(D, Executable(w))) = Range(D) \cap Executable(w)
    BY <2>1, KeptIs
  <2> QED
    BY <2>2, <2>3, <2>4, <2>5
<1> HIDE DEF A, T
<1> DEFINE L == A \o T
<1>2. L \in Seq(Ids) /\ Range(L) \subseteq {t \in DOMAIN w.tasks : IsOpen(w, t)}
  BY <1>1, JoinedIs
<1>3. ResumeTask(w) = Append(L, "")[1]
  BY DEF ResumeTask, A, T
<1> HIDE DEF L
<1>4. Append(L, "")[1] = IF L = <<>> THEN "" ELSE L[1]
  <2>1. L \in Seq(Ids)
    BY <1>2
  <2> HIDE <1>2
  <2>2. \A x : Append(L, x)[1] = IF L = <<>> THEN x ELSE L[1]
    BY <2>1, FirstOr
  <2> QED
    BY <2>2
<1>5. L # <<>> => L[1] \in Range(L)
  BY <1>2, ElementsOf
<1>6. ResumeTask(w) = "" \/ ResumeTask(w) \in Range(L)
  BY <1>3, <1>4, <1>5
<1>7. \A t \in Range(L) : IsOpen(w, t)
  BY <1>2, Zenon
<1> QED
  BY <1>6, <1>7, Zenon

-----------------------------------------------------------------------------
\* The parts of the lens.
LEMMA LensIs ==
    ASSUME NEW w, NEW v, v = StatusLens(w)
    PROVE  /\ v.step = NextStep(w) /\ v.resume = ResumeTask(w) /\ v.open = OpenTasks(w)
           /\ v.active = ActiveTasks(w) /\ v.status = [t \in DOMAIN w.tasks |-> w.tasks[t].status]
           /\ v.untracked = Specs(w, "untracked") /\ v.blocked = Specs(w, "blocked")
           /\ v.issues = w.lint /\ v.done = Column(w, "done")
           /\ v.lanes = [l \in DOMAIN Lanes |->
                          [tasks |-> LaneTasks(w, l), risky |-> LaneSpecs(w, l) \ Specs(w, "aligned")]]
           /\ v.sprints = [s \in DOMAIN w.sprints |-> {t \in w.sprints[s].tasks : IsOpen(w, t)}]
BY DEF StatusLens

\* The next step is to reconcile exactly if a loop is asked for, and to look at the
\* status only if a document has drifted or a task is blocked.
LEMMA NextStepIs ==
    ASSUME NEW w, DOMAIN w.tasks \subseteq Ids
    PROVE  /\ NextStep(w).kind = "reconciliation" <=> NextLoop(w) # "observe"
           /\ NextStep(w).kind = "status" =>
                \/ Specs(w, "untracked") # {}
                \/ \E t \in DOMAIN w.tasks : w.tasks[t].status = "blocked"
           /\ Specs(w, "untracked") \cup Specs(w, "blocked") # {} =>
                NextStep(w).kind \in {"status", "reconciliation"}
<1>2. OfStatus(w, "blocked") # <<>> => \E t \in DOMAIN w.tasks : w.tasks[t].status = "blocked"
  <2>1. /\ OfStatus(w, "blocked") \in Seq(Ids)
        /\ Range(OfStatus(w, "blocked")) = {t \in DOMAIN w.tasks : w.tasks[t].status = "blocked"}
    BY OfStatusIs
  <2>2. OfStatus(w, "blocked") # <<>> => Range(OfStatus(w, "blocked")) # {}
    BY <2>1, ElementsOf
  <2> QED
    BY <2>1, <2>2
<1>3. Specs(w, "blocked") # {} => \E t \in DOMAIN w.tasks : w.tasks[t].status = "blocked"
  <2> SUFFICES ASSUME NEW d \in Specs(w, "blocked")
               PROVE  \E t \in DOMAIN w.tasks : w.tasks[t].status = "blocked"
    OBVIOUS
  <2>1. SpecDrift(w, d) = "blocked"
    BY DEF Specs
  <2>2. SpecTasks(w, d, {"blocked"}) # {}
    BY <2>1 DEF SpecDrift
  <2> QED
    BY <2>2 DEF SpecTasks
<1> DEFINE drift == Specs(w, "untracked") # {}
           stuck == Specs(w, "blocked") # {} \/ OfStatus(w, "blocked") # <<>>
           kind == NextStep(w).kind
<1>4. NextLoop(w) # "observe" => kind = "reconciliation"
  BY DEF NextStep, Step
<1>5. NextLoop(w) = "observe" /\ (drift \/ stuck) => kind = "status"
  BY DEF NextStep, Step
<1>6. NextLoop(w) = "observe" /\ ~drift /\ ~stuck => kind \in {"code", "observe"}
  BY DEF NextStep, Step
<1>7. stuck => \E t \in DOMAIN w.tasks : w.tasks[t].status = "blocked"
  BY <1>2, <1>3
<1>8. Specs(w, "untracked") \cup Specs(w, "blocked") # {} => drift \/ stuck
  OBVIOUS
<1> HIDE DEF stuck, kind
<1>9. kind = "reconciliation" <=> NextLoop(w) # "observe"
  BY <1>4, <1>5, <1>6
<1>10. kind = "status" => drift \/ stuck
  BY <1>4, <1>5, <1>6
<1>11. drift \/ stuck => kind \in {"status", "reconciliation"}
  BY <1>4, <1>5, <1>6
<1> QED
  BY <1>7, <1>8, <1>9, <1>10, <1>11 DEF kind

\* Nothing to do, said by the lens and by the graph.
LEMMA NothingToDo ==
    ASSUME NEW w, DOMAIN w.tasks \subseteq Ids
    PROVE  NextAction(StatusLens(w), "").kind = "none"
             <=> NextLoop(w) = "observe" /\ ~ \E t \in DOMAIN w.tasks : IsOpen(w, t)
<1> DEFINE v == StatusLens(w)
           open == {t \in DOMAIN w.tasks : IsOpen(w, t)}
<1>1. /\ v.step = NextStep(w) /\ v.resume = ResumeTask(w) /\ v.open = OpenTasks(w)
      /\ v.untracked = Specs(w, "untracked")
  BY LensIs
<1>2. /\ OpenTasks(w) \in Seq(Ids) /\ Range(OpenTasks(w)) = open /\ "" \notin open
  BY OpenTasksAre
<1>3. v.open # <<>> <=> open # {}
  BY <1>1, <1>2, ElementsOf
<1>4. v.resume = "" \/ v.resume \in open
  BY <1>1, ResumeTaskIsOpen DEF IsOpen
<1>5. v.step.kind = "reconciliation" <=> NextLoop(w) # "observe"
  BY <1>1, NextStepIs
<1>6. v.untracked # {} => NextLoop(w) # "observe"
  BY <1>1, LensDriftIsRouted
<1>7. Range(v.open) = open
  BY <1>1, <1>2
<1> HIDE DEF v, open
<1>8. NextAction(v, "").kind =
        IF v.resume \in open THEN "resume"
        ELSE IF v.step.kind = "reconciliation" THEN "reconciliation"
        ELSE IF v.open # <<>> THEN "next_task"
        ELSE IF v.untracked # {} THEN "wiki_drift"
        ELSE "none"
  BY <1>2, <1>7 DEF NextAction, Step
<1>9. v.resume \in open => open # {}
  OBVIOUS
<1>10. NextAction(v, "").kind = "none" <=> open = {} /\ NextLoop(w) = "observe"
  BY <1>3, <1>5, <1>6, <1>8, <1>9
<1> QED
  BY <1>10 DEF v, open

\* The task that codewiki_state names is open.
LEMMA StateAdvice ==
    ASSUME NEW w, DOMAIN w.tasks \subseteq Ids, NEW link
    PROVE  LET t == NextAction(StatusLens(w), link).task IN t = "" \/ IsOpen(w, t)
<1> DEFINE v == StatusLens(w)
           open == {t \in DOMAIN w.tasks : IsOpen(w, t)}
<1>1. v.resume = ResumeTask(w) /\ v.open = OpenTasks(w)
  BY LensIs
<1>2. v.open \in Seq(Ids) /\ Range(v.open) = open
  BY <1>1, OpenTasksAre
<1>3. v.open # <<>> => v.open[1] \in open
  BY <1>2, ElementsOf
<1> HIDE DEF v, open
<1>4. NextAction(v, link).task = "" \/ NextAction(v, link).task \in open
  <2>1. CASE link \in open
    BY <1>2, <2>1 DEF NextAction, Step
  <2>2. CASE link \notin open /\ v.resume \in open
    BY <1>2, <2>2 DEF NextAction, Step
  <2>3. CASE link \notin open /\ v.resume \notin open
    BY <1>2, <1>3, <2>3 DEF NextAction, Step
  <2> QED
    BY <2>1, <2>2, <2>3
<1> QED
  BY <1>4 DEF v, open

\* The tasks in the scope of a request are open.
LEMMA ScopeIsOpen ==
    ASSUME NEW w, DOMAIN w.tasks \subseteq Ids, NEW scope
    PROVE  /\ ScopeTasks(StatusLens(w), scope) \in Seq(Ids)
           /\ Range(ScopeTasks(StatusLens(w), scope)) \subseteq {t \in DOMAIN w.tasks : IsOpen(w, t)}
<1> DEFINE v == StatusLens(w)
           open == {t \in DOMAIN w.tasks : IsOpen(w, t)}
<1>1. v.open \in Seq(Ids) /\ Range(v.open) = open
  <2>1. v.open = OpenTasks(w)
    BY LensIs
  <2> QED
    BY <2>1, OpenTasksAre
<1> HIDE DEF v, open
<1>2. \A S : Kept(v.open, S) \in Seq(Ids) /\ Range(Kept(v.open, S)) \subseteq open
  BY <1>1, KeptIs
<1>3. <<>> \in Seq(Ids) /\ Range(<<>>) \subseteq open
  BY EmptySeq DEF Range
<1>4. \/ ScopeTasks(v, scope) = v.open
      \/ \E S : ScopeTasks(v, scope) = Kept(v.open, S)
      \/ ScopeTasks(v, scope) = <<>>
  BY DEF ScopeTasks
<1>5. ScopeTasks(v, scope) \in Seq(Ids) /\ Range(ScopeTasks(v, scope)) \subseteq open
  <2>1. CASE ScopeTasks(v, scope) = v.open
    BY <1>1, <2>1
  <2>2. CASE \E S : ScopeTasks(v, scope) = Kept(v.open, S)
    BY <1>2, <2>2
  <2>3. CASE ScopeTasks(v, scope) = <<>>
    BY <1>3, <2>3
  <2> QED
    BY <1>4, <2>1, <2>2, <2>3
<1> QED
  BY <1>5 DEF v, open

\* So are the task and the sessions that codewiki_agency proposes.
LEMMA AgencyAdvice ==
    ASSUME NEW w, DOMAIN w.tasks \subseteq Ids, NEW in, in.sessions \in Nat
    PROVE  LET plan == AgencyPlan(StatusLens(w), in)
           IN  \A t \in ({plan.task} \cup Range(plan.spawn)) \ {""} : IsOpen(w, t)
<1> DEFINE v == StatusLens(w)
           open == {t \in DOMAIN w.tasks : IsOpen(w, t)}
           tasks == ScopeTasks(v, in.scope)
           next == Append(tasks, "")[1]
           plan == AgencyPlan(v, in)
<1>1. tasks \in Seq(Ids) /\ Range(tasks) \subseteq open
  BY ScopeIsOpen
<1> HIDE DEF v, open, tasks
<1>2. next = IF tasks = <<>> THEN "" ELSE tasks[1]
  <2>1. \A x : Append(tasks, x)[1] = IF tasks = <<>> THEN x ELSE tasks[1]
    BY <1>1, FirstOr
  <2> QED
    BY <2>1
<1>3. tasks # <<>> => tasks[1] \in open
  BY <1>1, ElementsOf
<1>4. next = "" \/ next \in open
  BY <1>2, <1>3
<1>5. Range(Spawned(in, tasks)) \subseteq open
  <2> DEFINE k == IF Len(tasks) < in.sessions THEN Len(tasks) ELSE in.sessions
  <2>1. Spawned(in, tasks) \in {SubSeq(tasks, 1, k), <<>>}
    BY DEF Spawned
  <2>2. k \in 0 .. Len(tasks)
    BY <1>1
  <2> HIDE DEF k
  <2>3. Range(SubSeq(tasks, 1, k)) \subseteq open
    BY <1>1, <2>2, FirstOf
  <2>4. Range(<<>>) \subseteq open
    BY DEF Range
  <2> QED
    BY <2>1, <2>3, <2>4
<1>6. Range(<<>>) = {}
  BY DEF Range
<1> HIDE DEF next
<1>7. plan.task \in {next, ""} /\ plan.spawn \in {Spawned(in, tasks), <<>>}
  BY DEF AgencyPlan, Cycle, next, tasks
<1> HIDE DEF plan
<1>8. \A t \in ({plan.task} \cup Range(plan.spawn)) \ {""} : t \in open
  BY <1>4, <1>5, <1>6, <1>7
<1> QED
  BY <1>8 DEF v, open, plan

-----------------------------------------------------------------------------
(* The panel *)

\* The tasks still to do, and those that are blocked.
LEMMA PanelTasks ==
    ASSUME NEW w, DOMAIN w.tasks \subseteq Ids, NEW v, v = StatusLens(w)
    PROVE  /\ Todo(v) \in Seq(Ids) /\ Once(Todo(v))
           /\ Range(Todo(v)) = {t \in DOMAIN w.tasks : w.tasks[t].status = "todo"}
           /\ Blocked(v) \in Seq(Ids)
           /\ Range(Blocked(v)) = {t \in DOMAIN w.tasks : w.tasks[t].status = "blocked"}
<1>1. /\ v.open = OpenTasks(w) /\ v.active = ActiveTasks(w)
      /\ v.status = [t \in DOMAIN w.tasks |-> w.tasks[t].status]
  BY LensIs
<1>2. /\ v.open \in Seq(Ids) /\ Once(v.open) /\ Range(v.open) = {t \in DOMAIN w.tasks : IsOpen(w, t)}
      /\ v.active \in Seq(Ids)
      /\ Range(v.active) = {t \in DOMAIN w.tasks : w.tasks[t].status \in {"in_progress", "blocked"}}
  BY <1>1, OpenTasksAre
<1> DEFINE S == {t \in DOMAIN v.status : v.status[t] = "todo"}
           B == {t \in DOMAIN v.status : v.status[t] = "blocked"}
<1>3. /\ S = {t \in DOMAIN w.tasks : w.tasks[t].status = "todo"}
      /\ B = {t \in DOMAIN w.tasks : w.tasks[t].status = "blocked"}
  BY <1>1
<1>4. Todo(v) = Kept(v.open, S) /\ Blocked(v) = Kept(v.active, B)
  BY DEF Todo, Blocked
<1> HIDE DEF S, B
<1>5. /\ Todo(v) \in Seq(Ids) /\ Once(Todo(v)) /\ Range(Todo(v)) = Range(v.open) \cap S
      /\ Blocked(v) \in Seq(Ids) /\ Range(Blocked(v)) = Range(v.active) \cap B
  BY <1>2, <1>4, KeptIs
<1>6. Range(v.open) \cap S = S
  BY <1>2, <1>3 DEF IsOpen, OpenStatuses
<1>7. Range(v.active) \cap B = B
  BY <1>2, <1>3
<1> QED
  BY <1>3, <1>5, <1>6, <1>7

\* A list of one element.
LEMMA OneElement ==
    ASSUME NEW A, NEW x \in A
    PROVE  /\ <<x>> \in Seq(A) /\ Once(<<x>>) /\ Range(<<x>>) = {x}
           /\ Len(<<x>>) = 1 /\ <<x>>[1] = x
<1> DEFINE one == <<x>>
<1>1. one = [i \in 1 .. 1 |-> x]
  OBVIOUS
<1> HIDE DEF one
<1>2. one \in Seq(A)
  BY <1>1, SeqDef
<1>3. Len(one) = 1
  BY <1>1, <1>2, LenProperties
<1>4. \A i \in 1 .. 1 : one[i] = x
  BY <1>1
<1>5. \A i, j \in 1 .. 1 : i = j
  OBVIOUS
<1>6. Once(one)
  BY <1>3, <1>5 DEF Once
<1>7. Range(one) = {one[i] : i \in 1 .. 1}
  BY <1>2, <1>3, ElementsOf
<1>8. Range(one) = {x} /\ one[1] = x
  BY <1>4, <1>7
<1> QED
  BY <1>2, <1>3, <1>6, <1>8 DEF one

\* The working set is the open tasks, each once, the linked one first.
LEMMA WorkingSetIs ==
    ASSUME NEW w, DOMAIN w.tasks \subseteq Ids, NEW v, v = StatusLens(w), NEW link
    PROVE  /\ WorkingSet(v, link) \in Seq(Ids) /\ Once(WorkingSet(v, link))
           /\ Range(WorkingSet(v, link)) = {t \in DOMAIN w.tasks : IsOpen(w, t)}
           /\ LinkedTask(v, link) # "" =>
                LinkedTask(v, link) = link /\ IsOpen(w, link) /\ WorkingSet(v, link)[1] = link
<1> DEFINE open == {t \in DOMAIN w.tasks : IsOpen(w, t)}
           linked == IF LinkedTask(v, link) # "" THEN <<link>> ELSE <<>>
           rest == DOMAIN v.status \ Range(linked)
           both == v.active \o Todo(v)
<1>1. /\ v.open = OpenTasks(w) /\ v.active = ActiveTasks(w)
      /\ v.status = [t \in DOMAIN w.tasks |-> w.tasks[t].status]
  BY LensIs
<1>2. /\ Range(v.open) = open /\ open \subseteq Ids
      /\ v.active \in Seq(Ids) /\ Once(v.active)
      /\ Range(v.active) = {t \in DOMAIN w.tasks : w.tasks[t].status \in {"in_progress", "blocked"}}
  BY <1>1, OpenTasksAre
<1>3. /\ Todo(v) \in Seq(Ids) /\ Once(Todo(v))
      /\ Range(Todo(v)) = {t \in DOMAIN w.tasks : w.tasks[t].status = "todo"}
  BY PanelTasks
<1>4. both \in Seq(Ids) /\ Once(both) /\ Range(both) = Range(v.active) \cup Range(Todo(v))
  <2>1. Range(v.active) \cap Range(Todo(v)) = {}
    BY <1>2, <1>3
  <2> QED
    BY <1>2, <1>3, <2>1, JoinedIs
<1>5. Range(v.active) \cup Range(Todo(v)) = open
  BY <1>2, <1>3 DEF IsOpen, OpenStatuses
<1>6. LinkedTask(v, link) # "" => LinkedTask(v, link) = link /\ link \in open
  BY <1>2 DEF LinkedTask
<1>7. /\ linked \in Seq(Ids) /\ Once(linked) /\ Range(linked) \subseteq open
      /\ LinkedTask(v, link) # "" => Len(linked) = 1 /\ linked[1] = link
  <2>1. CASE LinkedTask(v, link) # ""
    <3>1. link \in Ids /\ linked = <<link>>
      BY <1>2, <1>6, <2>1
    <3>2. /\ <<link>> \in Seq(Ids) /\ Once(<<link>>) /\ Range(<<link>>) = {link}
          /\ Len(<<link>>) = 1 /\ <<link>>[1] = link
      BY <3>1, OneElement
    <3> HIDE DEF open
    <3> QED
      BY <1>6, <2>1, <3>1, <3>2
  <2>2. CASE LinkedTask(v, link) = ""
    <3>1. <<>> \in Seq(Ids) /\ Once(<<>>) /\ Range(<<>>) \subseteq open
      BY DEF Once, Range
    <3> QED
      BY <2>2, <3>1
  <2> QED
    BY <2>1, <2>2
<1>8. WorkingSet(v, link) = linked \o Kept(both, rest)
  BY DEF WorkingSet
<1> HIDE DEF linked, both
<1>9. rest = DOMAIN w.tasks \ Range(linked)
  BY <1>1
<1>10. /\ Kept(both, rest) \in Seq(Ids) /\ Once(Kept(both, rest))
       /\ Range(Kept(both, rest)) = open \cap rest
  BY <1>4, <1>5, KeptIs
<1> DEFINE more == Kept(both, rest)
<1>11. /\ more \in Seq(Ids) /\ Once(more) /\ Range(more) = open \ Range(linked)
  BY <1>9, <1>10
<1> HIDE DEF more, open
<1>12. /\ linked \o more \in Seq(Ids) /\ Once(linked \o more)
       /\ Range(linked \o more) = Range(linked) \cup Range(more)
  <2>1. Range(linked) \cap Range(more) = {}
    BY <1>11
  <2> QED
    BY <1>7, <1>11, <2>1, JoinedIs
<1>13. Range(linked) \cup Range(more) = open
  BY <1>7, <1>11
<1>14. Len(linked) = 1 => (linked \o more)[1] = linked[1]
  <2>1. Len(more) \in Nat
    BY <1>11, LenProperties
  <2>2. Len(linked) = 1 => 1 \in 1 .. Len(linked) + Len(more) /\ 1 <= Len(linked)
    BY <2>1
  <2> QED
    BY <1>7, <1>11, <2>2, ConcatProperties
<1>15. WorkingSet(v, link) = linked \o more
  BY <1>8 DEF more
<1> QED
  BY <1>6, <1>7, <1>12, <1>13, <1>14, <1>15 DEF open

\* Two lists with the same positions are of one length.
LEMMA SameBound == ASSUME NEW m \in Nat, NEW n \in Nat, 1 .. m = 1 .. n PROVE m = n
<1>1. m # 0 => m \in 1 .. n
  OBVIOUS
<1>2. n # 0 => n \in 1 .. m
  OBVIOUS
<1>3. m # 0 => m =< n
  BY <1>1
<1>4. n # 0 => n =< m
  BY <1>2
<1> QED
  BY <1>3, <1>4

\* Of a list that is not empty, the first four include the first.
LEMMA LeastOfFour ==
    ASSUME NEW n \in Nat \ {0}
    PROVE  Least(n, 4) \in 0 .. n /\ 1 \in 1 .. Least(n, 4) /\ 1 \in 1 .. n
BY DEF Least

\* Two lists joined are empty only if both are.
LEMMA BothEmpty ==
    ASSUME NEW A, NEW a \in Seq(A), NEW b \in Seq(A)
    PROVE  a \o b = <<>> <=> a = <<>> /\ b = <<>>
<1>1. /\ Len(a) \in Nat /\ Len(b) \in Nat /\ a \o b \in Seq(A) /\ Len(a \o b) = Len(a) + Len(b)
  BY LenProperties, ConcatProperties
<1>2. \A list \in Seq(A) : list = <<>> <=> Len(list) = 0
  BY EmptySeq
<1>3. Len(a) + Len(b) = 0 <=> Len(a) = 0 /\ Len(b) = 0
  BY <1>1
<1> QED
  BY <1>1, <1>2, <1>3, Zenon

\* The home page says that nothing blocks only if nobody is sent to the status.
LEMMA HomeIsHonest ==
    ASSUME NEW w, DOMAIN w.tasks \subseteq Ids, NEW v, v = StatusLens(w), NEW link,
           HomeIssues(v, link) = << <<"info", "">> >>
    PROVE  v.step.kind # "status"
<1> DEFINE A == {"blocker", "knowledge", "warning"} \X (Ids \cup {"", link})
           n == Len(Blocked(v))
           one == [i \in 1 .. n |-> <<"blocker", Blocked(v)[i]>>]
           two == IF v.issues = {} THEN <<>> ELSE << <<"knowledge", "">> >>
           three == IF LinkedTask(v, link) = "" THEN <<>> ELSE << <<"warning", link>> >>
           found == one \o two \o three
           k == Least(Len(found), 4)
<1>1. /\ Blocked(v) \in Seq(Ids) /\ n \in Nat
      /\ Range(Blocked(v)) = {t \in DOMAIN w.tasks : w.tasks[t].status = "blocked"}
  <2>1. /\ Blocked(v) \in Seq(Ids)
        /\ Range(Blocked(v)) = {t \in DOMAIN w.tasks : w.tasks[t].status = "blocked"}
    BY PanelTasks
  <2> QED
    BY <2>1, LenProperties
<1>2. one \in Seq(A) /\ Len(one) = n
  <2>1. \A i \in 1 .. n : Blocked(v)[i] \in Ids
    BY <1>1, ElementOfSeq
  <2>2. \A i \in 1 .. n : <<"blocker", Blocked(v)[i]>> \in A
    BY <2>1
  <2>3. one \in [1 .. n -> A]
    BY <2>2
  <2> HIDE DEF one, n, A
  <2>4. one \in Seq(A)
    BY <1>1, <2>3, SeqDef
  <2>5. DOMAIN one = 1 .. n /\ DOMAIN one = 1 .. Len(one) /\ Len(one) \in Nat
    BY <2>3, <2>4, LenProperties
  <2>6. Len(one) = n
    BY <1>1, <2>5, SameBound
  <2> QED
    BY <2>4, <2>6
<1>3. two \in Seq(A) /\ (v.issues # {} => two # <<>>) /\ three \in Seq(A)
  <2>1. <<"knowledge", "">> \in A /\ <<"warning", link>> \in A
    OBVIOUS
  <2> HIDE DEF A
  <2>2. /\ << <<"knowledge", "">> >> \in Seq(A) /\ Len(<< <<"knowledge", "">> >>) = 1
        /\ << <<"warning", link>> >> \in Seq(A)
    BY <2>1, OneElement
  <2>3. <<>> \in Seq(A) /\ Len(<<>>) = 0
    BY EmptySeq
  <2> QED
    BY <2>2, <2>3
<1>4. \A x \in A : x[1] # "info"
  OBVIOUS
<1> HIDE DEF A, one, two, three, n
<1>5. one \o two \in Seq(A) /\ found \in Seq(A)
  BY <1>2, <1>3, ConcatProperties
<1>6. found = <<>> => one = <<>> /\ two = <<>>
  <2>1. found = <<>> => one \o two = <<>>
    BY <1>3, <1>5, BothEmpty
  <2>2. one \o two = <<>> => one = <<>> /\ two = <<>>
    BY <1>2, <1>3, BothEmpty
  <2> QED
    BY <2>1, <2>2
<1>7. HomeIssues(v, link) = IF found = <<>> THEN << <<"info", "">> >> ELSE SubSeq(found, 1, k)
  BY DEF HomeIssues, one, two, three, n
<1> HIDE DEF found
<1>8. found = <<>>
  <2> SUFFICES ASSUME found # <<>> PROVE FALSE
    OBVIOUS
  <2>1. Len(found) \in Nat \ {0}
    BY <1>5, EmptySeq
  <2>2. k \in 0 .. Len(found) /\ 1 \in 1 .. k /\ 1 \in 1 .. Len(found)
    BY <2>1, LeastOfFour
  <2> HIDE DEF k
  <2>4. SubSeq(found, 1, k)[1] = found[1]
    BY <1>5, <2>2, FirstOf
  <2>5. found[1] \in A
    BY <1>5, <2>2, ElementOfSeq
  <2>3. << <<"info", "">> >>[1] = <<"info", "">> /\ <<"info", "">>[1] = "info"
    OBVIOUS
  <2> QED
    BY <1>4, <1>7, <2>3, <2>4, <2>5
<1>9. v.issues = {} /\ Blocked(v) = <<>>
  <2>1. v.issues = {}
    BY <1>3, <1>6, <1>8
  <2>2. Len(<<>>) = 0 /\ n = 0
    BY <1>2, <1>6, <1>8
  <2>3. Blocked(v) = <<>>
    BY <1>1, <2>2, EmptySeq DEF n
  <2> QED
    BY <2>1, <2>3
<1>10. Specs(w, "untracked") = {}
  <2> SUFFICES ASSUME NEW d \in Specs(w, "untracked") PROVE FALSE
    OBVIOUS
  <2>1. SpecIssues(w, d) # {}
    BY DEF Specs, SpecDrift
  <2>2. v.issues = w.lint
    BY LensIs
  <2> QED
    BY <1>9, <2>1, <2>2 DEF SpecIssues
<1>11. ~ \E t \in DOMAIN w.tasks : w.tasks[t].status = "blocked"
  BY <1>1, <1>9, ElementsOf
<1>12. v.step = NextStep(w)
  BY LensIs
<1> QED
  BY <1>10, <1>11, <1>12, NextStepIs

\* The panel against the state tool, for any workspace.
LEMMA PanelFollows ==
    ASSUME NEW w, DOMAIN w.tasks \subseteq Ids, NEW v, v = StatusLens(w), NEW link, NEW moved
    PROVE  LET tool == NextAction(v, link)
               seen == Snapshot(v, link, moved)
           IN  /\ tool.kind = "resume" <=> seen.source = "task"
               /\ seen.source = "task" => seen.about = tool.task
<1> DEFINE open == {t \in DOMAIN w.tasks : IsOpen(w, t)}
<1>1. v.resume = ResumeTask(w) /\ v.open = OpenTasks(w)
  BY LensIs
<1>2. Range(v.open) = open /\ "" \notin open
  BY <1>1, OpenTasksAre
<1>3. v.resume = "" \/ v.resume \in open
  BY <1>1, ResumeTaskIsOpen DEF IsOpen
<1> HIDE DEF open
<1>4. CASE link \in open
  <2>1. LinkedTask(v, link) = link /\ link # ""
    BY <1>2, <1>4 DEF LinkedTask
  <2>2. NextAction(v, link) = Step("resume", link)
    BY <1>2, <1>4 DEF NextAction
  <2>3. Snapshot(v, link, moved) = Focus("task", link)
    BY <2>1 DEF Snapshot
  <2> QED
    BY <2>2, <2>3 DEF Step, Focus
<1>5. CASE link \notin open /\ v.resume \in open
  <2>1. LinkedTask(v, link) = "" /\ v.resume # ""
    BY <1>2, <1>5 DEF LinkedTask
  <2>2. NextAction(v, link) = Step("resume", v.resume)
    BY <1>2, <1>5 DEF NextAction
  <2>3. Snapshot(v, link, moved) = Focus("task", v.resume)
    BY <2>1 DEF Snapshot, ResumeState
  <2> QED
    BY <2>2, <2>3 DEF Step, Focus
<1>6. CASE link \notin open /\ v.resume \notin open
  <2>1. LinkedTask(v, link) = "" /\ v.resume = ""
    BY <1>2, <1>3, <1>6 DEF LinkedTask
  <2>2. NextAction(v, link).kind # "resume"
    BY <1>2, <1>6 DEF NextAction, Step
  <2>3. Snapshot(v, link, moved).source # "task"
    BY <2>1 DEF Snapshot, ResumeState, Focus
  <2> QED
    BY <2>2, <2>3
<1> QED
  BY <1>4, <1>5, <1>6

\* The row under the cursor, of a column of n rows, and the rows drawn.
LEMMA CursorRow ==
    ASSUME NEW n \in Nat \ {0}, NEW row \in Nat, NEW at, at = Clamp(row, n),
           NEW top, top = IF at > 5 THEN at - 4 ELSE 1, NEW last, last = Least(top + 4, n)
    PROVE  /\ at \in 1 .. n /\ top \in 1 .. n /\ last \in 1 .. n /\ last - top + 1 \in Nat
           /\ at - top + 1 \in 1 .. (last - top + 1) /\ top + (at - top + 1) - 1 = at
BY DEF Clamp, Least

\* The task under the cursor is in the window of rows around it.
LEMMA CursorIsDrawn ==
    ASSUME NEW v, NEW stage, NEW row \in Nat
    PROVE  LET s == Selected(v, stage, row) IN s.task # "" => s.task \in Range(s.drawn)
<1> DEFINE ids == LiveColumn(v, stage)
           at == Clamp(row, Len(ids))
           top == IF at > 5 THEN at - 4 ELSE 1
           last == Least(top + 4, Len(ids))
           drawn == SubSeq(ids, top, last)
<1>1. ids \in Seq(Ids)
  BY KeptIs, TaskIdList DEF LiveColumn, Ids
<1>2. /\ Selected(v, stage, row).task = IF ids = <<>> THEN "" ELSE ids[at]
      /\ Selected(v, stage, row).drawn = drawn
  BY DEF Selected
<1>3. ASSUME ids # <<>> PROVE ids[at] \in Range(drawn)
  <2>1. Len(ids) \in Nat \ {0}
    BY <1>1, <1>3, EmptySeq
  <2>2. /\ at \in 1 .. Len(ids) /\ top \in 1 .. Len(ids) /\ last \in 1 .. Len(ids) /\ last - top + 1 \in Nat
        /\ at - top + 1 \in 1 .. (last - top + 1) /\ top + (at - top + 1) - 1 = at
    BY <2>1, CursorRow
  <2> HIDE DEF ids, at, top, last
  <2>3. \A i \in top .. last : ids[i] \in Ids
    <3>1. \A i \in top .. last : i \in 1 .. Len(ids)
      BY <2>1, <2>2
    <3> QED
      BY <1>1, <3>1, ElementOfSeq
  <2>4. /\ drawn \in Seq(Ids) /\ Len(drawn) = IF top <= last THEN last - top + 1 ELSE 0
        /\ \A i \in 1 .. last - top + 1 : drawn[i] = ids[top + i - 1]
    <3>1. top \in Int /\ last \in Int
      BY <2>2
    <3> QED
      BY <2>3, <3>1, SubSeqProperties
  <2>5. Len(drawn) = last - top + 1
    <3>1. top <= last
      BY <2>2
    <3> QED
      BY <2>4, <3>1
  <2>6. drawn[at - top + 1] = ids[at]
    BY <2>2, <2>4
  <2> HIDE DEF drawn
  <2>7. at - top + 1 \in 1 .. Len(drawn)
    BY <2>2, <2>5
  <2> QED
    BY <2>4, <2>6, <2>7, ElementsOf
<1> HIDE DEF ids, at, drawn
<1> QED
  BY <1>2, <1>3

\* The three lanes, in order.
LaneNames == {"product_system", "system_code", "product_system_ux"}

\* Each lane is in the order once.
LEMMA ThreeLanes ==
    /\ DOMAIN Lanes = LaneNames /\ Range(LaneOrder) = LaneNames
    /\ LaneOrder \in Seq(LaneNames) /\ Len(LaneOrder) = 3
    /\ IsFiniteSet(LaneNames) /\ Cardinality(LaneNames) = 3
<1>1. LaneOrder \in Seq(LaneNames) /\ Len(LaneOrder) = 3
  BY DEF LaneOrder, LaneNames
<1>2. LaneOrder[1] = "product_system" /\ LaneOrder[2] = "system_code" /\ LaneOrder[3] = "product_system_ux"
  BY DEF LaneOrder
<1>3. Range(LaneOrder) = {LaneOrder[i] : i \in 1 .. 3}
  BY <1>1, ElementsOf
<1>4. 1 .. 3 = {1, 2, 3}
  OBVIOUS
<1>5. Range(LaneOrder) = LaneNames
  BY <1>2, <1>3, <1>4 DEF LaneNames
<1>6. Once(LaneOrder)
  BY <1>1, <1>2, <1>4 DEF Once
<1>7. IsFiniteSet(Range(LaneOrder)) /\ Cardinality(Range(LaneOrder)) = 3
  BY <1>1, <1>6, OnceCounted
<1>8. DOMAIN Lanes = LaneNames
  BY DEF Lanes, LaneNames
<1> QED
  BY <1>1, <1>5, <1>7, <1>8

\* A lane is offered exactly if one of them is stale.
LEMMA LanesCounted ==
    ASSUME NEW v, NEW moved, NEW aged
    PROVE  ResumeLane(v, moved, aged) = "" <=> LaneCounts(v, moved, aged).fresh = Len(LaneOrder)
<1> DEFINE work == {l \in DOMAIN Lanes : LaneBasis(v, l, moved, aged) = "work"}
           stale == {l \in DOMAIN Lanes : LaneBasis(v, l, moved, aged) # "fresh"}
           fresh == {l \in DOMAIN Lanes : LaneBasis(v, l, moved, aged) = "fresh"}
           list == Kept(LaneOrder, work) \o Kept(LaneOrder, stale)
<1>1. /\ Kept(LaneOrder, work) \in Seq(LaneNames) /\ Range(Kept(LaneOrder, work)) = LaneNames \cap work
      /\ Kept(LaneOrder, stale) \in Seq(LaneNames) /\ Range(Kept(LaneOrder, stale)) = LaneNames \cap stale
  <2> HIDE DEF work, stale
  <2> QED
    BY ThreeLanes, KeptIs
<1>2. work \subseteq stale /\ stale = LaneNames \ fresh /\ fresh \subseteq LaneNames
  BY ThreeLanes
<1>3. ResumeLane(v, moved, aged) = IF list = <<>> THEN "" ELSE list[1]
  BY DEF ResumeLane, Or
<1>4. LaneCounts(v, moved, aged).fresh = Cardinality(fresh)
  BY DEF LaneCounts
<1> HIDE DEF work, stale, fresh
<1>5. list \in Seq(LaneNames) /\ Range(list) = stale
  <2>1. list \in Seq(LaneNames) /\ Range(list) = (LaneNames \cap work) \cup (LaneNames \cap stale)
    BY <1>1, JoinedIs
  <2> QED
    BY <1>2, <2>1
<1> HIDE DEF list
<1>6. list = <<>> <=> stale = {}
  BY <1>5, ElementsOf
<1>7. list # <<>> => list[1] \in LaneNames
  BY <1>5, ElementsOf
<1>8. ResumeLane(v, moved, aged) = "" <=> stale = {}
  BY <1>3, <1>6, <1>7 DEF LaneNames
<1>9. Cardinality(fresh) = 3 <=> fresh = LaneNames
  BY <1>2, ThreeLanes, FS_Subset
<1>10. stale = {} <=> fresh = LaneNames
  BY <1>2
<1> QED
  BY <1>4, <1>8, <1>9, <1>10, ThreeLanes

\* A list given by what is at each of its n positions has n elements.
LEMMA ListLength ==
    ASSUME NEW n \in Nat, NEW list, list = [i \in 1 .. n |-> list[i]]
    PROVE  Len(list) = n
<1> DEFINE A == {list[i] : i \in 1 .. n}
<1>1. list \in [1 .. n -> A]
  OBVIOUS
<1> HIDE DEF A
<1>2. list \in Seq(A)
  BY <1>1, SeqDef
<1>3. Len(list) \in Nat /\ DOMAIN list = 1 .. Len(list)
  BY <1>2, LenProperties
<1>4. 1 .. Len(list) = 1 .. n
  BY <1>1, <1>3
<1> QED
  BY <1>3, <1>4, SameBound

\* One line for each open task, the linked one first.
LEMMA LinesAre ==
    ASSUME NEW w, DOMAIN w.tasks \subseteq Ids, NEW v, v = StatusLens(w), NEW link
    PROVE  LET lines == WorkingLines(v, link, Len(TaskIds)) IN
           /\ v.open # <<>> => Len(lines) = Len(v.open)
           /\ LinkedTask(v, link) # "" => lines[1] = <<"Focused", StatusSummary(v, link, {})>>
<1> DEFINE ids == WorkingSet(v, link)
           limit == Len(TaskIds)
           shown == SubSeq(ids, 1, Least(Len(ids), limit))
           lines == WorkingLines(v, link, limit)
           open == {t \in DOMAIN w.tasks : IsOpen(w, t)}
<1>1. /\ ids \in Seq(Ids) /\ Once(ids) /\ Range(ids) = open
      /\ LinkedTask(v, link) # "" => LinkedTask(v, link) = link /\ link \in open /\ ids[1] = link
  <2>1. /\ ids \in Seq(Ids) /\ Once(ids) /\ Range(ids) = open
        /\ LinkedTask(v, link) # "" => LinkedTask(v, link) = link /\ IsOpen(w, link) /\ ids[1] = link
    BY WorkingSetIs
  <2>2. IsOpen(w, link) => link \in open
    BY DEF IsOpen
  <2> QED
    BY <2>1, <2>2
<1>2. v.open \in Seq(Ids) /\ Once(v.open) /\ Range(v.open) = open
  <2>1. v.open = OpenTasks(w)
    BY LensIs
  <2> QED
    BY <2>1, OpenTasksAre
<1>3. TaskIds \in Seq(Ids) /\ Once(TaskIds) /\ Range(TaskIds) = Ids /\ open \subseteq Ids
  BY TaskIdList DEF Ids, Once
<1>4. lines = IF ids = <<>> THEN << <<IF v.done # {} THEN "clear" ELSE "none", "">> >>
              ELSE [i \in 1 .. Len(shown) |-> <<WorkingLine(v, link, shown[i], i), shown[i]>>]
  BY DEF WorkingLines
<1> HIDE DEF ids, open, lines
<1>5. /\ Len(ids) \in Nat /\ Len(v.open) \in Nat /\ limit \in Nat
      /\ Len(ids) =< Len(v.open) /\ Len(v.open) =< Len(ids) /\ Len(ids) =< limit
  BY <1>1, <1>2, <1>3, OnceLengths, LenProperties
<1> HIDE DEF limit
<1>6. Len(ids) = Len(v.open) /\ Least(Len(ids), limit) = Len(ids)
  BY <1>5 DEF Least
<1>7. Len(shown) = Len(ids) /\ \A i \in 1 .. Len(ids) : shown[i] = ids[i]
  <2>1. Len(ids) \in 0 .. Len(ids)
    BY <1>5
  <2> QED
    BY <1>1, <1>6, <2>1, FirstOf
<1>8. ids # <<>> <=> open # {}
  BY <1>1, ElementsOf
<1>9. v.open # <<>> <=> open # {}
  BY <1>2, ElementsOf
<1>10. ids # <<>> => 1 \in 1 .. Len(ids)
  BY <1>1, ElementsOf
<1> HIDE DEF shown
<1>11. ids # <<>> => Len(lines) = Len(ids)
  <2> DEFINE list == [i \in 1 .. Len(ids) |-> <<WorkingLine(v, link, shown[i], i), shown[i]>>]
  <2>1. list = [i \in 1 .. Len(ids) |-> list[i]]
    OBVIOUS
  <2>2. ids # <<>> => lines = list
    BY <1>4, <1>7
  <2> HIDE DEF list
  <2>3. Len(list) = Len(ids)
    BY <1>5, <2>1, ListLength
  <2> QED
    BY <2>2, <2>3
<1>12. ASSUME LinkedTask(v, link) # ""
       PROVE  lines[1] = <<"Focused", StatusSummary(v, link, {})>>
  <2>1. LinkedTask(v, link) = link /\ ids[1] = link /\ ids # <<>>
    BY <1>1, <1>8, <1>12
  <2>2. lines[1] = <<WorkingLine(v, link, shown[1], 1), shown[1]>>
    BY <1>4, <1>7, <1>10, <2>1
  <2>3. shown[1] = link
    BY <1>7, <1>10, <2>1
  <2>4. WorkingLine(v, link, link, 1) = "Focused"
    BY <2>1 DEF WorkingLine
  <2>5. StatusSummary(v, link, {}) = link
    BY <1>12 DEF StatusSummary, Snapshot, Focus
  <2> QED
    BY <2>2, <2>3, <2>4, <2>5
<1> QED
  BY <1>6, <1>8, <1>9, <1>11, <1>12 DEF lines, limit

-----------------------------------------------------------------------------
(* The items of a workspace of finitely many files *)

\* Finitely many files, tasks, issues and mapped paths.
FiniteWorkspace(w) ==
    /\ IsFiniteSet(DOMAIN w.builds) /\ IsFiniteSet(DOMAIN w.reports) /\ IsFiniteSet(DOMAIN w.tasks)
    /\ IsFiniteSet(w.dirty) /\ IsFiniteSet(w.lint) /\ IsFiniteSet(DOMAIN w.docs)
    /\ \A d \in DOMAIN w.docs : IsFiniteSet(w.docs[d])

\* What a function makes of a finite set.
LEMMA FiniteImage ==
    ASSUME NEW f, NEW S, S \subseteq DOMAIN f, IsFiniteSet(S)
    PROVE  IsFiniteSet({f[x] : x \in S})
<1> DEFINE T == {f[x] : x \in S}
           g == [x \in S |-> f[x]]
<1>1. g \in [S -> T] /\ \A t \in T : \E x \in S : g[x] = t
  OBVIOUS
<1>2. g \in Surjection(S, T)
  BY <1>1 DEF Surjection
<1> QED
  BY <1>2, FS_Surjection

\* A set whose members are each about a member of a finite set, one each.
LEMMA FiniteItems ==
    ASSUME NEW S, IsFiniteSet(S), NEW T, NEW f, f = [x \in S |-> f[x]],
           \A i \in T : \E x \in S : i = f[x]
    PROVE  IsFiniteSet(T)
<1>1. IsFiniteSet({f[x] : x \in S})
  BY FiniteImage
<1>2. T \subseteq {f[x] : x \in S}
  OBVIOUS
<1> QED
  BY <1>1, <1>2, FS_Subset

\* Then there are finitely many reconciliation items: each is about one of these.
LEMMA ItemsAreFinite ==
    ASSUME NEW w, FiniteWorkspace(w)
    PROVE  IsFiniteSet(Items(w))
<1> USE DEF FiniteWorkspace
<1>1. IsFiniteSet(BuildItems(w))
  <2> DEFINE f == [p \in DOMAIN w.builds |-> Item("build", p, BuildLoop(w, p), "drift", BuildLayers(w, p))]
  <2>1. \A i \in BuildItems(w) : \E p \in DOMAIN w.builds : i = f[p]
    BY DEF BuildItems
  <2>2. f = [p \in DOMAIN w.builds |-> f[p]]
    OBVIOUS
  <2> HIDE DEF f
  <2> QED
    BY <2>1, <2>2, FiniteItems
<1>2. IsFiniteSet(PublicationItems(w))
  <2> DEFINE f == [p \in DOMAIN w.builds |->
                     Item("publication-proof", p, "validation", "drift", {"publication", "content_proof"})]
  <2>1. \A i \in PublicationItems(w) : \E p \in DOMAIN w.builds : i = f[p]
    BY DEF PublicationItems
  <2>2. f = [p \in DOMAIN w.builds |-> f[p]]
    OBVIOUS
  <2> HIDE DEF f
  <2> QED
    BY <2>1, <2>2, FiniteItems
<1>3. IsFiniteSet(SemanticItems(w))
  <2> DEFINE f == [p \in w.dirty |->
                     Item("semantic-build", p, SemanticLoop[SemanticType(p)], "drift",
                          {IF SemanticType(p) = "code" THEN "code"
                           ELSE IF SemanticType(p) = "task" THEN "roadmap" ELSE "knowledge", "build"})]
  <2>1. \A i \in SemanticItems(w) : \E p \in w.dirty : i = f[p]
    BY DEF SemanticItems
  <2>2. f = [p \in w.dirty |-> f[p]]
    OBVIOUS
  <2> HIDE DEF f
  <2> QED
    BY <2>1, <2>2, FiniteItems
<1>4. IsFiniteSet(TraceItems(w))
  <2> DEFINE f == [p \in DOMAIN w.builds |-> TraceItem(p, TraceGaps(w, p))]
  <2>1. \A i \in TraceItems(w) : \E p \in DOMAIN w.builds : i = f[p]
    BY DEF TraceItems, OfKind
  <2>2. f = [p \in DOMAIN w.builds |-> f[p]]
    OBVIOUS
  <2> HIDE DEF f
  <2> QED
    BY <2>1, <2>2, FiniteItems
<1>5. IsFiniteSet(ReportItems(w))
  <2> DEFINE f == [v \in DOMAIN w.reports |->
                     IF w.reports[v].verdict = "block"
                     THEN Item("validation", v, "feedback", "blocked", {"validation", "feedback"})
                     ELSE Item("validation", v, "documentation", "drift", {"validation", "documentation"})]
  <2>1. \A i \in ReportItems(w) : \E v \in DOMAIN w.reports : i = f[v]
    BY DEF ReportItems
  <2>2. f = [v \in DOMAIN w.reports |-> f[v]]
    OBVIOUS
  <2> HIDE DEF f
  <2> QED
    BY <2>1, <2>2, FiniteItems
<1>6. IsFiniteSet(LintItems(w))
  <2> DEFINE f == [i \in w.lint |-> Item("lint", i.path, "documentation", "drift", {"knowledge", "roadmap"})]
  <2>1. \A i \in LintItems(w) : \E j \in w.lint : i = f[j]
    BY DEF LintItems
  <2>2. f = [i \in w.lint |-> f[i]]
    OBVIOUS
  <2> HIDE DEF f
  <2> QED
    BY <2>1, <2>2, FiniteItems
<1>7. IsFiniteSet(TaskItems(w))
  <2> DEFINE f == [t \in DOMAIN w.tasks |->
                     Item("task", <<t>>, "implementation",
                          IF w.tasks[t].status = "blocked" THEN "blocked" ELSE "drift", {"roadmap", "code"})]
  <2>1. \A i \in TaskItems(w) : \E t \in DOMAIN w.tasks : i = f[t]
    BY DEF TaskItems
  <2>2. f = [t \in DOMAIN w.tasks |-> f[t]]
    OBVIOUS
  <2> HIDE DEF f
  <2> QED
    BY <2>1, <2>2, FiniteItems
<1>8. IsFiniteSet(CodeItems(w))
  <2> DEFINE docs == {w.docs[d] : d \in DOMAIN w.docs}
             f == [c \in UNION docs |-> Item("code", c, "documentation", "drift", {"code", "knowledge"})]
  <2>1. IsFiniteSet(docs)
    BY FiniteImage
  <2>2. IsFiniteSet(UNION docs)
    BY <2>1, FS_UNION
  <2>3. MappedCode(w) = UNION docs
    BY DEF MappedCode, Union
  <2>4. \A i \in CodeItems(w) : \E c \in UNION docs : i = f[c]
    BY <2>3 DEF CodeItems
  <2>5. f = [c \in UNION docs |-> f[c]]
    OBVIOUS
  <2> HIDE DEF f, docs
  <2> QED
    BY <2>2, <2>4, <2>5, FiniteItems
<1> QED
  BY <1>1, <1>2, <1>3, <1>4, <1>5, <1>6, <1>7, <1>8, FS_Union DEF Items

\* A path with a layer is in one of four.
LEMMA SemanticTypes ==
    ASSUME NEW p, SemanticType(p) # "none"
    PROVE  SemanticType(p) \in {"product", "system", "task", "code"}
<1> DEFINE S == {i \in 1 .. Len(SemanticRoots) : IsPrefix(SemanticRoots[i].root, p)}
           k == SelectInSeq(SemanticRoots, LAMBDA r : IsPrefix(r.root, p))
<1>1. k = IF S # {} THEN Min(S) ELSE 0
  BY DEF SelectInSeq
<1>2. k # 0 /\ SemanticType(p) = SemanticRoots[k].type
  BY DEF SemanticType
<1>3. Len(SemanticRoots) = 14
  BY DEF SemanticRoots
<1> HIDE DEF k
<1>4. S \subseteq 1 .. 14
  BY <1>3
<1> HIDE DEF S
<1>5. S # {} /\ k = Min(S)
  BY <1>1, <1>2
<1>6. Min(S) \in S
  <2>1. S \subseteq Nat
    BY <1>4
  <2> QED
    BY <1>5, <2>1, LeastIsThere
<1>7. k \in 1 .. 14
  BY <1>4, <1>5, <1>6
<1>8. \A i \in 1 .. 14 : SemanticRoots[i].type \in {"product", "system", "task", "code"}
  BY DEF SemanticRoots
<1> QED
  BY <1>2, <1>7, <1>8

\* Every item asks for one of the first five loops.
LEMMA ItemsAsk ==
    ASSUME NEW w, NEW it \in Items(w)
    PROVE  \E j \in 1 .. 5 : it.loop = Loops[j]
<1> DEFINE asks == {"feedback", "documentation", "planning", "implementation", "validation"}
<1>1. \A l \in asks : \E j \in 1 .. 5 : l = Loops[j]
  BY DEF Loops
<1>2. CASE it \in BuildItems(w)
  <2>1. PICK p \in DOMAIN w.builds : it.loop = BuildLoop(w, p) /\ BuildLoop(w, p) # "observe"
    BY <1>2 DEF BuildItems, Item
  <2>2. BuildLoop(w, p) \in asks
    BY <2>1 DEF BuildLoop
  <2> QED
    BY <1>1, <2>1, <2>2
<1>3. CASE it \in PublicationItems(w) \cup LintItems(w) \cup TaskItems(w) \cup CodeItems(w)
  <2>1. it.loop \in asks
    BY <1>3 DEF PublicationItems, LintItems, TaskItems, CodeItems, Item
  <2> QED
    BY <1>1, <2>1
<1>4. CASE it \in SemanticItems(w)
  <2>1. PICK p \in w.dirty : it.loop = SemanticLoop[SemanticType(p)] /\ SemanticType(p) # "none"
    BY <1>4 DEF SemanticItems, Item
  <2>2. it.loop \in asks
    BY <2>1, SemanticTypes DEF SemanticLoop
  <2> QED
    BY <1>1, <2>2
<1>5. CASE it \in TraceItems(w)
  <2>1. PICK f : it.loop = TraceLoop(TraceGaps(w, f))
    BY <1>5 DEF TraceItems, TraceItem, Item
  <2>2. it.loop \in asks
    BY <2>1 DEF TraceLoop
  <2> QED
    BY <1>1, <2>2
<1>6. CASE it \in ReportItems(w)
  <2>1. it.loop \in asks
    BY <1>6 DEF ReportItems, Item
  <2> QED
    BY <1>1, <2>1
<1> QED
  BY <1>2, <1>3, <1>4, <1>5, <1>6 DEF Items

\* There is something to reconcile exactly if a loop is to be run.
LEMMA ItemsRun ==
    ASSUME NEW w
    PROVE  Items(w) # {} <=> NextLoop(w) # "observe"
<1>1. Items(w) # {} => NextLoop(w) # "observe"
  BY ItemsAsk, AskedLoopIsRun
<1>2. Items(w) = {} => NextLoop(w) = "observe"
  <2> SUFFICES ASSUME Items(w) = {} PROVE NextLoop(w) = "observe"
    OBVIOUS
  <2> DEFINE needed == {i.loop : i \in Items(w)}
             S == {i \in 1 .. Len(Loops) : Loops[i] \in needed}
  <2>1. S = {}
    OBVIOUS
  <2>2. NextLoop(w) = IF (IF S # {} THEN Min(S) ELSE 0) = 0 THEN "observe"
                      ELSE Loops[IF S # {} THEN Min(S) ELSE 0]
    BY DEF NextLoop, SelectInSeq
  <2> QED
    BY <2>1, <2>2
<1> QED
  BY <1>1, <1>2

-----------------------------------------------------------------------------
(* The control room *)

\* Open, read off the status, is the open tasks of the lens.
LEMMA ControlOpenIs ==
    ASSUME NEW w, TasksKnown(w.tasks), NEW v, v = StatusLens(w)
    PROVE  /\ ControlOpen(v) = {t \in DOMAIN w.tasks : IsOpen(w, t)}
           /\ ControlOpen(v) = Range(v.open)
           /\ ControlOpen(v) \subseteq Visible(w).tasks
<1>1. v.open = OpenTasks(w) /\ v.status = [t \in DOMAIN w.tasks |-> w.tasks[t].status]
  BY LensIs
<1>2. Range(v.open) = {t \in DOMAIN w.tasks : IsOpen(w, t)}
  BY <1>1, OpenTasksAre DEF TasksKnown
<1>3. ControlOpen(v) = {t \in DOMAIN w.tasks : w.tasks[t].status \notin {"done", "cancelled", "closed"}}
  BY <1>1 DEF ControlOpen
<1>4. ControlOpen(v) = {t \in DOMAIN w.tasks : IsOpen(w, t)}
  BY <1>3 DEF TasksKnown, Statuses, IsOpen, OpenStatuses
<1>5. Visible(w).tasks = {t \in DOMAIN w.tasks : w.tasks[t].status \notin {"done", "cancelled", "closed"}}
  BY DEF Visible
<1> QED
  BY <1>2, <1>3, <1>4, <1>5

\* The board has room for what is being worked on.
LEMMA BoardHasRoom ==
    ASSUME NEW w, TasksKnown(w.tasks), NEW v, v = StatusLens(w), Len(v.open) <= 12
    PROVE  Range(LiveColumn(v, "implement")) \subseteq Range(Board(v, w).tasks)
<1> DEFINE open == {t \in DOMAIN w.tasks : IsOpen(w, t)}
           ids == Kept(TaskIds, ControlOpen(v))
           S == {t \in DOMAIN v.status : v.status[t] # "cancelled" /\ Stage(v.status[t]) = "implement"}
<1>1. v.open = OpenTasks(w) /\ v.status = [t \in DOMAIN w.tasks |-> w.tasks[t].status]
  BY LensIs
<1>2. v.open \in Seq(Ids) /\ Once(v.open) /\ Range(v.open) = open /\ open \subseteq Ids
  <2>1. DOMAIN w.tasks \subseteq Ids
    BY DEF TasksKnown
  <2> QED
    BY <1>1, <2>1, OpenTasksAre
<1>3. TaskIds \in Seq(Ids) /\ Once(TaskIds) /\ Range(TaskIds) = Ids
  BY TaskIdList DEF Ids, Once
<1>4. ControlOpen(v) = open
  BY ControlOpenIs
<1>5. S \subseteq open
  BY <1>1 DEF Stage, TasksKnown, Statuses, IsOpen, OpenStatuses
<1>6. LiveColumn(v, "implement") = Kept(TaskIds, S)
  BY DEF LiveColumn
<1>7. Board(v, w).tasks = SubSeq(ids, 1, Least(12, Len(ids)))
  BY DEF Board
<1> HIDE DEF open, S
<1>8. ids \in Seq(Ids) /\ Once(ids) /\ Range(ids) = open
  <2>1. ids \in Seq(Ids) /\ Once(ids) /\ Range(ids) = Range(TaskIds) \cap ControlOpen(v)
    BY <1>3, KeptIs
  <2> QED
    BY <1>2, <1>3, <1>4, <2>1
<1>9. Range(LiveColumn(v, "implement")) \subseteq open
  BY <1>3, <1>5, <1>6, KeptIs
<1> HIDE DEF ids
<1>10. /\ Len(ids) \in Nat /\ Len(v.open) \in Nat /\ Len(ids) <= Len(v.open)
  BY <1>2, <1>8, OnceLengths, LenProperties
<1>11. Least(12, Len(ids)) = Len(ids)
  BY <1>10 DEF Least
<1>12. Range(SubSeq(ids, 1, Len(ids))) = Range(ids)
  <2>1. Len(ids) \in 0 .. Len(ids)
    BY <1>10
  <2> QED
    BY <1>8, <2>1, FirstOf
<1> QED
  BY <1>7, <1>8, <1>9, <1>11, <1>12

\* What it calls next is open.
LEMMA ControlNext ==
    ASSUME NEW w, TasksKnown(w.tasks), NEW v, v = StatusLens(w)
    PROVE  Overview(v, w).next # "" => Overview(v, w).next \in ControlOpen(v)
<1>1. v.resume = "" \/ v.resume \in ControlOpen(v)
  <2>1. v.resume = "" \/ IsOpen(w, v.resume)
    <3>1. v.resume = ResumeTask(w) /\ DOMAIN w.tasks \subseteq Ids
      BY LensIs DEF TasksKnown
    <3> QED
      BY <3>1, ResumeTaskIsOpen
  <2> QED
    BY <2>1, ControlOpenIs DEF IsOpen
<1>2. Todo(v) # <<>> => Todo(v)[1] \in ControlOpen(v)
  <2>1. Todo(v) \in Seq(Ids) /\ Range(Todo(v)) = {t \in DOMAIN w.tasks : w.tasks[t].status = "todo"}
    BY PanelTasks DEF TasksKnown
  <2>2. Range(Todo(v)) \subseteq ControlOpen(v)
    BY <2>1, ControlOpenIs DEF IsOpen, OpenStatuses
  <2> QED
    BY <2>1, <2>2, ElementsOf
<1>3. Overview(v, w).next = IF v.resume # "" THEN v.resume ELSE Or(Todo(v), "")
  BY DEF Overview
<1> QED
  BY <1>1, <1>2, <1>3 DEF Or

-----------------------------------------------------------------------------
(* Every surface, in every state *)

\* Tasks are known, on disk or on their way there.
QueueKnown ==
    /\ TasksKnown(files.tasks)
    /\ \A h \in Handlers : Pends(call[h]) /\ call[h].kind = "tasks" => TasksKnown(call[h].data.tasks)

\* There are finitely many files.
FilesFinite ==
    /\ IsFiniteSet(DOMAIN files.builds) /\ IsFiniteSet(DOMAIN files.reports)
    /\ IsFiniteSet(dirty) /\ IsFiniteSet(files.lint) /\ IsFiniteSet(DOMAIN files.docs)
    /\ \A d \in DOMAIN files.docs : IsFiniteSet(files.docs[d])

\* The invariant under which every surface says what the files say.
SurfaceInv == Shape /\ FilesHeld /\ QueueKnown /\ FilesFinite

\* The seeds are as finite and as well known as they are assumed to be.
LEMMA SurfaceInit == Init => SurfaceInv
<1> SUFFICES ASSUME Init PROVE SurfaceInv
  OBVIOUS
<1>1. PICK s \in Seeds : files = s.files
  BY DEF Init
<1>2. Shape
  BY ShapeInit
<1>3. FilesHeld
  BY <1>1, SeedFiles DEF FilesHeld
<1>4. \A h \in Handlers : ~Pends(call[h])
  BY DEF Init, Idle, Pends
<1>5. TasksKnown(files.tasks)
  BY <1>1, SeedTasks DEF TasksKnown, Ids
<1>6. IsFiniteSet(dirty)
  BY FS_EmptySet DEF Init
<1>7. FilesFinite
  BY <1>1, <1>6, SeedsAreFinite DEF FilesFinite
<1> QED
  BY <1>2, <1>3, <1>4, <1>5, <1>7 DEF SurfaceInv, QueueKnown

\* What the files hold after a step: one file more or less of each kind, tasks
\* that are known, and the documents and lint issues of the seed.
LEMMA FilesBecome ==
    ASSUME SurfaceInv, [Next]_vars
    PROVE  /\ FilesHeld' /\ TasksKnown(files'.tasks)
           /\ files'.docs = files.docs /\ files'.lint = files.lint
           /\ \E p : DOMAIN files'.builds \subseteq DOMAIN files.builds \cup {p}
           /\ \E p : DOMAIN files'.reports \subseteq DOMAIN files.reports \cup {p}
<1> USE DEF SurfaceInv
<1>1. CASE files' = files
  BY <1>1 DEF FilesHeld, QueueKnown
<1>2. ASSUME NEW h \in Handlers, call[h].phase = "fill", files' = Landed(call[h]), call[h].kind = "tasks"
      PROVE  /\ FilesHeld' /\ files'.tasks = call[h].data.tasks
             /\ files'.docs = files.docs /\ files'.lint = files.lint
             /\ files'.builds = files.builds /\ files'.reports = files.reports
  BY <1>2 DEF FilesHeld, Landed
<1>3. ASSUME NEW h \in Handlers, call[h].phase = "fill", files' = Landed(call[h]), call[h].kind = "tasks"
      PROVE  TasksKnown(files'.tasks)
  <2>1. TasksKnown(call[h].data.tasks)
    BY <1>3 DEF QueueKnown, Pends
  <2>2. files'.tasks = call[h].data.tasks
    BY <1>2, <1>3
  <2> QED
    BY <2>1, <2>2
<1>4. ASSUME NEW h \in Handlers, files' = Landed(call[h]), call[h].kind = "builds"
      PROVE  /\ FilesHeld' /\ files'.tasks = files.tasks
             /\ files'.docs = files.docs /\ files'.lint = files.lint
             /\ files'.builds = Put(files.builds, call[h].path, call[h].data)
             /\ files'.reports = files.reports
  BY <1>4 DEF FilesHeld, Landed
<1>5. ASSUME NEW h \in Handlers, files' = Landed(call[h]), call[h].kind \notin {"tasks", "builds"}
      PROVE  /\ FilesHeld' /\ files'.tasks = files.tasks
             /\ files'.docs = files.docs /\ files'.lint = files.lint
             /\ files'.builds = files.builds
             /\ files'.reports = Put(files.reports, call[h].path, call[h].data)
  BY <1>5 DEF FilesHeld, Landed
<1>6. ASSUME NEW p, files' = [files EXCEPT !.builds = Without(@, p), !.reports = Without(@, p)]
      PROVE  /\ FilesHeld' /\ files'.tasks = files.tasks
             /\ files'.docs = files.docs /\ files'.lint = files.lint
             /\ files'.builds = Without(files.builds, p) /\ files'.reports = Without(files.reports, p)
  BY <1>6 DEF FilesHeld
<1>7. TasksKnown(files.tasks)
  BY DEF QueueKnown
<1> DEFINE Grows(f, g) == \E p : DOMAIN g \subseteq DOMAIN f \cup {p}
<1>8. \A f : Grows(f, f) /\ \A p : Grows(f, Without(f, p)) /\ \A v : Grows(f, Put(f, p, v))
  <2> TAKE f
  <2>1. Grows(f, f)
    OBVIOUS
  <2>2. ASSUME NEW p PROVE Grows(f, Without(f, p))
    BY DEF Without
  <2>3. ASSUME NEW p, NEW v PROVE Grows(f, Put(f, p, v))
    BY DEF Put
  <2> QED
    BY <2>1, <2>2, <2>3
<1>9. \/ files' = files
      \/ \E h \in Handlers : call[h].phase = "fill" /\ files' = Landed(call[h])
      \/ \E p : files' = [files EXCEPT !.builds = Without(@, p), !.reports = Without(@, p)]
  BY FilesComeFrom
<1> HIDE DEF Grows
<1>10. ASSUME NEW h \in Handlers, call[h].phase = "fill", files' = Landed(call[h])
       PROVE  /\ FilesHeld' /\ TasksKnown(files'.tasks)
              /\ files'.docs = files.docs /\ files'.lint = files.lint
              /\ Grows(files.builds, files'.builds) /\ Grows(files.reports, files'.reports)
  <2>1. CASE call[h].kind = "tasks"
    <3>1. TasksKnown(files'.tasks)
      BY <1>3, <1>10, <2>1
    <3>2. /\ FilesHeld' /\ files'.docs = files.docs /\ files'.lint = files.lint
          /\ files'.builds = files.builds /\ files'.reports = files.reports
      BY <1>2, <1>10, <2>1
    <3>3. Grows(files.builds, files.builds) /\ Grows(files.reports, files.reports)
      BY <1>8
    <3> QED
      BY <3>1, <3>2, <3>3
  <2>2. CASE call[h].kind = "builds"
    <3>1. Grows(files.builds, Put(files.builds, call[h].path, call[h].data)) /\ Grows(files.reports, files.reports)
      BY <1>8
    <3>2. /\ FilesHeld' /\ files'.tasks = files.tasks
          /\ files'.docs = files.docs /\ files'.lint = files.lint
          /\ files'.builds = Put(files.builds, call[h].path, call[h].data)
          /\ files'.reports = files.reports
      BY <1>4, <1>10, <2>2
    <3> QED
      BY <1>7, <3>1, <3>2
  <2>3. CASE call[h].kind \notin {"tasks", "builds"}
    BY <1>5, <1>7, <1>8, <1>10, <2>3
  <2> QED
    BY <2>1, <2>2, <2>3
<1>11. ASSUME NEW p, files' = [files EXCEPT !.builds = Without(@, p), !.reports = Without(@, p)]
       PROVE  /\ FilesHeld' /\ TasksKnown(files'.tasks)
              /\ files'.docs = files.docs /\ files'.lint = files.lint
              /\ Grows(files.builds, files'.builds) /\ Grows(files.reports, files'.reports)
  BY <1>6, <1>7, <1>8, <1>11
<1>12. /\ FilesHeld' /\ TasksKnown(files'.tasks)
       /\ files'.docs = files.docs /\ files'.lint = files.lint
       /\ Grows(files.builds, files'.builds) /\ Grows(files.reports, files'.reports)
  BY <1>1, <1>8, <1>9, <1>10, <1>11
<1> QED
  BY <1>12 DEF Grows

\* A step makes git list one more file at most.
LEMMA OneMoreDirty ==
    ASSUME Shape, [Next]_vars
    PROVE  \E p : dirty' \subseteq dirty \cup {p}
<1>1. ASSUME NEW p, Touch(p) PROVE \E q : dirty' \subseteq dirty \cup {q}
  BY <1>1 DEF Touch
<1>2. CASE dirty' = dirty \/ dirty' = {}
  BY <1>2
<1>3. CASE Begins \/ UNCHANGED vars
  BY <1>2, <1>3 DEF Begins, vars
<1>4. ASSUME NEW h \in Handlers, Truncate(h) \/ Fill(h) \/ Rebuild(h)
      PROVE  \E q : dirty' \subseteq dirty \cup {q}
  BY <1>1, <1>2, <1>4 DEF Truncate, Fill, Rebuild
<1>5. CASE PurgeStart \/ PurgeOpen \/ PurgeLedger \/ PurgeDelete \/ PurgeEnd
  BY <1>1, <1>2, <1>5 DEF PurgeStart, PurgeOpen, PurgeLedger, PurgeDelete, PurgeEnd
<1>6. CASE ApplyOp \/ FailOp \/ CliRead \/ CliStore
  BY <1>1, <1>2, <1>6 DEF ApplyOp, FailOp, CliRead, CliStore
<1>7. CASE Edit \/ Commit \/ Crash
  BY <1>2, <1>7 DEF Edit, Commit, Crash
<1> QED
  BY <1>3, <1>4, <1>5, <1>6, <1>7, CallsBegin DEF Next

\* One more element at most keeps a set finite.
LEMMA FiniteGrowth ==
    ASSUME NEW S, NEW T, IsFiniteSet(S), \E p : T \subseteq S \cup {p}
    PROVE  IsFiniteSet(T)
<1>1. PICK p : T \subseteq S \cup {p}
  OBVIOUS
<1>2. IsFiniteSet(S \cup {p})
  BY FS_AddElement
<1> QED
  BY <1>1, <1>2, FS_Subset

\* No step brings an unknown task or makes the files infinite, whatever each
\* handler read before the others went on.
LEMMA SurfaceStep == SurfaceInv /\ [Next]_vars => SurfaceInv'
<1> SUFFICES ASSUME SurfaceInv, [Next]_vars PROVE SurfaceInv'
  OBVIOUS
<1>1. Shape'
  BY ShapeStep DEF SurfaceInv
<1>2. ASSUME NEW h \in Handlers, Pends(call'[h]), call'[h].kind = "tasks"
      PROVE  TasksKnown(call'[h].data.tasks)
  <2>1. \/ Pends(call[h]) /\ call'[h].kind = call[h].kind /\ call'[h].data = call[h].data
        \/ KeepsTasks(call'[h].data)
    <3>1. Shape
      BY DEF SurfaceInv
    <3> QED
      BY <1>2, <3>1, PendingComesFrom
  <2>2. CASE Pends(call[h]) /\ call'[h].kind = call[h].kind /\ call'[h].data = call[h].data
    BY <1>2, <2>2 DEF SurfaceInv, QueueKnown
  <2>3. CASE KeepsTasks(call'[h].data)
    BY <2>3 DEF SurfaceInv, QueueKnown, KeepsTasks
  <2> QED
    BY <2>1, <2>2, <2>3
<1>3. QueueKnown'
  <2>1. TasksKnown(files'.tasks)
    BY FilesBecome
  <2> QED
    BY <1>2, <2>1 DEF QueueKnown, Pends, TasksKnown, Ids, Statuses, OpenStatuses
<1>4. /\ IsFiniteSet(DOMAIN files'.builds) /\ IsFiniteSet(DOMAIN files'.reports)
      /\ IsFiniteSet(dirty')
  <2>1. /\ \E p : DOMAIN files'.builds \subseteq DOMAIN files.builds \cup {p}
        /\ \E p : DOMAIN files'.reports \subseteq DOMAIN files.reports \cup {p}
    BY FilesBecome
  <2>2. \E p : dirty' \subseteq dirty \cup {p}
    BY OneMoreDirty DEF SurfaceInv
  <2>3. IsFiniteSet(DOMAIN files.builds) /\ IsFiniteSet(DOMAIN files.reports) /\ IsFiniteSet(dirty)
    BY DEF SurfaceInv, FilesFinite
  <2>4. IsFiniteSet(DOMAIN files'.builds)
    BY <2>1, <2>3, FiniteGrowth
  <2>5. IsFiniteSet(DOMAIN files'.reports)
    BY <2>1, <2>3, FiniteGrowth
  <2>6. IsFiniteSet(dirty')
    BY <2>2, <2>3, FiniteGrowth
  <2> QED
    BY <2>4, <2>5, <2>6
<1>5. FilesFinite'
  <2>1. files'.docs = files.docs /\ files'.lint = files.lint
    BY FilesBecome
  <2> QED
    BY <1>4, <2>1 DEF SurfaceInv, FilesFinite
<1>6. FilesHeld'
  BY FilesBecome
<1> QED
  BY <1>1, <1>3, <1>5, <1>6 DEF SurfaceInv

\* The workspace has known tasks and finitely many files.
LEMMA WorkspaceIs ==
    ASSUME SurfaceInv
    PROVE  /\ TasksKnown(W.tasks) /\ DOMAIN W.tasks \subseteq Ids
           /\ W.tasks = files.tasks /\ FiniteWorkspace(W)
<1>1. /\ W.builds = files.builds /\ W.reports = files.reports /\ W.tasks = files.tasks
      /\ W.dirty = Seen(dirty) /\ W.lint = files.lint /\ W.docs = files.docs
  BY DEF W
<1>2. TasksKnown(files.tasks)
  BY DEF SurfaceInv, QueueKnown
<1>3. IsFiniteSet(Ids)
  <2>1. TaskIds \in Seq(Ids) /\ Once(TaskIds)
    BY TaskIdList DEF Ids, Once
  <2> QED
    BY <2>1, OnceCounted DEF Ids
<1>4. IsFiniteSet(DOMAIN files.tasks)
  BY <1>2, <1>3, FS_Subset DEF TasksKnown
<1>5. IsFiniteSet(W.dirty)
  BY <1>1, SeenFinite DEF SurfaceInv, FilesFinite
<1> QED
  BY <1>1, <1>2, <1>4, <1>5 DEF SurfaceInv, FilesFinite, FiniteWorkspace, TasksKnown

\* What a tool names is open, whatever the session's task and the agency's scope.
LEMMA AdviceHolds ==
    ASSUME SurfaceInv
    PROVE  AdviceIsOpen(StatusLens(W))
<1>1. DOMAIN W.tasks \subseteq Ids
  BY WorkspaceIs
<1>2. ASSUME NEW link
      PROVE  LET t == NextAction(StatusLens(W), link).task IN t # "" => IsOpen(W, t)
  BY <1>1, StateAdvice
<1>3. ASSUME NEW in \in AgencyInputs
      PROVE  LET plan == AgencyPlan(StatusLens(W), in)
             IN  \A t \in ({plan.task} \cup Range(plan.spawn)) \ {""} : IsOpen(W, t)
  BY <1>1, AgencyFields, AgencyAdvice
<1> QED
  BY <1>2, <1>3, Zenon DEF AdviceIsOpen

\* The panel follows the state tool, lists what is open, and is honest.
LEMMA PanelHolds ==
    ASSUME SurfaceInv
    PROVE  PanelAgrees(StatusLens(W))
<1> DEFINE v == StatusLens(W)
<1>1. DOMAIN W.tasks \subseteq Ids /\ W.tasks = files.tasks
  BY WorkspaceIs
<1>2. ASSUME NEW link, NEW moved
      PROVE  /\ NextAction(v, link).kind = "resume" <=> Snapshot(v, link, moved).source = "task"
             /\ Snapshot(v, link, moved).source = "task" =>
                  Snapshot(v, link, moved).about = NextAction(v, link).task
  BY <1>1, PanelFollows
<1>3. ASSUME NEW link
      PROVE  Range(WorkingSet(v, link)) = {t \in DOMAIN files.tasks : IsOpen(W, t)}
  BY <1>1, WorkingSetIs
<1>4. ASSUME NEW link
      PROVE  HomeIssues(v, link) = << <<"info", "">> >> => v.step.kind # "status"
  BY <1>1, HomeIsHonest
<1> HIDE DEF v
<1>5. PanelAgrees(v)
  BY <1>2, <1>3, <1>4, Zenon DEF PanelAgrees
<1> QED
  BY <1>5 DEF v

\* The pages of the panel draw what the lens holds.
LEMMA PagesHold ==
    ASSUME SurfaceInv
    PROVE  PagesAgree(StatusLens(W))
<1> DEFINE v == StatusLens(W)
<1>1. DOMAIN W.tasks \subseteq Ids
  BY WorkspaceIs
<1>2. ASSUME NEW stage \in {"todo", "implement", "done"}, NEW row \in 0 .. Len(TaskIds)
      PROVE  LET s == Selected(v, stage, row) IN s.task # "" => s.task \in Range(s.drawn)
  <2>1. row \in Nat
    OBVIOUS
  <2> QED
    BY <2>1, CursorIsDrawn
<1>3. HomePath(v, "")[1] = "attention" => v.step.kind \in {"status", "reconciliation"}
  <2>1. v.untracked = Specs(W, "untracked") /\ v.blocked = Specs(W, "blocked") /\ v.step = NextStep(W)
    BY LensIs
  <2>2. HomePath(v, "")[1] = IF v.untracked # {} \/ v.blocked # {} THEN "attention" ELSE "ready"
    BY DEF HomePath
  <2>3. v.untracked \cup v.blocked # {} => v.step.kind \in {"status", "reconciliation"}
    BY <1>1, <2>1, NextStepIs
  <2> QED
    BY <2>2, <2>3
<1>4. ASSUME NEW moved, NEW aged
      PROVE  ResumeLane(v, moved, aged) = "" <=> LaneCounts(v, moved, aged).fresh = Len(LaneOrder)
  BY LanesCounted
<1>5. ASSUME NEW link
      PROVE  LET lines == WorkingLines(v, link, Len(TaskIds)) IN
             /\ v.open # <<>> => Len(lines) = Len(v.open)
             /\ LinkedTask(v, link) # "" => lines[1] = <<"Focused", StatusSummary(v, link, {})>>
  BY <1>1, LinesAre
<1>6. GraphRows(W).items # 0 <=> v.step.kind = "reconciliation"
  <2>1. IsFiniteSet(Items(W))
    BY WorkspaceIs, ItemsAreFinite
  <2>2. GraphRows(W).items = Cardinality(Items(W))
    BY DEF GraphRows
  <2>3. GraphRows(W).items # 0 <=> Items(W) # {}
    BY <2>1, <2>2, FS_EmptySet
  <2>4. v.step = NextStep(W)
    BY LensIs
  <2> QED
    BY <1>1, <2>3, <2>4, ItemsRun, NextStepIs
<1> HIDE DEF v
<1>7. PagesAgree(v)
  BY <1>2, <1>3, <1>4, <1>5, <1>6, Zenon DEF PagesAgree
<1> QED
  BY <1>7 DEF v

\* The control room shows what is hot, and counts and boards what is open.
LEMMA ControlRoomHolds ==
    ASSUME SurfaceInv
    PROVE  ControlRoomAgrees(StatusLens(W))
<1> DEFINE v == StatusLens(W)
<1>1. TasksKnown(W.tasks)
  BY WorkspaceIs
<1>2. Len(v.open) <= 12 => Range(LiveColumn(v, "implement")) \subseteq Range(Board(v, W).tasks)
  BY <1>1, BoardHasRoom
<1>3. HotBuilds(W) \cup HotReports(W) \subseteq Visible(W).evidence
  BY HotIsServed
<1>4. ControlOpen(v) = Range(v.open) /\ ControlOpen(v) \subseteq Visible(W).tasks
  BY <1>1, ControlOpenIs
<1>5. Overview(v, W).next # "" => Overview(v, W).next \in ControlOpen(v)
  BY <1>1, ControlNext
<1> HIDE DEF v
<1>6. ControlRoomAgrees(v)
  BY <1>2, <1>3, <1>4, <1>5, Zenon DEF ControlRoomAgrees
<1> QED
  BY <1>6 DEF v

\* Once every call has returned and nothing came between, what a model is told
\* of the work and what a person reads of it agree, on the state tool, the
\* agency, the status panel, its pages and the control room, for any files,
\* tasks and inputs (buildStatusView and the five derivations of its lens).
THEOREM SurfacesSayTheSame == Spec => []SurfacesAgree
<1>1. GraphInv /\ SurfaceInv /\ [Next]_vars => GraphInv' /\ SurfaceInv'
  BY ShapeStep, TornOwnedStep, StoreFreshStep, RepairedStep, SurfaceStep DEF GraphInv
<1>2. GraphInv /\ SurfaceInv => SurfacesAgree
  <2> SUFFICES ASSUME GraphInv, SurfaceInv PROVE SurfacesAgree
    OBVIOUS
  <2>1. NothingToDoAgrees
    <3>1. DOMAIN W.tasks \subseteq Ids /\ W.tasks = files.tasks
      BY WorkspaceIs
    <3>2. NextAction(StatusLens(W), "").kind = "none"
            <=> NextLoop(W) = "observe" /\ ~ \E t \in DOMAIN W.tasks : IsOpen(W, t)
      BY <3>1, NothingToDo
    <3> QED
      BY <3>1, <3>2, Zenon DEF NothingToDoAgrees
  <2>2. Quiet /\ ~behind => stored.status = StatusLens(W)
    <3>1. Quiet /\ ~behind => stored = View(W)
      BY DEF GraphInv, Quiet, Repaired, Idle
    <3> QED
      BY <3>1 DEF View
  <2> QED
    BY <2>1, <2>2, AdviceHolds, PanelHolds, PagesHold, ControlRoomHolds DEF SurfacesAgree
<1> QED
  BY GraphInit, SurfaceInit, <1>1, <1>2, PTL DEF Spec
=============================================================================
