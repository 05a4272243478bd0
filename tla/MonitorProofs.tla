--------------------------- MODULE MonitorProofs ---------------------------
(***************************************************************************)
(* What web-admin shows is true, for any number of items, workers and      *)
(* requests: what the board leaves out was delivered, the feed view says   *)
(* what the queues hold, and a report counts every item that moves on      *)
(* while its counts are read.                                              *)
(***************************************************************************)
EXTENDS Monitor, WorkProofs, SequenceTheorems

-----------------------------------------------------------------------------
(* A monitor changes nothing of the pipeline; at most it spends a fault.   *)

Miscount ==
  /\ Fault
  /\ UNCHANGED <<items, analyzer_queue, dispatch_queue, sent, cleared, crashes, removals,
                 analyzer, dispatcher, reader, admin, requeues>>

LEMMA MonitorSteps == ASSUME [MonitorNext]_monitorVars PROVE [Next]_vars \/ Miscount
<1>1. CASE QueryCount
  BY <1>1 DEF QueryCount, Miscount, NoFault, tables, history, vars
<1>2. CASE PipelineStep \/ AnswerReport \/ UNCHANGED monitorVars
           \/ StartReport(QueueMonitorQueries) \/ StartReport(MetricsQueries)
  BY <1>2 DEF PipelineStep, AnswerReport, StartReport, monitorVars
<1>3. QED
  BY <1>1, <1>2 DEF MonitorNext

(* What the other modules know of the pipeline. *)
PipeInv == /\ TypeOK /\ Busy /\ DeliveryInv /\ WorkInv
           /\ SentBacked /\ ResultBacked /\ QuarantineInv

LEMMA MiscountKeeps == ASSUME PipeInv, Miscount PROVE PipeInv'
<1>0. /\ UNCHANGED <<items, analyzer_queue, dispatch_queue, sent, cleared, crashes, removals,
                     analyzer, dispatcher, reader, admin, requeues>>
      /\ faults \in Nat /\ faults' \in 0..MaxFaults /\ faults' = faults + 1
      /\ crashes \in Nat /\ removals \in Nat /\ MaxFaults \in Nat
  BY BudgetAssumption DEF PipeInv, Miscount, Fault, TypeOK, StoreTypeOK
<1>1. TypeOK' /\ Busy'
  BY <1>0 DEF PipeInv, TypeOK, StoreTypeOK, AnalyzerTypeOK, DispatcherTypeOK, ReaderTypeOK,
              AdminTypeOK, Busy
<1>2. DeliveryInv'
  <2>1. \A i \in Items : Held(i)' => Held(i)
    BY <1>0 DEF Held
  <2>2. QED
    BY <1>0, <1>1, <2>1, QuietStep DEF PipeInv, TypeOK, StoreTypeOK
<1>3. WorkInv'
  BY <1>0, <1>1, OthersWork DEF PipeInv, Alike
<1>4. SentBacked' /\ ResultBacked' /\ QuarantineInv'
  BY <1>0 DEF PipeInv, SentBacked, ResultBacked, OnItsWay, Leaving, Again, QuarantineInv,
              OneAnalyzer, Quarantined
<1>5. QED
  BY <1>1, <1>2, <1>3, <1>4 DEF PipeInv

LEMMA NextKeeps == ASSUME PipeInv, [Next]_vars PROVE PipeInv'
<1>1. TypeOK' /\ Busy' /\ DeliveryInv' /\ WorkInv'
  BY NextType, NextDelivery, NextWork DEF PipeInv
<1>2. SentBacked'
  BY AnalyzerSent, DispatcherSent, ReaderSent, AdminSent, LeaseSent, CrashSent, StutterSent
     DEF Next, PipeInv
<1>3. ResultBacked'
  BY AnalyzerResult, DispatcherResult, ReaderResult, AdminResult, LeaseResult, CrashResult,
     StutterResult DEF Next, PipeInv
<1>4. QuarantineInv'
  BY AnalyzerQuarantine, DispatcherQuarantine, ReaderQuarantine, AdminQuarantine,
     TimeQuarantine, StutterQuarantine DEF Next, PipeInv
<1>5. QED
  BY <1>1, <1>2, <1>3, <1>4 DEF PipeInv

LEMMA InitPipe == Init => PipeInv
BY InitTypeOK, InitBusy, InitDelivery, InitWork, InitSent, InitResult, InitQuarantine DEF PipeInv

LEMMA PipeInvariant == MonitorSpec => []PipeInv
<1>1. MonitorInit => PipeInv
  BY InitPipe DEF MonitorInit
<1>2. PipeInv /\ [MonitorNext]_monitorVars => PipeInv'
  BY MonitorSteps, MiscountKeeps, NextKeeps
<1>3. QED
  BY <1>1, <1>2, PTL DEF MonitorSpec

(* The board leaves out only what was delivered: an item on no lane has    *)
(* the status DISPATCHED, which is set with its date after the message     *)
(* went out, whatever fails, dies, is requeued or is removed.              *)
THEOREM BoardIsComplete == MonitorSpec => []BoardHidesOnlyDelivered
<1>1. PipeInv => BoardHidesOnlyDelivered
  <2> SUFFICES ASSUME PipeInv, NEW i \in Items, items[i].present, Lane(i) = ""
               PROVE  items[i].dispatched /\ sent[i] > 0
    BY DEF BoardHidesOnlyDelivered
  <2>1. /\ items[i].status \in Status
        /\ analyzer_queue[i].state \in RowState /\ dispatch_queue[i].state \in RowState
    BY DEF PipeInv, TypeOK, StoreTypeOK, Item, Row
  <2>2. ~Open(analyzer_queue[i])
    BY <2>1 DEF Lane, Open
  <2>3. ~Open(dispatch_queue[i])
    BY <2>1, <2>2 DEF Lane, Open
  <2>4. items[i].status # "FAILED" /\ ~Anomalous(i)
    BY <2>1, <2>2, <2>3 DEF Lane, Open
  <2>5. items[i].status = "DISPATCHED"
    BY <2>1, <2>2, <2>3, <2>4 DEF Anomalous, Open, RowState, Status
  <2>6. QED
    BY <2>5 DEF PipeInv, ResultBacked, SentBacked
<1>2. QED
  BY <1>1, PipeInvariant, PTL

-----------------------------------------------------------------------------
(* How rows and dates move. *)

Quiet == faults = 0 /\ removals = 0

(* A row stays in its table; an open one stays open, or the worker that    *)
(* leased it closes it, and changes nothing else.                          *)
RawMoves(j) ==
  /\ analyzer_queue[j].state # "ABSENT" => analyzer_queue'[j].state # "ABSENT"
  /\ (Open(analyzer_queue[j]) /\ ~Open(analyzer_queue'[j])) =>
       /\ analyzer_queue[j].state = "LEASED" /\ analyzer_queue'[j].state = "DONE"
       /\ \E w \in Analyzers :
            /\ analyzer[w].item = j
            /\ At(w, "complete") \/ (At(w, "fail") /\ analyzer_queue'[j].failed)
       /\ UNCHANGED <<items, dispatch_queue>>

DispatchMoves(j) ==
  /\ dispatch_queue[j].state # "ABSENT" => dispatch_queue'[j].state # "ABSENT"
  /\ (Open(dispatch_queue[j]) /\ ~Open(dispatch_queue'[j])) =>
       /\ dispatch_queue[j].state = "LEASED" /\ dispatch_queue'[j].state = "DONE"
       /\ \E d \in Dispatchers : dispatcher[d].item = j /\ Standing(d, "complete")
       /\ UNCHANGED <<items, analyzer_queue>>

LEMMA AnalyzerMoves ==
  ASSUME TypeOK, Busy, WorkInv, faults' = 0, NEW j \in Items, NEW w \in Analyzers, AnalyzerActs(w)
  PROVE  RawMoves(j) /\ DispatchMoves(j)
<1> DEFINE i == analyzer[w].item
<1>0. /\ Takes(w) \/ Works(w) \/ Ends(w)
      /\ At(w, "idle") \/ i \in Items
      /\ faults = 0 /\ ~Fault
      /\ analyzer_queue \in [Items -> Row] /\ dispatch_queue \in [Items -> Row]
      /\ w # NoOwner
  BY AnalyzerShape, OwnersAssumption, WorkersAssumption DEF Busy, At, TypeOK, StoreTypeOK, Fault
<1>1. DispatchMoves(j)
  <2>1. \/ UNCHANGED dispatch_queue
        \/ i \in Items /\ dispatch_queue' = Enqueue(dispatch_queue, i)
    BY <1>0 DEF Takes, Works, Ends, At
  <2>2. dispatch_queue'[j] = dispatch_queue[j] \/ dispatch_queue'[j].state = "QUEUED"
    BY <1>0, <2>1, EnqueueRows
  <2>3. QED
    BY <2>2 DEF DispatchMoves, Open
<1>2. RawMoves(j)
  <2>1. CASE Takes(w)
    <3>1. PICK k \in Items : analyzer_queue' = Claim(analyzer_queue, k, w, RawCountCap)
      BY <2>1 DEF Takes
    <3>2. analyzer_queue'[j] = analyzer_queue[j] \/ analyzer_queue'[j].state = "LEASED"
      BY <1>0, <3>1, ClaimRows
    <3>3. QED
      BY <3>2 DEF RawMoves, Open
  <2>2. CASE Works(w)
    BY <2>2 DEF Works, RawMoves
  <2>3. CASE Ends(w)
    <3>1. i \in Items /\ UNCHANGED <<items, dispatch_queue>>
      BY <1>0, <2>3 DEF Ends, At
    <3>2. CASE At(w, "complete") /\ analyzer_queue' = Complete(analyzer_queue, i, w)
      <4>1. \/ analyzer_queue'[j] = analyzer_queue[j]
            \/ /\ j = i /\ analyzer_queue[j].owner = w
               /\ analyzer_queue'[j].state \in {"DONE", "QUEUED"}
        BY <1>0, <3>1, <3>2, SettleRows
      <4>2. QED
        BY <1>0, <3>1, <3>2, <4>1 DEF RawMoves, Open, WorkInv, Leases
    <3>3. CASE At(w, "release") /\ analyzer_queue' = Release(analyzer_queue, i, w)
      <4>1. analyzer_queue'[j] = analyzer_queue[j] \/ analyzer_queue'[j].state = "QUEUED"
        BY <1>0, <3>1, <3>3, SettleRows
      <4>2. QED
        BY <4>1 DEF RawMoves, Open
    <3>4. CASE At(w, "fail") /\ analyzer_queue' = Fail(analyzer_queue, i, w)
      <4>1. \/ analyzer_queue'[j] = analyzer_queue[j]
            \/ /\ j = i /\ analyzer_queue[j].owner = w
               /\ analyzer_queue'[j].state = "DONE" /\ analyzer_queue'[j].failed
        BY <1>0, <3>1, <3>4 DEF Fail, Settle, OwnedBy
      <4>2. QED
        BY <1>0, <3>1, <3>4, <4>1 DEF RawMoves, Open, WorkInv, Leases
    <3>5. QED
      BY <1>0, <2>3, <3>2, <3>3, <3>4 DEF Ends
  <2>4. QED
    BY <1>0, <2>1, <2>2, <2>3
<1>3. QED
  BY <1>1, <1>2

LEMMA DispatcherMoves ==
  ASSUME TypeOK, Busy, WorkInv, faults' = 0, NEW j \in Items,
         NEW d \in Dispatchers, DispatcherActs(d)
  PROVE  RawMoves(j) /\ DispatchMoves(j)
<1> DEFINE i == dispatcher[d].item
<1>0. /\ TakesMessage(d) \/ Carries(d) \/ Drops(d)
      /\ Standing(d, "idle") \/ i \in Items
      /\ faults = 0 /\ ~Fault
      /\ UNCHANGED analyzer_queue
      /\ dispatch_queue \in [Items -> Row]
      /\ d # NoOwner
  BY DispatcherShape, OwnersAssumption, WorkersAssumption
     DEF Busy, Standing, TypeOK, StoreTypeOK, Fault
<1>1. RawMoves(j)
  BY <1>0 DEF RawMoves
<1>2. CASE TakesMessage(d)
  <2>1. PICK k \in Items : dispatch_queue' = Claim(dispatch_queue, k, d, DispatchCountCap)
    BY <1>2 DEF TakesMessage
  <2>2. dispatch_queue'[j] = dispatch_queue[j] \/ dispatch_queue'[j].state = "LEASED"
    BY <1>0, <2>1, ClaimRows
  <2>3. QED
    BY <1>1, <2>2 DEF DispatchMoves, Open
<1>3. CASE Carries(d)
  BY <1>1, <1>3 DEF Carries, DispatchMoves
<1>4. CASE Drops(d)
  <2>1. i \in Items /\ UNCHANGED items
    BY <1>0, <1>4 DEF Drops, Standing
  <2>2. CASE Standing(d, "complete") /\ dispatch_queue' = Complete(dispatch_queue, i, d)
    <3>1. \/ dispatch_queue'[j] = dispatch_queue[j]
          \/ /\ j = i /\ dispatch_queue[j].owner = d
             /\ dispatch_queue'[j].state \in {"DONE", "QUEUED"}
      BY <1>0, <2>1, <2>2, SettleRows
    <3>2. QED
      BY <1>0, <1>1, <2>1, <2>2, <3>1 DEF DispatchMoves, Open, WorkInv, Leases
  <2>3. CASE dispatch_queue' = Release(dispatch_queue, i, d)
    <3>1. dispatch_queue'[j] = dispatch_queue[j] \/ dispatch_queue'[j].state = "QUEUED"
      BY <1>0, <2>1, <2>3, SettleRows
    <3>2. QED
      BY <1>1, <3>1 DEF DispatchMoves, Open
  <2>4. QED
    BY <1>0, <1>4, <2>2, <2>3 DEF Drops
<1>5. QED
  BY <1>0, <1>2, <1>3, <1>4

(* What the reader and the requests do to the tables when nothing fails    *)
(* and nothing is removed.                                                 *)
LEMMA ReaderTables ==
  ASSUME TypeOK, Busy, ReaderActs, Quiet'
  PROVE  /\ Quiet
         /\ UNCHANGED <<dispatch_queue, sent, cleared, analyzer, dispatcher, admin>>
         /\ \/ /\ \E i \in Items : /\ ~items[i].present
                                   /\ items' = [items EXCEPT ![i] = NewItem]
               /\ UNCHANGED analyzer_queue /\ reader'.pc # "giveUp"
            \/ /\ analyzer_queue' = Enqueue(analyzer_queue, reader.item)
               /\ reader.item \in Items /\ UNCHANGED items /\ reader'.pc # "giveUp"
            \/ /\ items' = MarkQueued(reader.item) /\ reader.item \in Items
               /\ UNCHANGED analyzer_queue /\ reader'.pc # "giveUp"
            \/ reader.pc = "giveUp"
<1>0. /\ reader.pc # "idle" => reader.item \in Items
      /\ reader \in [pc : ReaderPc, item : Items \cup {NoEntry}, abandoned : SUBSET Items]
      /\ faults \in Nat /\ removals \in Nat /\ faults' = 0 /\ removals' = 0
  BY DEF Busy, TypeOK, StoreTypeOK, ReaderTypeOK, Quiet
<1>1. ~Fault /\ \A S \in SUBSET Items : ~Cleanup(S)
  BY <1>0 DEF Fault, Cleanup
<1>2. ASSUME NEW i \in Items, InsertItemIfNew(i)
      PROVE  UNCHANGED <<faults, removals, analyzer_queue, dispatch_queue>>
             /\ ~items[i].present /\ items' = [items EXCEPT ![i] = NewItem]
             /\ reader'.pc # "giveUp"
  BY <1>2 DEF InsertItemIfNew, Stored
<1>3. CASE EnqueueAnalyzerJob
  BY <1>0, <1>1, <1>3 DEF EnqueueAnalyzerJob, NoFault, ReaderActs, ReaderStep, history, Quiet
<1>4. CASE MarkRawEnqueued
  BY <1>0, <1>1, <1>4
     DEF MarkRawEnqueued, IdleReader, NoFault, ReaderActs, ReaderStep, history, Quiet
<1>5. CASE MarkEnqueueFailed
  BY <1>0, <1>1, <1>5 DEF MarkEnqueueFailed, NoFault, ReaderActs, ReaderStep, history, Quiet
<1>6. QED
  BY <1>0, <1>1, <1>2, <1>3, <1>4, <1>5 DEF ReaderActs, ReaderStep, ReaderWork, history, Quiet

RequestEffect(a, i) ==
  \/ /\ UNCHANGED <<tables, cleared>> /\ admin'[a].item = i
     /\ admin'[a].pc = "queueRaw" \/ (admin'[a].pc = "queueAnalyzed" /\ items[i].analyzed)
  \/ /\ analyzer_queue' = Enqueue(analyzer_queue, i)
     /\ UNCHANGED <<items, dispatch_queue, cleared>>
     /\ admin[a].item = i /\ admin'[a].item = i /\ admin'[a].pc = "resetRaw"
  \/ /\ dispatch_queue' = Enqueue(dispatch_queue, i)
     /\ UNCHANGED <<items, analyzer_queue, cleared>>
     /\ admin[a].pc = "queueAnalyzed"
     /\ admin[a].item = i /\ admin'[a].item = i /\ admin'[a].pc = "resetAnalyzed"
  \/ /\ items' = MarkNew(i)
     /\ UNCHANGED <<analyzer_queue, dispatch_queue>>
     /\ admin[a].item = i /\ admin'[a] = IdleAdmin
     /\ cleared' = [cleared EXCEPT ![i] = @ + 1]
  \/ /\ items' = MarkAgain(i) /\ admin[a].pc = "resetAnalyzed"
     /\ UNCHANGED <<analyzer_queue, dispatch_queue>>
     /\ admin[a].item = i /\ admin'[a] = IdleAdmin
     /\ cleared' = [cleared EXCEPT ![i] = @ + 1]

LEMMA AdminTables ==
  ASSUME TypeOK, Busy, AdminActs, Quiet'
  PROVE  /\ Quiet
         /\ UNCHANGED <<sent, analyzer, dispatcher, reader>>
         /\ \E a \in Admins, i \in Items :
              (\A b \in Admins \ {a} : admin'[b] = admin[b]) /\ RequestEffect(a, i)
<1>0. /\ \A a \in Admins : admin[a].pc # "idle" => admin[a].item \in Items
      /\ admin \in [Admins -> [pc : AdminPc, item : Items \cup {NoRequest}]]
      /\ faults \in Nat /\ removals \in Nat /\ faults' = 0 /\ removals' = 0
      /\ UNCHANGED <<analyzer, dispatcher, reader>>
  BY DEF Busy, TypeOK, StoreTypeOK, AdminTypeOK, Quiet, AdminActs
<1>1. ~Fault /\ \A i \in Items : ~HandleItemDelete(i)
  BY <1>0 DEF Fault, HandleItemDelete
<1>2. ASSUME NEW a \in Admins, NEW i \in Items, RequeueRead(a, i)
      PROVE  /\ Quiet /\ UNCHANGED sent
             /\ \A b \in Admins \ {a} : admin'[b] = admin[b]
             /\ RequestEffect(a, i)
  BY <1>0, <1>2 DEF RequeueRead, history, Quiet, RequestEffect
<1>3. ASSUME NEW a \in Admins, AdminWork(a)
      PROVE  /\ Quiet /\ UNCHANGED sent /\ admin[a].item \in Items
             /\ \A b \in Admins \ {a} : admin'[b] = admin[b]
             /\ RequestEffect(a, admin[a].item)
  <2>1. CASE RequeueRaw(a)
    BY <1>0, <1>1, <2>1
       DEF RequeueRaw, Serving, Serve, NoFault, history, Quiet, RequestEffect
  <2>2. CASE RequeueAnalyzed(a)
    BY <1>0, <1>1, <2>2
       DEF RequeueAnalyzed, Serving, Serve, NoFault, history, Quiet, RequestEffect
  <2>3. CASE ResetToNew(a) \/ ResetToAnalyzed(a)
    BY <1>0, <1>1, <2>3
       DEF ResetToNew, ResetToAnalyzed, ResetItem, Serving, Answer, NoFault, Quiet,
           RequestEffect
  <2>4. QED
    BY <1>3, <2>1, <2>2, <2>3 DEF AdminWork
<1>4. QED
  BY <1>0, <1>1, <1>2, <1>3 DEF AdminActs, AdminStep

LEMMA NextMoves ==
  ASSUME TypeOK, Busy, WorkInv, Quiet', NEW j \in Items, Next
  PROVE  RawMoves(j) /\ DispatchMoves(j)
<1>0. /\ analyzer_queue \in [Items -> Row] /\ dispatch_queue \in [Items -> Row]
      /\ faults' = 0
  BY DEF TypeOK, StoreTypeOK, Quiet
<1>1. ASSUME /\ analyzer_queue'[j] = analyzer_queue[j] \/ Open(analyzer_queue'[j])
             /\ dispatch_queue'[j] = dispatch_queue[j] \/ Open(dispatch_queue'[j])
      PROVE  RawMoves(j) /\ DispatchMoves(j)
  BY <1>1 DEF RawMoves, DispatchMoves, Open
<1>2. CASE ReaderActs \/ AdminActs
  <2>1. /\ \/ UNCHANGED analyzer_queue
           \/ \E i \in Items : analyzer_queue' = Enqueue(analyzer_queue, i)
        /\ \/ UNCHANGED dispatch_queue
           \/ \E i \in Items : dispatch_queue' = Enqueue(dispatch_queue, i)
    <3>1. CASE ReaderActs /\ reader.pc # "giveUp"
      BY <3>1, ReaderTables
    <3>2. CASE ReaderActs /\ reader.pc = "giveUp"
      BY <3>2
         DEF ReaderActs, ReaderStep, ReaderWork, InsertItemIfNew, EnqueueAnalyzerJob,
             MarkRawEnqueued, MarkEnqueueFailed, Cleanup
    <3>3. CASE AdminActs
      BY <3>3, AdminTables DEF RequestEffect, tables
    <3>4. QED
      BY <1>2, <3>1, <3>2, <3>3
  <2>2. QED
    BY <1>0, <1>1, <2>1, EnqueueRows DEF Open
<1>3. CASE SomeoneCrashes \/ \E i \in Items : LeaseExpires(i)
  <2>1. /\ analyzer_queue'[j].state = analyzer_queue[j].state
        /\ dispatch_queue'[j].state = dispatch_queue[j].state
    BY <1>3, CrashShape, LeaseShape DEF Alike
  <2>2. QED
    BY <2>1 DEF RawMoves, DispatchMoves, Open
<1>4. QED
  BY <1>0, <1>2, <1>3, AnalyzerMoves, DispatcherMoves DEF Next

-----------------------------------------------------------------------------
(* What the feed view takes for granted. *)

(* Item i was queued for analysis, and for dispatch. *)
InWork(i) ==
  \/ items[i].status # "NEW" \/ items[i].analyzed
  \/ dispatch_queue[i].state # "ABSENT"
  \/ \E w \in Analyzers : analyzer[w].item = i
  \/ \E d \in Dispatchers : dispatcher[d].item = i
  \/ \E a \in Admins : Again(a, i)

Forwarded(i) ==
  \/ items[i].analyzedEnqueued \/ items[i].status = "DISPATCHED"
  \/ \E w \in Analyzers : analyzer[w].item = i /\ analyzer[w].pc \in {"stamp", "complete"}
  \/ \E d \in Dispatchers : dispatcher[d].item = i
  \/ \E a \in Admins : admin[a].item = i /\ admin[a].pc = "resetAnalyzed"

(* Its row in dispatch_queue is closed, or about to be. *)
Ended(i) ==
  \/ dispatch_queue[i].state = "DONE"
  \/ \E d \in Dispatchers : dispatcher[d].item = i /\ dispatcher[d].pc = "complete"

Unqueued(i) == items[i].status = "ANALYZED" /\ ~items[i].analyzedEnqueued

(* The reader has not given up on the item; rows are there for what the    *)
(* columns and the processes say; a closed row of an item that no requeue  *)
(* has reset has its date; a job is completed after its stamp; and the one *)
(* analyzer finds an item without a date, and keeps its job open between   *)
(* its result and its stamp.                                               *)
InView(i) ==
  /\ ~(reader.item = i /\ reader.pc = "giveUp")
  /\ InWork(i) => analyzer_queue[i].state # "ABSENT"
  /\ Forwarded(i) => dispatch_queue[i].state # "ABSENT"
  /\ cleared[i] = 0 /\ Ended(i) => items[i].dispatched
  /\ \A w \in Analyzers :
       analyzer[w].item = i /\ analyzer[w].pc = "complete" => items[i].analyzedEnqueued
  /\ OneAnalyzer =>
       /\ items[i].status = "ANALYZED" => ~items[i].dispatched
       /\ Unqueued(i) => Open(analyzer_queue[i])

ViewInv == Quiet => \A i \in Items : InView(i)

(* What the statements on rss_items do to the stamp of the hand-over. *)
LEMMA MarkStamps ==
  ASSUME StoreTypeOK, NEW i \in Items, NEW j \in Items,
         NEW table \in {MarkFailed(i), MarkAnalyzed(i), MarkUndelivered(i), MarkDispatched(i),
                        MarkQueued(i), MarkUnqueued(i), MarkNew(i)}
  PROVE  table[j].analyzedEnqueued <=> items[j].analyzedEnqueued
<1>1. items \in [Items -> Item] /\ items[i] \in Item
  BY DEF StoreTypeOK
<1>2. CASE j = i
  BY <1>1, <1>2 DEF UpdateItem, MarkFailed, MarkAnalyzed, MarkUndelivered, MarkDispatched,
                    MarkQueued, MarkUnqueued, MarkNew, Item
<1>3. CASE j # i
  BY <1>3, MarkOthers
<1>4. QED
  BY <1>2, <1>3

(* The job's own statement stamps it, just before the job is completed. *)
LEMMA AnalyzerStamps ==
  ASSUME TypeOK, Busy, NEW w \in Analyzers, AnalyzerActs(w), ~At(w, "idle")
  PROVE  LET i == analyzer[w].item IN
         /\ items[i].analyzedEnqueued => items'[i].analyzedEnqueued
         /\ items'[i].analyzedEnqueued => items[i].analyzedEnqueued \/ At(w, "stamp")
         /\ analyzer'[w].pc = "complete" /\ items[i].present => items'[i].analyzedEnqueued \/ Fault
<1> DEFINE i == analyzer[w].item
<1>0. /\ i \in Items /\ items[i] \in Item /\ items \in [Items -> Item] /\ StoreTypeOK
      /\ analyzer \in [Analyzers -> AnalyzerLocals]
  BY DEF Busy, At, TypeOK, StoreTypeOK, AnalyzerTypeOK
<1>1. CASE StampHandOver(w)
  BY <1>0, <1>1 DEF StampHandOver, MarkHandedOver, UpdateItem, Item
<1>2. CASE InterruptRaw(w) \/ FindStored(w) \/ InterruptAnalysis(w) \/ Judge(w) \/ HandOver(w)
  BY <1>0, <1>2
     DEF InterruptRaw, FindStored, InterruptAnalysis, Judge, HandOver, GoTo, tables,
         AnalyzerLocals
<1>3. CASE AnalyzeOk(w) \/ AnalyzeFails(w) \/ MarkPoison(w)
  <2>1. /\ analyzer'[w].pc # "complete"
        /\ UNCHANGED items \/ items' \in {MarkFailed(i), MarkAnalyzed(i)}
    BY <1>0, <1>3 DEF AnalyzeOk, AnalyzeFails, MarkPoison, At, GoTo, AnalyzerLocals
  <2>2. items'[i].analyzedEnqueued <=> items[i].analyzedEnqueued
    BY <1>0, <2>1, MarkStamps
  <2>3. QED
    BY <2>1, <2>2
<1>4. CASE CompleteClaim(w) \/ ReleaseClaim(w) \/ FailClaim(w)
  BY <1>0, <1>4 DEF CompleteClaim, ReleaseClaim, FailClaim, Finish, IdleAnalyzer
<1>5. QED
  BY <1>1, <1>2, <1>3, <1>4 DEF AnalyzerActs, AnalyzerStep, ClaimRaw

LEMMA AnalyzerView ==
  ASSUME PipeInv, ViewInv, NEW w \in Analyzers, AnalyzerActs(w)
  PROVE  ViewInv'
<1> DEFINE i == analyzer[w].item
<1> SUFFICES ASSUME Quiet', NEW j \in Items
             PROVE  InView(j)'
  BY DEF ViewInv
<1>0. /\ TypeOK /\ Busy /\ StoreTypeOK /\ TypeOK'
      /\ UNCHANGED <<cleared, dispatcher, reader, admin>>
      /\ \A v \in Analyzers \ {w} : analyzer'[v] = analyzer[v]
      /\ Takes(w) \/ Works(w) \/ Ends(w)
      /\ At(w, "idle") \/ i \in Items
      /\ analyzer_queue \in [Items -> Row] /\ dispatch_queue \in [Items -> Row]
      /\ \A a, b \in Admins : Again(a, j)' <=> Again(a, j)
      /\ OneAnalyzer' = OneAnalyzer
  BY AnalyzerShape DEF PipeInv, Busy, At, TypeOK, StoreTypeOK, Again, OneAnalyzer
<1>1. Quiet /\ ~Fault /\ faults' = 0
  BY <1>0, AnalyzerShape DEF Quiet, Fault, TypeOK, StoreTypeOK
<1>2. InView(j)
  BY <1>1 DEF ViewInv
<1>3. RawMoves(j) /\ DispatchMoves(j)
  BY <1>1, AnalyzerMoves DEF PipeInv
<1>4. CASE Takes(w)
  <2>1. PICK k \in Items : /\ Claimable(analyzer_queue[k])
                           /\ analyzer_queue' = Claim(analyzer_queue, k, w, RawCountCap)
                           /\ analyzer'[w].item = k /\ analyzer'[w].pc = "claimed"
                           /\ UNCHANGED <<items, dispatch_queue>>
    BY <1>4 DEF Takes, IsNext
  <2>2. /\ j # k => analyzer_queue'[j] = analyzer_queue[j]
        /\ j = k => analyzer_queue'[j].state = "LEASED"
    BY <1>0, <2>1, ClaimRows
  <2>3. InWork(j)' => InWork(j) \/ j = k
    BY <1>0, <2>1 DEF InWork
  <2>4. Forwarded(j)' => Forwarded(j)
    BY <1>0, <2>1 DEF Forwarded
  <2>5. Ended(j)' <=> Ended(j)
    BY <1>0, <2>1 DEF Ended
  <2>6. QED
    BY <1>0, <1>2, <2>1, <2>2, <2>3, <2>4, <2>5 DEF InView, Unqueued, Open
<1>5. CASE Works(w)
  <2>1. /\ i \in Items /\ ~At(w, "idle") /\ analyzer'[w].item = i
        /\ UNCHANGED analyzer_queue
        /\ \/ UNCHANGED items
           \/ items' \in {MarkFailed(i), MarkHandedOver(i)}
           \/ items' = MarkAnalyzed(i) /\ At(w, "analyze")
        /\ \/ UNCHANGED dispatch_queue
           \/ dispatch_queue' = Enqueue(dispatch_queue, i)
        /\ analyzer'[w].pc \in {"stamp", "complete"} =>
             At(w, "stamp") \/ dispatch_queue' = Enqueue(dispatch_queue, i)
    BY <1>0, <1>5 DEF Works
  <2>2. CASE j # i
    <3>1. items'[j] = items[j] /\ dispatch_queue'[j] = dispatch_queue[j]
      BY <1>0, <2>1, <2>2, MarkOthers, EnqueueRows
    <3>2. /\ InWork(j)' <=> InWork(j)
          /\ Forwarded(j)' <=> Forwarded(j)
          /\ Ended(j)' <=> Ended(j)
      BY <1>0, <2>1, <2>2, <3>1 DEF InWork, Forwarded, Ended
    <3>3. QED
      BY <1>0, <1>2, <2>1, <2>2, <3>1, <3>2 DEF InView, Unqueued
  <2>3. CASE j = i
    <3>1. /\ items[j].analyzedEnqueued => items'[j].analyzedEnqueued
          /\ items'[j].analyzedEnqueued => items[j].analyzedEnqueued \/ At(w, "stamp")
          /\ analyzer'[w].pc = "complete" => items'[j].analyzedEnqueued
      <4>1. items[j].present
        BY <1>1, <2>3 DEF PipeInv, DeliveryInv, HeldIsPresent, Held, Quiet
      <4>2. QED
        BY <1>0, <1>1, <2>1, <2>3, <4>1, AnalyzerStamps
    <3>2. InWork(j)
      BY <2>3 DEF InWork
    <3>3. /\ items'[j].dispatched <=> items[j].dispatched
          /\ items'[j].status = "DISPATCHED" => items[j].status = "DISPATCHED"
          /\ items'[j].status = "ANALYZED" => items[j].status = "ANALYZED" \/ At(w, "analyze")
      <4>1. items[i] \in Item /\ items \in [Items -> Item]
        BY <1>0, <2>1 DEF StoreTypeOK
      <4>2. CASE items' = MarkFailed(i)
        BY <2>3, <4>1, <4>2 DEF MarkFailed, UpdateItem, Item
      <4>3. CASE items' = MarkHandedOver(i)
        BY <2>3, <4>1, <4>3 DEF MarkHandedOver, UpdateItem, Item
      <4>4. CASE items' = MarkAnalyzed(i) /\ At(w, "analyze")
        BY <2>3, <4>1, <4>4 DEF MarkAnalyzed, UpdateItem, Item
      <4>5. QED
        BY <2>1, <4>2, <4>3, <4>4
    <3>4. Forwarded(j)' => dispatch_queue'[j].state # "ABSENT"
      <4>1. CASE dispatch_queue' = Enqueue(dispatch_queue, i)
        BY <1>0, <2>1, <2>3, <4>1, EnqueueRows
      <4>2. CASE dispatch_queue' # Enqueue(dispatch_queue, i)
        <5>1. Forwarded(j)' => Forwarded(j)
          BY <1>0, <2>1, <2>3, <3>1, <3>3, <4>2 DEF Forwarded, At
        <5>2. QED
          BY <1>2, <2>1, <4>2, <5>1 DEF InView
      <4>3. QED
        BY <4>1, <4>2
    <3>5. Ended(j)' => Ended(j)
      BY <1>0, <2>1, <2>3, EnqueueRows DEF Ended
    <3>6. OneAnalyzer => (At(w, "analyze") => ~items[j].dispatched)
      BY <1>1, <2>3, <2>1 DEF PipeInv, QuarantineInv, ResultBacked, OnItsWay, Quiet, At, Unanswered
    <3>7. OneAnalyzer => Open(analyzer_queue[j])
      <4>1. OneAnalyzer => analyzer_queue[j].state # "DONE"
        BY <1>1, <2>1, <2>3 DEF PipeInv, QuarantineInv, Quiet, At
      <4>2. analyzer_queue[j].state \in RowState
        BY <1>0 DEF Row
      <4>3. QED
        BY <1>2, <3>2, <4>1, <4>2 DEF InView, Open, RowState
    <3>8. \A v \in Analyzers : analyzer'[v].item = j /\ analyzer'[v].pc = "complete"
                                 => items'[j].analyzedEnqueued
      BY <1>0, <1>2, <3>1 DEF InView
    <3>9. QED
      BY <1>0, <1>2, <2>1, <3>2, <3>3, <3>4, <3>5, <3>6, <3>7, <3>8 DEF InView, Unqueued
  <2>4. QED
    BY <2>2, <2>3
<1>6. CASE Ends(w)
  <2>1. /\ i \in Items /\ analyzer'[w] = IdleAnalyzer /\ UNCHANGED <<items, dispatch_queue>>
    BY <1>0, <1>6 DEF Ends, At
  <2>2. NoJob \notin Items
    BY OwnersAssumption DEF NoJob
  <2>3. /\ InWork(j)' => InWork(j)
        /\ Forwarded(j)' => Forwarded(j)
        /\ Ended(j)' <=> Ended(j)
    BY <1>0, <2>1, <2>2 DEF InWork, Forwarded, Ended, IdleAnalyzer
  <2>4. OneAnalyzer /\ Unqueued(j) => Open(analyzer_queue'[j])
    <3> SUFFICES ASSUME OneAnalyzer, Unqueued(j), ~Open(analyzer_queue'[j])
                 PROVE  FALSE
      OBVIOUS
    <3>1. PICK v \in Analyzers : /\ analyzer[v].item = j
                                 /\ At(v, "complete") \/ At(v, "fail")
      BY <1>2, <1>3 DEF InView, RawMoves
    <3>2. CASE At(v, "complete")
      BY <1>2, <3>1, <3>2 DEF InView, Unqueued, At
    <3>3. CASE At(v, "fail")
      <4>1. ~items[j].analyzed
        BY <1>1, <3>1, <3>3 DEF PipeInv, QuarantineInv, Quiet, At, Unanswered
      <4>2. QED
        BY <1>1, <4>1 DEF PipeInv, ResultBacked, OnItsWay, Quiet, Unqueued
    <3>4. QED
      BY <3>1, <3>2, <3>3
  <2>5. QED
    BY <1>0, <1>2, <1>3, <2>1, <2>3, <2>4 DEF InView, RawMoves, Unqueued, IdleAnalyzer
<1>7. QED
  BY <1>0, <1>2, <1>4, <1>5, <1>6

LEMMA DispatcherView ==
  ASSUME PipeInv, ViewInv, NEW d \in Dispatchers, DispatcherActs(d)
  PROVE  ViewInv'
<1> DEFINE i == dispatcher[d].item
<1> SUFFICES ASSUME Quiet', NEW j \in Items
             PROVE  InView(j)'
  BY DEF ViewInv
<1>0. /\ TypeOK /\ Busy /\ StoreTypeOK
      /\ UNCHANGED <<analyzer_queue, cleared, analyzer, reader, admin>>
      /\ \A c \in Dispatchers \ {d} : dispatcher'[c] = dispatcher[c]
      /\ TakesMessage(d) \/ Carries(d) \/ Drops(d)
      /\ Standing(d, "idle") \/ i \in Items
      /\ items \in [Items -> Item] /\ dispatch_queue \in [Items -> Row]
      /\ \A a \in Admins : Again(a, j)' <=> Again(a, j)
      /\ OneAnalyzer' = OneAnalyzer
  BY DispatcherShape DEF PipeInv, Busy, Standing, TypeOK, StoreTypeOK, Again, OneAnalyzer
<1>1. Quiet /\ ~Fault /\ faults' = 0
  BY <1>0, DispatcherShape DEF Quiet, Fault, TypeOK, StoreTypeOK
<1>2. InView(j)
  BY <1>1 DEF ViewInv
<1>3. DispatchMoves(j)
  BY <1>1, DispatcherMoves DEF PipeInv
<1>4. CASE TakesMessage(d)
  <2>1. PICK k \in Items : /\ Claimable(dispatch_queue[k])
                           /\ dispatch_queue' = Claim(dispatch_queue, k, d, DispatchCountCap)
                           /\ dispatcher'[d].item = k /\ dispatcher'[d].pc = "claimed"
                           /\ UNCHANGED items
    BY <1>4 DEF TakesMessage, IsNext
  <2>2. /\ j # k => dispatch_queue'[j] = dispatch_queue[j]
        /\ j = k => dispatch_queue'[j].state = "LEASED" /\ dispatch_queue[j].state # "ABSENT"
    BY <1>0, <2>1, ClaimRows DEF Claimable
  <2>3. InWork(j)' => InWork(j)
    BY <1>0, <2>1, <2>2 DEF InWork
  <2>4. Forwarded(j)' => Forwarded(j) \/ j = k
    BY <1>0, <2>1 DEF Forwarded
  <2>5. Ended(j)' => Ended(j)
    BY <1>0, <2>1, <2>2 DEF Ended
  <2>6. QED
    BY <1>0, <1>2, <2>1, <2>2, <2>3, <2>4, <2>5 DEF InView, Unqueued
<1>5. CASE Carries(d)
  <2>1. /\ i \in Items /\ dispatcher'[d].item = i /\ UNCHANGED dispatch_queue
        /\ UNCHANGED items \/ items' \in {MarkUndelivered(i), MarkDispatched(i)}
        /\ dispatcher'[d].pc = "complete" =>
             (IsAlreadyDispatched(i) /\ UNCHANGED items) \/ items' = MarkDispatched(i)
    BY <1>0, <1>1, <1>5 DEF Carries
  <2>2. /\ j # i => items'[j] = items[j]
        /\ items'[j].analyzedEnqueued <=> items[j].analyzedEnqueued
        /\ items'[j].status = "ANALYZED" => items'[j] = items[j]
    <3>1. CASE j # i
      BY <1>0, <2>1, <3>1, MarkOthers
    <3>2. CASE j = i
      <4>1. items[i] \in Item
        BY <1>0, <2>1
      <4>2. CASE items' = MarkUndelivered(i)
        BY <1>0, <2>1, <3>2, <4>1, <4>2 DEF MarkUndelivered, UpdateItem, Item
      <4>3. CASE items' = MarkDispatched(i)
        BY <1>0, <2>1, <3>2, <4>1, <4>3 DEF MarkDispatched, UpdateItem, Item
      <4>4. QED
        BY <2>1, <4>2, <4>3
    <3>3. QED
      BY <3>1, <3>2
  <2>3. /\ InWork(j)' => InWork(j)
        /\ Forwarded(j)' => Forwarded(j)
    BY <1>0, <2>1, <2>2 DEF InWork, Forwarded
  <2>4. ASSUME cleared'[j] = 0, Ended(j)' PROVE items'[j].dispatched
    <3>1. items[j].dispatched => items'[j].dispatched
      BY DispatcherFrame DEF PipeInv
    <3>2. CASE Ended(j)
      BY <1>0, <1>2, <2>4, <3>1, <3>2 DEF InView
    <3>3. CASE ~Ended(j)
      <4>1. j = i /\ dispatcher'[d].pc = "complete"
        BY <1>0, <2>1, <2>4, <3>3 DEF Ended
      <4>2. CASE IsAlreadyDispatched(i) /\ UNCHANGED items
        BY <4>1, <4>2 DEF IsAlreadyDispatched, PipeInv, ResultBacked
      <4>3. CASE items' = MarkDispatched(i)
        <5>1. items[j].present
          BY <1>1, <4>1 DEF PipeInv, DeliveryInv, HeldIsPresent, Held, Quiet
        <5>2. QED
          BY <1>0, <4>1, <4>3, <5>1 DEF MarkDispatched, UpdateItem, Item
      <4>4. QED
        BY <2>1, <4>1, <4>2, <4>3
    <3>4. QED
      BY <3>2, <3>3
  <2>5. QED
    BY <1>0, <1>2, <2>1, <2>2, <2>3, <2>4 DEF InView, Unqueued
<1>6. CASE Drops(d)
  <2>1. i \in Items /\ dispatcher'[d] = IdleDispatcher /\ UNCHANGED items
    BY <1>0, <1>6 DEF Drops, Standing
  <2>2. NoMessage \notin Items
    BY OwnersAssumption DEF NoMessage
  <2>3. dispatch_queue'[j].state = "ABSENT" <=> dispatch_queue[j].state = "ABSENT"
    <3>1. \/ dispatch_queue' \in {Complete(dispatch_queue, i, d), Release(dispatch_queue, i, d)}
      BY <1>1, <1>6 DEF Drops
    <3>2. QED
      BY <1>0, <2>1, <3>1, OwnersAssumption, WorkersAssumption
         DEF Complete, Release, Settle, OwnedBy, PipeInv, WorkInv, Leases
  <2>4. /\ InWork(j)' => InWork(j)
        /\ Forwarded(j)' => Forwarded(j)
    BY <1>0, <2>1, <2>2, <2>3 DEF InWork, Forwarded, IdleDispatcher
  <2>5. Ended(j)' => Ended(j)
    <3>1. CASE Standing(d, "complete") /\ dispatch_queue' = Complete(dispatch_queue, i, d)
      <4>1. dispatch_queue'[j] = dispatch_queue[j] \/ j = i
        BY <1>0, <2>1, <3>1 DEF Complete, Settle, OwnedBy
      <4>2. QED
        BY <1>0, <2>1, <3>1, <4>1 DEF Ended, IdleDispatcher, Standing
    <3>2. CASE dispatch_queue' = Release(dispatch_queue, i, d)
      <4>1. dispatch_queue'[j] = dispatch_queue[j] \/ dispatch_queue'[j].state = "QUEUED"
        BY <1>0, <2>1, <3>2 DEF Release, Settle, OwnedBy
      <4>2. QED
        BY <1>0, <2>1, <4>1 DEF Ended, IdleDispatcher
    <3>3. QED
      BY <1>1, <1>6, <3>1, <3>2 DEF Drops
  <2>6. QED
    BY <1>0, <1>2, <2>1, <2>3, <2>4, <2>5 DEF InView, Unqueued
<1>7. QED
  BY <1>0, <1>4, <1>5, <1>6

LEMMA ReaderView ==
  ASSUME PipeInv, ViewInv, ReaderActs
  PROVE  ViewInv'
<1> SUFFICES ASSUME Quiet', NEW j \in Items
             PROVE  InView(j)'
  BY DEF ViewInv
<1>0. /\ TypeOK /\ Busy /\ StoreTypeOK
      /\ Quiet
      /\ UNCHANGED <<dispatch_queue, cleared, analyzer, dispatcher, admin>>
      /\ items \in [Items -> Item]
      /\ analyzer_queue \in [Items -> Row]
      /\ \A a \in Admins : Again(a, j)' <=> Again(a, j)
      /\ OneAnalyzer' = OneAnalyzer
  BY ReaderTables DEF PipeInv, TypeOK, StoreTypeOK, Again, OneAnalyzer
<1>1. InView(j)
  BY <1>0 DEF ViewInv
<1>2. reader.pc # "giveUp"
  BY <1>0 DEF Busy, ViewInv, InView
<1>3. ASSUME NEW i \in Items, ~items[i].present, items' = [items EXCEPT ![i] = NewItem],
             UNCHANGED analyzer_queue, reader'.pc # "giveUp"
      PROVE  InView(j)'
  <2>1. CASE j = i
    <3>1. ~Held(j)
      BY <1>0, <1>3, <2>1 DEF PipeInv, DeliveryInv, HeldIsPresent, Quiet
    <3>2. items'[j] = NewItem
      BY <1>0, <1>3, <2>1
    <3>3. ~InWork(j)' /\ ~Forwarded(j)' /\ ~Ended(j)' /\ ~Unqueued(j)'
      BY <1>0, <3>1, <3>2
         DEF InWork, Forwarded, Ended, Unqueued, Held, Again, NewItem, NoItem
    <3>4. QED
      BY <1>0, <1>3, <3>1, <3>2, <3>3 DEF InView, Held, NewItem, NoItem
  <2>2. CASE j # i
    <3>1. items'[j] = items[j]
      BY <1>0, <1>3, <2>2
    <3>2. QED
      BY <1>0, <1>1, <1>3, <3>1 DEF InView, InWork, Forwarded, Ended, Unqueued
  <2>3. QED
    BY <2>1, <2>2
<1>4. ASSUME NEW i \in Items, analyzer_queue' = Enqueue(analyzer_queue, i),
             UNCHANGED items, reader'.pc # "giveUp"
      PROVE  InView(j)'
  <2>1. analyzer_queue'[j] = analyzer_queue[j] \/ analyzer_queue'[j].state = "QUEUED"
    BY <1>0, <1>4, EnqueueRows
  <2>2. QED
    BY <1>0, <1>1, <1>4, <2>1 DEF InView, InWork, Forwarded, Ended, Unqueued, Open
<1>5. ASSUME NEW i \in Items, items' = MarkQueued(i), UNCHANGED analyzer_queue,
             reader'.pc # "giveUp"
      PROVE  InView(j)'
  <2>1. /\ items'[j].analyzed <=> items[j].analyzed
        /\ items'[j].dispatched <=> items[j].dispatched
        /\ items'[j].analyzedEnqueued <=> items[j].analyzedEnqueued
        /\ items'[j].status \in {items[j].status, "NEW"}
    BY <1>0, <1>5 DEF MarkQueued, UpdateItem, Item
  <2>2. /\ InWork(j)' => InWork(j)
        /\ Forwarded(j)' => Forwarded(j)
        /\ Ended(j)' <=> Ended(j)
        /\ Unqueued(j)' => Unqueued(j)
    BY <1>0, <2>1 DEF InWork, Forwarded, Ended, Unqueued
  <2>3. QED
    BY <1>0, <1>1, <1>5, <2>1, <2>2 DEF InView
<1>6. QED
  BY <1>0, <1>2, <1>3, <1>4, <1>5, ReaderTables

LEMMA AdminView ==
  ASSUME PipeInv, ViewInv, AdminActs
  PROVE  ViewInv'
<1> SUFFICES ASSUME Quiet', NEW j \in Items
             PROVE  InView(j)'
  BY DEF ViewInv
<1>0. /\ TypeOK /\ StoreTypeOK
      /\ Quiet
      /\ UNCHANGED <<analyzer, dispatcher, reader>>
      /\ items \in [Items -> Item]
      /\ cleared \in [Items -> Nat]
      /\ analyzer_queue \in [Items -> Row] /\ dispatch_queue \in [Items -> Row]
      /\ OneAnalyzer' = OneAnalyzer
      /\ NoRequest \notin Items
  BY AdminTables, OwnersAssumption DEF PipeInv, TypeOK, StoreTypeOK, OneAnalyzer, NoRequest
<1>1. InView(j)
  BY <1>0 DEF ViewInv
<1>2. PICK a \in Admins, i \in Items :
        (\A b \in Admins \ {a} : admin'[b] = admin[b]) /\ RequestEffect(a, i)
  BY AdminTables DEF PipeInv
<1>3. CASE /\ UNCHANGED <<tables, cleared>> /\ admin'[a].item = i
           /\ admin'[a].pc = "queueRaw" \/ (admin'[a].pc = "queueAnalyzed" /\ items[i].analyzed)
  <2>1. InWork(j)' => InWork(j)
    BY <1>2, <1>3, <1>0 DEF InWork, Again, tables
  <2>2. Forwarded(j)' => Forwarded(j)
    BY <1>2, <1>3, <1>0 DEF Forwarded, tables
  <2>3. QED
    BY <1>0, <1>1, <1>3, <2>1, <2>2 DEF InView, Ended, Unqueued, tables
<1>4. CASE /\ analyzer_queue' = Enqueue(analyzer_queue, i)
           /\ UNCHANGED <<items, dispatch_queue, cleared>>
           /\ admin'[a].pc = "resetRaw"
  <2>1. analyzer_queue'[j] = analyzer_queue[j] \/ analyzer_queue'[j].state = "QUEUED"
    BY <1>0, <1>4, EnqueueRows
  <2>2. InWork(j)' => InWork(j)
    BY <1>0, <1>2, <1>4 DEF InWork, Again
  <2>3. Forwarded(j)' => Forwarded(j)
    BY <1>0, <1>2, <1>4 DEF Forwarded
  <2>4. QED
    BY <1>0, <1>1, <1>4, <2>1, <2>2, <2>3 DEF InView, Ended, Unqueued, Open
<1>5. CASE /\ dispatch_queue' = Enqueue(dispatch_queue, i)
           /\ UNCHANGED <<items, analyzer_queue, cleared>>
           /\ admin[a].pc = "queueAnalyzed"
           /\ admin[a].item = i /\ admin'[a].item = i /\ admin'[a].pc = "resetAnalyzed"
  <2>1. /\ j # i => dispatch_queue'[j] = dispatch_queue[j]
        /\ j = i => dispatch_queue'[j].state = "QUEUED" /\ InWork(j)
    BY <1>0, <1>5, EnqueueRows DEF InWork, Again
  <2>2. InWork(j)' => InWork(j)
    BY <1>0, <1>2, <1>5, <2>1 DEF InWork, Again
  <2>3. Forwarded(j)' => Forwarded(j) \/ j = i
    BY <1>0, <1>2, <1>5 DEF Forwarded
  <2>4. Ended(j)' => Ended(j)
    BY <1>0, <1>5, <2>1 DEF Ended
  <2>5. QED
    BY <1>0, <1>1, <1>5, <2>1, <2>2, <2>3, <2>4 DEF InView, Unqueued
<1>6. ASSUME items' = MarkNew(i) \/ (items' = MarkAgain(i) /\ admin[a].pc = "resetAnalyzed"),
             UNCHANGED <<analyzer_queue, dispatch_queue>>,
             admin[a].item = i, admin'[a] = IdleAdmin,
             cleared' = [cleared EXCEPT ![i] = @ + 1]
      PROVE  InView(j)'
  <2>1. /\ \A b \in Admins : Again(b, j)' => Again(b, j)
        /\ \A b \in Admins : admin'[b].item = j => admin'[b] = admin[b]
    BY <1>0, <1>2, <1>6 DEF Again, IdleAdmin
  <2>2. CASE j # i
    <3>1. items'[j] = items[j] /\ cleared'[j] = cleared[j]
      BY <1>0, <1>6, <2>2, MarkOthers
    <3>2. QED
      BY <1>0, <1>1, <1>6, <2>1, <3>1 DEF InView, InWork, Forwarded, Ended, Unqueued
  <2>3. CASE j = i /\ items' = MarkNew(i)
    <3>1. /\ items'[j].analyzed <=> items[j].analyzed
          /\ items'[j].analyzedEnqueued <=> items[j].analyzedEnqueued
          /\ items'[j].status \in {items[j].status, "NEW"}
          /\ items'[j].status = "ANALYZED" => items'[j] = items[j]
      BY <1>0, <2>3 DEF MarkNew, UpdateItem, Item
    <3>2. /\ InWork(j)' => InWork(j)
          /\ Forwarded(j)' => Forwarded(j)
          /\ Unqueued(j)' => Unqueued(j)
      BY <1>0, <1>6, <2>1, <3>1 DEF InWork, Forwarded, Unqueued
    <3>3. cleared'[j] # 0
      BY <1>0, <1>6, <2>3
    <3>4. QED
      BY <1>0, <1>1, <1>6, <3>1, <3>2, <3>3 DEF InView
  <2>4. CASE j = i /\ items' = MarkAgain(i) /\ admin[a].pc = "resetAnalyzed"
    <3>1. InWork(j) /\ Forwarded(j)
      BY <1>6, <2>4 DEF InWork, Forwarded, Again
    <3>2. /\ items[j].analyzedEnqueued => items'[j].analyzedEnqueued
          /\ items'[j].status = "ANALYZED" =>
               items'[j] = items[j] \/ (~items'[j].dispatched /\ items'[j].analyzedEnqueued)
      BY <1>0, <2>4 DEF MarkAgain, UpdateItem, Item
    <3>3. cleared'[j] # 0
      BY <1>0, <1>6, <2>4
    <3>4. QED
      BY <1>0, <1>1, <1>6, <3>1, <3>2, <3>3 DEF InView, Unqueued
  <2>5. QED
    BY <1>6, <2>2, <2>3, <2>4
<1>7. QED
  BY <1>2, <1>3, <1>4, <1>5, <1>6 DEF RequestEffect

(* Time and crashes move no row, and the one analyzer that dies leaves its *)
(* job open.                                                               *)
LEMMA TimeView ==
  ASSUME PipeInv, ViewInv, SomeoneCrashes \/ \E i \in Items : LeaseExpires(i)
  PROVE  ViewInv'
<1> SUFFICES ASSUME Quiet', NEW j \in Items
             PROVE  InView(j)'
  BY DEF ViewInv
<1>0. /\ UNCHANGED <<items, cleared, faults, removals>>
      /\ analyzer_queue'[j].state = analyzer_queue[j].state
      /\ dispatch_queue'[j].state = dispatch_queue[j].state
      /\ \A w \in Analyzers : analyzer'[w] \in {analyzer[w], IdleAnalyzer}
      /\ \A d \in Dispatchers : dispatcher'[d] \in {dispatcher[d], IdleDispatcher}
      /\ \A a \in Admins : admin'[a] \in {admin[a], IdleAdmin}
      /\ reader' = reader \/ reader'.pc = "idle"
      /\ OneAnalyzer' = OneAnalyzer
      /\ NoOwner \notin Items
  BY CrashShape, LeaseShape, OwnersAssumption DEF PipeInv, Alike, OneAnalyzer, ReaderFell
<1>1. InView(j)
  BY <1>0 DEF ViewInv, Quiet
<1>2. InWork(j)' => InWork(j)
  BY <1>0 DEF InWork, Again, IdleAnalyzer, IdleDispatcher, IdleAdmin, NoJob, NoMessage
<1>3. Forwarded(j)' => Forwarded(j)
  BY <1>0 DEF Forwarded, IdleAnalyzer, IdleDispatcher, IdleAdmin, NoJob, NoMessage
<1>4. Ended(j)' => Ended(j)
  BY <1>0 DEF Ended, IdleDispatcher
<1>5. QED
  BY <1>0, <1>1, <1>2, <1>3, <1>4 DEF InView, Unqueued, Open, IdleAnalyzer

LEMMA NextView == ASSUME PipeInv, ViewInv, [Next]_vars PROVE ViewInv'
<1>1. CASE UNCHANGED vars
  BY <1>1 DEF vars, ViewInv, Quiet, InView, InWork, Forwarded, Ended, Unqueued, Again, OneAnalyzer
<1>2. QED
  BY <1>1, AnalyzerView, DispatcherView, ReaderView, AdminView, TimeView DEF Next

LEMMA MiscountView == ASSUME PipeInv, Miscount PROVE ViewInv'
BY DEF PipeInv, Miscount, Fault, TypeOK, StoreTypeOK, ViewInv, Quiet

LEMMA InitView == Init => ViewInv
<1> SUFFICES ASSUME Init, NEW i \in Items PROVE InView(i)
  BY DEF ViewInv
<1>1. /\ items[i] = NoItem /\ analyzer_queue[i] = NoRow /\ dispatch_queue[i] = NoRow
      /\ \A w \in Analyzers : analyzer[w].item # i
      /\ \A d \in Dispatchers : dispatcher[d].item # i
      /\ \A a \in Admins : admin[a].item # i
      /\ reader.item # i
  BY OwnersAssumption
     DEF Init, StoreInit, EmptyQueue, AnalyzerInit, IdleAnalyzer, NoJob, DispatcherInit,
         IdleDispatcher, NoMessage, ReaderInit, NoEntry, AdminInit, IdleAdmin,
         NoRequest
<1>2. QED
  BY <1>1 DEF InView, InWork, Forwarded, Ended, Unqueued, Again, NoItem, NoRow

LEMMA ViewInvariant == MonitorSpec => []ViewInv
<1>1. MonitorInit => ViewInv
  BY InitView DEF MonitorInit
<1>2. PipeInv /\ ViewInv /\ [MonitorNext]_monitorVars => ViewInv'
  BY MonitorSteps, MiscountView, NextView
<1>3. QED
  BY <1>1, <1>2, PipeInvariant, PTL DEF MonitorSpec

(* The feed view tells the truth about the queues, whatever leases expire, *)
(* processes crash and requests interleave: rows and payload are there for *)
(* any number of analyzers, and with one analyzer what is shown as queued  *)
(* or as analyzed is open in the queue it is shown in (the columns of the  *)
(* feed view, enqueueAnalyzerJob, enqueueDispatchJob and their stamps).    *)
THEOREM FeedViewIsRight == MonitorSpec => []FeedViewIsTrue
<1>1. PipeInv /\ ViewInv => FeedViewIsTrue
  <2> SUFFICES ASSUME PipeInv, ViewInv, Quiet, NEW i \in Items, items[i].present
               PROVE  /\ ShownRawEnqueued(i) => analyzer_queue[i].state # "ABSENT"
                      /\ ShownAnalyzedEnqueued(i) =>
                           HasAnalyzedVersion(i) /\ dispatch_queue[i].state # "ABSENT"
                      /\ (OneAnalyzer /\ DerivedQueueState(i) = "queued_analyzed" /\ cleared[i] = 0)
                           => Open(dispatch_queue[i])
                      /\ (OneAnalyzer /\ DerivedQueueState(i) = "not_enqueued_analyzed")
                           => Open(analyzer_queue[i])
    BY DEF FeedViewIsTrue, Quiet
  <2>1. InView(i)
    BY DEF ViewInv
  <2>2. /\ items[i].status \in Status /\ dispatch_queue[i].state \in RowState
        /\ analyzer_queue[i].state \in RowState
    BY DEF PipeInv, TypeOK, StoreTypeOK, Item, Row
  <2>3. /\ DerivedQueueState(i) = "queued_analyzed" =>
             items[i].status = "ANALYZED" /\ items[i].analyzedEnqueued
        /\ DerivedQueueState(i) = "not_enqueued_analyzed" => Unqueued(i)
    BY <2>2 DEF DerivedQueueState, RawState, Status, RowState, Unqueued
  <2>4. ShownRawEnqueued(i) => analyzer_queue[i].state # "ABSENT"
    BY <2>1 DEF ShownRawEnqueued, InView, InWork
  <2>5. ShownAnalyzedEnqueued(i) =>
          HasAnalyzedVersion(i) /\ dispatch_queue[i].state # "ABSENT"
    BY <2>1 DEF ShownAnalyzedEnqueued, HasAnalyzedVersion, InView, Forwarded, PipeInv,
                ResultBacked, OnItsWay, Quiet
  <2>6. (OneAnalyzer /\ DerivedQueueState(i) = "queued_analyzed" /\ cleared[i] = 0)
          => Open(dispatch_queue[i])
    BY <2>1, <2>2, <2>3 DEF InView, Forwarded, Ended, Open, RowState
  <2>7. QED
    BY <2>1, <2>3, <2>4, <2>5, <2>6 DEF InView
<1>2. QED
  BY <1>1, PipeInvariant, ViewInvariant, PTL

-----------------------------------------------------------------------------
(* What a report takes for granted. *)

(* Item i is in one of the lanes that are left when n of the six, in the   *)
(* order in which they are counted, have been counted.                     *)
Ahead(i, n) ==
  \/ n < 1 /\ analyzer_queue[i].state = "QUEUED"
  \/ n < 2 /\ analyzer_queue[i].state = "LEASED"
  \/ n < 3 /\ dispatch_queue[i].state = "QUEUED"
  \/ n < 4 /\ dispatch_queue[i].state = "LEASED"
  \/ n < 5 /\ items[i].present /\ items[i].status = "FAILED"
  \/ n < 6 /\ items[i].present /\ items[i].status = "DISPATCHED"

CountedOrAhead(n) ==
  \A i \in steady : cleared[i] = 0 => i \in report.counted \/ Ahead(i, n)

(* The report has run the first k of its queries, and every item that is   *)
(* steady is counted or in a lane that is still to be counted.             *)
ReportInv ==
  /\ steady \subseteq Items
  /\ DOMAIN report = {"serving", "todo", "counted"}
  /\ (OneAnalyzer /\ Quiet /\ report.serving) =>
       \/ \E k \in 0..6 : /\ report.todo = SubSeq(QueueMonitorQueries, k + 1, 6)
                          /\ CountedOrAhead(k)
       \/ \E k \in 0..3 : /\ report.todo = SubSeq(MetricsQueries, k + 1, 3)
                          /\ CountedOrAhead(2 * k)

LEMMA QuietBefore == ASSUME PipeInv, Quiet', Next PROVE Quiet
<1>0. TypeOK /\ Busy /\ StoreTypeOK
  BY DEF PipeInv, TypeOK
<1>1. CASE (\E w \in Analyzers : AnalyzerActs(w)) \/ (\E d \in Dispatchers : DispatcherActs(d))
  BY <1>0, <1>1, AnalyzerShape, DispatcherShape DEF Quiet, StoreTypeOK
<1>2. CASE ReaderActs \/ AdminActs
  BY <1>0, <1>2, ReaderTables, AdminTables
<1>3. CASE SomeoneCrashes \/ \E j \in Items : LeaseExpires(j)
  BY <1>0, <1>3, CrashShape, LeaseShape DEF Quiet
<1>4. QED
  BY <1>1, <1>2, <1>3 DEF Next

LEMMA StaysStored ==
  ASSUME PipeInv, ViewInv, Quiet', Next, NEW i \in Items
  PROVE  /\ items[i].present => items'[i].present
         /\ cleared'[i] = 0 => cleared[i] = 0
<1>0. /\ TypeOK /\ Busy /\ StoreTypeOK /\ Quiet
      /\ items \in [Items -> Item] /\ cleared \in [Items -> Nat]
  BY QuietBefore DEF PipeInv, TypeOK, StoreTypeOK
<1>1. CASE \E w \in Analyzers : AnalyzerActs(w)
  <2>1. PICK w \in Analyzers : AnalyzerActs(w)
    BY <1>1
  <2>2. UNCHANGED cleared
    BY <1>0, <2>1, AnalyzerShape
  <2>3. \/ UNCHANGED items
        \/ \E j \in Items : items' \in {MarkFailed(j), MarkAnalyzed(j), MarkHandedOver(j)}
    BY <1>0, <2>1, AnalyzerShape DEF Takes, Works, Ends, Busy, At
  <2>4. QED
    BY <1>0, <2>2, <2>3, MarkEffects
<1>2. CASE \E d \in Dispatchers : DispatcherActs(d)
  <2>1. PICK d \in Dispatchers : DispatcherActs(d)
    BY <1>2
  <2>2. UNCHANGED cleared
    BY <1>0, <2>1, DispatcherShape
  <2>3. \/ UNCHANGED items
        \/ \E j \in Items : items' \in {MarkUndelivered(j), MarkDispatched(j)}
    BY <1>0, <2>1, DispatcherShape DEF TakesMessage, Carries, Drops, Busy, Standing
  <2>4. QED
    BY <1>0, <2>2, <2>3, MarkEffects, RecordEffects
<1>3. CASE ReaderActs
  <2>1. UNCHANGED cleared /\ reader.pc # "giveUp"
    BY <1>0, <1>3, ReaderTables DEF Busy, ViewInv, InView
  <2>2. \/ UNCHANGED items
        \/ \E j \in Items : items' = [items EXCEPT ![j] = NewItem]
        \/ \E j \in Items : items' = MarkQueued(j)
    BY <1>0, <1>3, <2>1, ReaderTables
  <2>3. QED
    BY <1>0, <2>1, <2>2, MarkEffects DEF NewItem, NoItem
<1>4. CASE AdminActs
  <2>1. PICK a \in Admins, j \in Items : RequestEffect(a, j)
    BY <1>0, <1>4, AdminTables
  <2>2. \/ UNCHANGED <<items, cleared>>
        \/ /\ items' \in {MarkNew(j), MarkAgain(j)}
           /\ cleared' = [cleared EXCEPT ![j] = @ + 1]
    BY <2>1 DEF RequestEffect, tables
  <2>3. items[i].present => items'[i].present
    BY <1>0, <2>2, ResetEffects
  <2>4. cleared'[i] = 0 => cleared[i] = 0
    BY <1>0, <2>2
  <2>5. QED
    BY <2>3, <2>4
<1>5. CASE SomeoneCrashes \/ \E j \in Items : LeaseExpires(j)
  BY <1>0, <1>5, CrashShape, LeaseShape
<1>6. QED
  BY <1>1, <1>2, <1>3, <1>4, <1>5 DEF Next

(* An item whose row closes goes on to the next lane. *)
LEMMA GoesOn ==
  ASSUME PipeInv, ViewInv, Quiet, Quiet', OneAnalyzer, NEW i \in Items, cleared[i] = 0,
         ~SetBack(i), UNCHANGED items,
         items[i].present, items[i].dispatched \/ (Quarantined(i)' /\ ~items[i].analyzed)
  PROVE  items'[i].present /\ items'[i].status \in {"FAILED", "DISPATCHED"}
<1>1. InView(i)
  BY DEF ViewInv
<1>2. items[i].status # "ANALYZED"
  BY <1>1 DEF InView, PipeInv, ResultBacked, OnItsWay, Quiet
<1>3. items[i].status # "NEW"
  BY DEF SetBack, Settled, Quarantined
<1>4. QED
  BY <1>2, <1>3 DEF PipeInv, TypeOK, StoreTypeOK, Item, Status

LEMMA LaneStep ==
  ASSUME PipeInv, ViewInv, Quiet', Next, OneAnalyzer, NEW i \in Items, cleared'[i] = 0,
         ~SetBack(i), NEW n \in Nat, Ahead(i, n)
  PROVE  Ahead(i, n)'
<1>0. /\ TypeOK /\ Busy /\ WorkInv /\ StoreTypeOK
      /\ Quiet /\ cleared[i] = 0
      /\ items[i].present => items'[i].present
  BY StaysStored, QuietBefore DEF PipeInv, TypeOK
<1>1. /\ RawMoves(i) /\ DispatchMoves(i) /\ InView(i)
      /\ analyzer_queue[i].state \in RowState /\ analyzer_queue'[i].state \in RowState
      /\ dispatch_queue[i].state \in RowState /\ dispatch_queue'[i].state \in RowState
  BY <1>0, NextMoves, NextType DEF ViewInv, TypeOK, StoreTypeOK, Row
<1>2. /\ ~(analyzer_queue[i].state = "LEASED" /\ analyzer_queue'[i].state = "QUEUED")
      /\ ~(dispatch_queue[i].state = "LEASED" /\ dispatch_queue'[i].state = "QUEUED")
      /\ items[i].status \in {"FAILED", "DISPATCHED"} => items'[i].status = items[i].status
  BY DEF SetBack
<1>3. (analyzer_queue[i].state # "ABSENT" \/ dispatch_queue[i].state # "ABSENT")
        => items[i].present
  BY <1>0 DEF PipeInv, DeliveryInv, HeldIsPresent, Held, Quiet
<1>4. ASSUME Ended(i), UNCHANGED items, items[i].present, n < 5
      PROVE  Ahead(i, n)'
  <2>1. items[i].dispatched
    BY <1>0, <1>1, <1>4 DEF InView
  <2>2. items'[i].present /\ items'[i].status \in {"FAILED", "DISPATCHED"}
    BY <1>0, <1>4, <2>1, GoesOn
  <2>3. QED
    BY <1>4, <2>2 DEF Ahead
<1>5. CASE Open(analyzer_queue[i]) /\ n < 2 /\ (n < 1 \/ analyzer_queue[i].state = "LEASED")
  <2>1. CASE Open(analyzer_queue'[i])
    BY <1>1, <1>2, <1>5, <2>1 DEF Ahead, Open
  <2>2. CASE ~Open(analyzer_queue'[i])
    <3>1. UNCHANGED <<items, dispatch_queue>> /\ items[i].present
      BY <1>1, <1>3, <1>5, <2>2 DEF RawMoves, Open
    <3>2. PICK w \in Analyzers :
            /\ analyzer[w].item = i
            /\ At(w, "complete") \/ (At(w, "fail") /\ Quarantined(i)')
      BY <1>1, <1>5, <2>2 DEF RawMoves, Quarantined
    <3>3. CASE At(w, "complete")
      <4>1. dispatch_queue[i].state # "ABSENT"
        BY <1>1, <3>2, <3>3 DEF InView, Forwarded, At
      <4>2. CASE Open(dispatch_queue[i])
        BY <1>5, <3>1, <4>2 DEF Ahead, Open
      <4>3. CASE dispatch_queue[i].state = "DONE"
        BY <1>4, <1>5, <3>1, <4>3 DEF Ended
      <4>4. QED
        BY <1>1, <4>1, <4>2, <4>3 DEF Open, RowState
    <3>4. CASE At(w, "fail") /\ Quarantined(i)'
      <4>1. ~items[i].analyzed
        BY <1>0, <3>2, <3>4 DEF PipeInv, QuarantineInv, Quiet, Unanswered, At
      <4>2. items'[i].present /\ items'[i].status \in {"FAILED", "DISPATCHED"}
        BY <1>0, <3>1, <3>4, <4>1, GoesOn
      <4>3. QED
        BY <1>5, <4>2 DEF Ahead
    <3>5. QED
      BY <3>2, <3>3, <3>4
  <2>3. QED
    BY <2>1, <2>2
<1>6. CASE Open(dispatch_queue[i]) /\ n < 4 /\ (n < 3 \/ dispatch_queue[i].state = "LEASED")
  <2>1. CASE Open(dispatch_queue'[i])
    BY <1>1, <1>2, <1>6, <2>1 DEF Ahead, Open
  <2>2. CASE ~Open(dispatch_queue'[i])
    <3>1. UNCHANGED items /\ items[i].present
      BY <1>1, <1>3, <1>6, <2>2 DEF DispatchMoves, Open
    <3>2. Ended(i)
      BY <1>1, <1>6, <2>2 DEF DispatchMoves, Ended, Standing
    <3>3. QED
      BY <1>4, <1>6, <3>1, <3>2
  <2>3. QED
    BY <2>1, <2>2
<1>7. CASE /\ items[i].present
           /\ \/ n < 5 /\ items[i].status = "FAILED"
              \/ n < 6 /\ items[i].status = "DISPATCHED"
  BY <1>0, <1>2, <1>7 DEF Ahead
<1>8. QED
  BY <1>5, <1>6, <1>7 DEF Ahead, Open

LEMMA ListOfSix ==
  ASSUME NEW S, NEW a \in S, NEW b \in S, NEW c \in S, NEW d \in S, NEW e \in S, NEW f \in S
  PROVE  <<a, b, c, d, e, f>> \in Seq(S) /\ Len(<<a, b, c, d, e, f>>) = 6
OBVIOUS

LEMMA ListOfThree ==
  ASSUME NEW S, NEW a \in S, NEW b \in S, NEW c \in S
  PROVE  <<a, b, c>> \in Seq(S) /\ Len(<<a, b, c>>) = 3
OBVIOUS

Queries == {{"raw_backlog"}, {"raw_inflight"}, {"analyzed_backlog"}, {"analyzed_inflight"},
            {"failed"}, {"dispatched_total"}, {"raw_backlog", "raw_inflight"},
            {"analyzed_backlog", "analyzed_inflight"}, {"failed", "dispatched"}}

LEMMA QueryLists ==
  /\ QueueMonitorQueries \in Seq(Queries) /\ Len(QueueMonitorQueries) = 6
  /\ MetricsQueries \in Seq(Queries) /\ Len(MetricsQueries) = 3
<1>1. /\ {"raw_backlog"} \in Queries /\ {"raw_inflight"} \in Queries
      /\ {"analyzed_backlog"} \in Queries /\ {"analyzed_inflight"} \in Queries
      /\ {"failed"} \in Queries /\ {"dispatched_total"} \in Queries
  BY DEF Queries
<1>2. /\ {"raw_backlog", "raw_inflight"} \in Queries
      /\ {"analyzed_backlog", "analyzed_inflight"} \in Queries
      /\ {"failed", "dispatched"} \in Queries
  BY DEF Queries
<1>3. QueueMonitorQueries \in Seq(Queries) /\ Len(QueueMonitorQueries) = 6
  BY <1>1, ListOfSix DEF QueueMonitorQueries
<1>4. MetricsQueries \in Seq(Queries) /\ Len(MetricsQueries) = 3
  BY <1>2, ListOfThree DEF MetricsQueries
<1>5. QED
  BY <1>3, <1>4

(* A query that counts lane n + 1 takes an item from "ahead" to "counted". *)
LEMMA CountsLane ==
  ASSUME PipeInv, NEW i \in Items
  PROVE  /\ Ahead(i, 0) => i \in Gauge["raw_backlog"] \/ Ahead(i, 1)
         /\ Ahead(i, 1) => i \in Gauge["raw_inflight"] \/ Ahead(i, 2)
         /\ Ahead(i, 2) => i \in Gauge["analyzed_backlog"] \/ Ahead(i, 3)
         /\ Ahead(i, 3) => i \in Gauge["analyzed_inflight"] \/ Ahead(i, 4)
         /\ Ahead(i, 4) => i \in Gauge["failed"] \/ Ahead(i, 5)
         /\ Ahead(i, 5) => i \in Gauge["dispatched_total"] /\ i \in Gauge["dispatched"]
         /\ ~Ahead(i, 6)
BY DEF Ahead, Gauge, CountQueueStates, CountItemStatuses, PipeInv, ResultBacked

LEMMA MonitorQuery ==
  ASSUME PipeInv, NEW k \in 0..5, NEW i \in Items, Ahead(i, k)
  PROVE  (\E g \in QueueMonitorQueries[k + 1] : i \in Gauge[g]) \/ Ahead(i, k + 1)
<1>1. k = 0 \/ k = 1 \/ k = 2 \/ k = 3 \/ k = 4 \/ k = 5
  OBVIOUS
<1>2. /\ QueueMonitorQueries[1] = {"raw_backlog"} /\ QueueMonitorQueries[2] = {"raw_inflight"}
      /\ QueueMonitorQueries[3] = {"analyzed_backlog"}
      /\ QueueMonitorQueries[4] = {"analyzed_inflight"}
      /\ QueueMonitorQueries[5] = {"failed"} /\ QueueMonitorQueries[6] = {"dispatched_total"}
  BY DEF QueueMonitorQueries
<1>3. QED
  BY <1>1, <1>2, CountsLane

LEMMA MetricsQuery ==
  ASSUME PipeInv, NEW k \in 0..2, NEW i \in Items, Ahead(i, 2 * k)
  PROVE  (\E g \in MetricsQueries[k + 1] : i \in Gauge[g]) \/ Ahead(i, 2 * (k + 1))
<1>1. k = 0 \/ k = 1 \/ k = 2
  OBVIOUS
<1>2. /\ MetricsQueries[1] = {"raw_backlog", "raw_inflight"}
      /\ MetricsQueries[2] = {"analyzed_backlog", "analyzed_inflight"}
      /\ MetricsQueries[3] = {"failed", "dispatched"}
  BY DEF MetricsQueries
<1>3. QED
  BY <1>1, <1>2, CountsLane

(* A step of a service: what is still steady stays ahead. *)
LEMMA ReportGoesOn ==
  ASSUME PipeInv, ViewInv, ReportInv, PipelineStep
  PROVE  ReportInv'
<1>1. /\ steady' = {i \in steady : ~SetBack(i)} /\ UNCHANGED report /\ Next
      /\ steady \subseteq Items /\ OneAnalyzer' = OneAnalyzer
  BY DEF PipelineStep, ReportInv, OneAnalyzer
<1>2. ASSUME OneAnalyzer, Quiet', NEW n \in Nat, CountedOrAhead(n)
      PROVE  CountedOrAhead(n)'
  <2> SUFFICES ASSUME NEW i \in steady', cleared'[i] = 0, i \notin report.counted
               PROVE  Ahead(i, n)'
    BY <1>1 DEF CountedOrAhead
  <2>1. i \in steady /\ i \in Items /\ ~SetBack(i)
    BY <1>1
  <2>2. cleared[i] = 0
    BY <1>1, <1>2, <2>1, StaysStored
  <2>3. Ahead(i, n)
    BY <1>2, <2>1, <2>2 DEF CountedOrAhead
  <2>4. QED
    BY <1>1, <1>2, <2>1, <2>3, LaneStep
<1>3. CASE OneAnalyzer /\ Quiet' /\ report.serving
  <2>1. Quiet
    BY <1>1, <1>3, QuietBefore
  <2>2. CASE \E k \in 0..6 : /\ report.todo = SubSeq(QueueMonitorQueries, k + 1, 6)
                             /\ CountedOrAhead(k)
    <3>1. PICK k \in 0..6 : /\ report.todo = SubSeq(QueueMonitorQueries, k + 1, 6)
                            /\ CountedOrAhead(k)
      BY <2>2
    <3>2. CountedOrAhead(k)'
      BY <1>2, <1>3, <3>1
    <3>3. QED
      BY <1>1, <3>1, <3>2 DEF ReportInv
  <2>3. CASE \E k \in 0..3 : /\ report.todo = SubSeq(MetricsQueries, k + 1, 3)
                             /\ CountedOrAhead(2 * k)
    <3>1. PICK k \in 0..3 : /\ report.todo = SubSeq(MetricsQueries, k + 1, 3)
                            /\ CountedOrAhead(2 * k)
      BY <2>3
    <3>2. CountedOrAhead(2 * k)'
      BY <1>2, <1>3, <3>1
    <3>3. QED
      BY <1>1, <3>1, <3>2 DEF ReportInv
  <2>4. QED
    BY <1>3, <2>1, <2>2, <2>3 DEF ReportInv
<1>4. QED
  BY <1>1, <1>3 DEF ReportInv

LEMMA LastIsRead ==
  ASSUME NEW S, NEW s \in Seq(S), NEW k \in 0..Len(s), SubSeq(s, k + 1, Len(s)) = <<>>
  PROVE  k = Len(s)
<1> SUFFICES ASSUME k < Len(s) PROVE FALSE
  OBVIOUS
<1>1. \A i \in (k + 1)..Len(s) : s[i] \in S
  OBVIOUS
<1>2. Len(SubSeq(s, k + 1, Len(s))) = Len(s) - (k + 1) + 1
  BY <1>1, SubSeqProperties
<1>3. Len(SubSeq(s, k + 1, Len(s))) = 0
  <2>1. \A t : t = <<>> => Len(t) = 0
    OBVIOUS
  <2>2. QED
    BY <2>1
<1>4. QED
  BY <1>2, <1>3

(* When a report begins, every item in the pipeline is in some lane.       *)
LEMMA ReportStarts ==
  ASSUME PipeInv, NEW queries,
         \/ queries = QueueMonitorQueries \/ queries = MetricsQueries,
         StartReport(queries)
  PROVE  ReportInv'
<1>1. /\ report' = [serving |-> TRUE, todo |-> queries, counted |-> {}]
      /\ steady' = InPipeline /\ UNCHANGED vars
  BY DEF StartReport
<1>2. InPipeline \subseteq Items /\ \A i \in InPipeline : Ahead(i, 0)
  BY DEF InPipeline, Open, Gauge, CountItemStatuses, Ahead
<1>3. CountedOrAhead(0)'
  BY <1>1, <1>2 DEF CountedOrAhead, Ahead, vars
<1>4. CASE queries = QueueMonitorQueries
  <2>1. queries = SubSeq(QueueMonitorQueries, 0 + 1, 6)
    BY <1>4, QueryLists, SubSeqFull
  <2>2. \E k \in 0..6 : /\ report'.todo = SubSeq(QueueMonitorQueries, k + 1, 6)
                        /\ CountedOrAhead(k)'
    BY <1>1, <1>3, <2>1
  <2>3. QED
    BY <1>1, <1>2, <2>2 DEF ReportInv
<1>5. CASE queries = MetricsQueries
  <2>1. queries = SubSeq(MetricsQueries, 0 + 1, 3)
    BY <1>5, QueryLists, SubSeqFull
  <2>2. \E k \in 0..3 : /\ report'.todo = SubSeq(MetricsQueries, k + 1, 3)
                        /\ CountedOrAhead(2 * k)'
    BY <1>1, <1>3, <2>1
  <2>3. QED
    BY <1>1, <1>2, <2>2 DEF ReportInv
<1>6. QED
  BY <1>4, <1>5

LEMMA ReportCounts ==
  ASSUME PipeInv, ReportInv, QueryCount
  PROVE  ReportInv'
<1>1. /\ report.todo # <<>> /\ UNCHANGED <<steady, items, analyzer_queue, dispatch_queue, cleared>>
      /\ faults \in Nat /\ UNCHANGED removals
      /\ steady \subseteq Items /\ OneAnalyzer' = OneAnalyzer
      /\ DOMAIN report = {"serving", "todo", "counted"}
  BY DEF QueryCount, tables, history, PipeInv, TypeOK, StoreTypeOK, ReportInv, OneAnalyzer
<1>2. /\ DOMAIN report' = {"serving", "todo", "counted"}
      /\ report'.serving = report.serving /\ report'.todo = Tail(report.todo)
  BY <1>1 DEF QueryCount
<1>3. ASSUME Quiet'
      PROVE  /\ Quiet
             /\ report'.counted = report.counted \cup UNION {Gauge[g] : g \in Head(report.todo)}
  <2>1. Quiet /\ ~Fault
    BY <1>1, <1>3 DEF QueryCount, Fault, NoFault, Quiet
  <2>2. report' = [report EXCEPT !.todo = Tail(@),
                    !.counted = @ \cup UNION {Gauge[g] : g \in Head(report.todo)}]
    BY <2>1 DEF QueryCount
  <2>3. QED
    BY <1>1, <2>1, <2>2
<1>4. ASSUME Quiet', NEW n \in Nat, NEW m \in Nat, CountedOrAhead(n),
             \A i \in Items : Ahead(i, n) =>
               (\E g \in Head(report.todo) : i \in Gauge[g]) \/ Ahead(i, m)
      PROVE  CountedOrAhead(m)'
  <2> SUFFICES ASSUME NEW i \in steady, cleared[i] = 0, i \notin report'.counted
               PROVE  Ahead(i, m)
    BY <1>1 DEF CountedOrAhead, Ahead
  <2>1. i \notin report.counted /\ i \notin UNION {Gauge[g] : g \in Head(report.todo)}
    BY <1>3, <1>4
  <2>2. QED
    BY <1>1, <1>4, <2>1 DEF CountedOrAhead
<1>5. CASE OneAnalyzer /\ Quiet' /\ report.serving
  <2>1. CASE \E k \in 0..6 : /\ report.todo = SubSeq(QueueMonitorQueries, k + 1, 6)
                             /\ CountedOrAhead(k)
    <3>1. PICK k \in 0..6 : /\ report.todo = SubSeq(QueueMonitorQueries, k + 1, 6)
                            /\ CountedOrAhead(k)
      BY <2>1
    <3>2. k \in 0..5
      BY <1>1, <3>1, SubSeqEmpty
    <3>3. /\ Head(report.todo) = QueueMonitorQueries[k + 1]
          /\ Tail(report.todo) = SubSeq(QueueMonitorQueries, (k + 1) + 1, 6)
      BY <3>1, <3>2, QueryLists, HeadTailOfSubSeq
    <3>4. CountedOrAhead(k + 1)'
      BY <1>4, <1>5, <3>1, <3>2, <3>3, MonitorQuery
    <3>5. k + 1 \in 0..6
      BY <3>2
    <3>6. QED
      BY <1>1, <1>2, <3>3, <3>4, <3>5 DEF ReportInv
  <2>2. CASE \E k \in 0..3 : /\ report.todo = SubSeq(MetricsQueries, k + 1, 3)
                             /\ CountedOrAhead(2 * k)
    <3>1. PICK k \in 0..3 : /\ report.todo = SubSeq(MetricsQueries, k + 1, 3)
                            /\ CountedOrAhead(2 * k)
      BY <2>2
    <3>2. k \in 0..2
      BY <1>1, <3>1, SubSeqEmpty
    <3>3. /\ Head(report.todo) = MetricsQueries[k + 1]
          /\ Tail(report.todo) = SubSeq(MetricsQueries, (k + 1) + 1, 3)
      BY <3>1, <3>2, QueryLists, HeadTailOfSubSeq
    <3>4. CountedOrAhead(2 * (k + 1))'
      BY <1>4, <1>5, <3>1, <3>2, <3>3, MetricsQuery
    <3>5. k + 1 \in 0..3
      BY <3>2
    <3>6. QED
      BY <1>1, <1>2, <3>3, <3>4, <3>5 DEF ReportInv
  <2>3. QED
    BY <1>3, <1>5, <2>1, <2>2 DEF ReportInv
<1>6. QED
  BY <1>1, <1>2, <1>5 DEF ReportInv

LEMMA ReportAnswered == ASSUME AnswerReport PROVE ReportInv'
BY DEF AnswerReport, NoReport, ReportInv

LEMMA ReportRests == ASSUME ReportInv, UNCHANGED monitorVars PROVE ReportInv'
BY DEF ReportInv, CountedOrAhead, Ahead, Quiet, OneAnalyzer, monitorVars, vars

LEMMA ReportInvariant == MonitorSpec => []ReportInv
<1>1. MonitorInit => ReportInv
  BY DEF MonitorInit, NoReport, ReportInv
<1>2. PipeInv /\ ViewInv /\ ReportInv /\ [MonitorNext]_monitorVars => ReportInv'
  <2> SUFFICES ASSUME PipeInv, ViewInv, ReportInv, [MonitorNext]_monitorVars
               PROVE  ReportInv'
    OBVIOUS
  <2>1. CASE StartReport(QueueMonitorQueries) \/ StartReport(MetricsQueries)
    BY <2>1, ReportStarts
  <2>2. QED
    BY <2>1, ReportGoesOn, ReportCounts, ReportAnswered, ReportRests DEF MonitorNext
<1>3. QED
  BY <1>1, <1>2, PipeInvariant, ViewInvariant, PTL DEF MonitorSpec

(* A report of the queue monitor or of the metrics misses no item that was *)
(* in the pipeline when it began and that nothing set back: its SELECTs    *)
(* are ordered as the items move (handleQueueMonitor,                      *)
(* observePipelineMetrics), whatever the services do between two of them.  *)
THEOREM ReportIsComplete == MonitorSpec => []ReportMissesNothing
<1>1. ReportInv => ReportMissesNothing
  <2> SUFFICES ASSUME ReportInv, OneAnalyzer, Quiet, report.serving, report.todo = <<>>,
                      NEW i \in steady, cleared[i] = 0
               PROVE  i \in report.counted
    BY DEF ReportMissesNothing, Quiet
  <2>1. ~Ahead(i, 6)
    BY DEF Ahead
  <2>2. CASE \E k \in 0..6 : /\ report.todo = SubSeq(QueueMonitorQueries, k + 1, 6)
                             /\ CountedOrAhead(k)
    <3>1. PICK k \in 0..6 : /\ report.todo = SubSeq(QueueMonitorQueries, k + 1, 6)
                            /\ CountedOrAhead(k)
      BY <2>2
    <3>2. k = 6
      BY <3>1, LastIsRead, QueryLists
    <3>3. QED
      BY <2>1, <3>1, <3>2 DEF CountedOrAhead
  <2>3. CASE \E k \in 0..3 : /\ report.todo = SubSeq(MetricsQueries, k + 1, 3)
                             /\ CountedOrAhead(2 * k)
    <3>1. PICK k \in 0..3 : /\ report.todo = SubSeq(MetricsQueries, k + 1, 3)
                            /\ CountedOrAhead(2 * k)
      BY <2>3
    <3>2. k = 3
      BY <3>1, LastIsRead, QueryLists
    <3>3. QED
      BY <2>1, <3>1, <3>2 DEF CountedOrAhead
  <2>4. QED
    BY <2>2, <2>3 DEF ReportInv
<1>2. QED
  BY <1>1, ReportInvariant, PTL
=============================================================================
