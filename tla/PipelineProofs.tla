-------------------------- MODULE PipelineProofs --------------------------
(***************************************************************************)
(* Theorems about Pipeline for any number of items, workers and requests   *)
(* and for every bound.                                                    *)
(***************************************************************************)
EXTENDS Pipeline, FiniteSetTheorems, TLAPS

-----------------------------------------------------------------------------
(* The queue operators map a table of rows to a table of rows. *)

LEMMA EnqueueType ==
  ASSUME NEW q \in [Items -> Row], NEW i \in Items
  PROVE  Enqueue(q, i) \in [Items -> Row]
<1>1. Cardinality(Rows(q)) \in Nat
  BY FS_Subset, FS_CardinalityType, ItemsAssumption DEF Rows
<1>2. q[i] \in Row
  OBVIOUS
<1>3. (IF q[i].state = "ABSENT" THEN Cardinality(Rows(q)) + 1 ELSE q[i].rank) \in Nat
  BY <1>1, <1>2 DEF Row
<1>4. QED
  BY <1>2, <1>3 DEF Enqueue, Row, RowState

LEMMA ClaimType ==
  ASSUME NEW q \in [Items -> Row], NEW i \in Items, NEW w \in Workers, NEW cap
  PROVE  Claim(q, i, w, cap) \in [Items -> Row]
<1>1. (IF q[i].count < cap THEN q[i].count + 1 ELSE q[i].count) \in Nat
  BY DEF Row
<1>2. QED
  BY <1>1 DEF Claim, Row, RowState

LEMMA SettleType ==
  ASSUME NEW q \in [Items -> Row], NEW i \in Items, NEW w
  PROVE  /\ Complete(q, i, w) \in [Items -> Row]
         /\ Release(q, i, w) \in [Items -> Row]
         /\ Fail(q, i, w) \in [Items -> Row]
BY DEF Complete, Release, Fail, Settle, Row, RowState

LEMMA DeleteRowType ==
  ASSUME NEW q \in [Items -> Row], NEW i \in Items
  PROVE  DeleteRow(q, i) \in [Items -> Row]
<1>1. NoRow \in Row
  BY DEF NoRow, Row, RowState
<1>2. ASSUME NEW j \in Items, j # i, q[j].rank > q[i].rank
      PROVE  [q[j] EXCEPT !.rank = @ - 1] \in Row
  BY <1>2 DEF Row
<1>3. QED
  BY <1>1, <1>2 DEF DeleteRow

LEMMA ExpireType ==
  ASSUME NEW q \in [Items -> Row], NEW i \in Items
  PROVE  Expire(q, i) \in [Items -> Row]
BY DEF Expire, Row

LEMMA OrphanType ==
  ASSUME NEW q \in [Items -> Row], NEW w
  PROVE  Orphan(q, w) \in [Items -> Row]
BY DEF Orphan, Row

(* A statement on rss_items keeps the table a table of items. *)
LEMMA MarkTypes ==
  ASSUME StoreTypeOK, NEW i \in Items
  PROVE  /\ MarkFailed(i) \in [Items -> Item]
         /\ MarkAnalyzed(i) \in [Items -> Item]
         /\ MarkHandedOver(i) \in [Items -> Item]
         /\ MarkUndelivered(i) \in [Items -> Item]
         /\ MarkDispatched(i) \in [Items -> Item]
         /\ MarkQueued(i) \in [Items -> Item]
         /\ MarkUnqueued(i) \in [Items -> Item]
         /\ MarkNew(i) \in [Items -> Item]
         /\ MarkAgain(i) \in [Items -> Item]
BY DEF StoreTypeOK, UpdateItem, MarkFailed, MarkAnalyzed, MarkHandedOver, MarkUndelivered,
       MarkDispatched, MarkQueued, MarkUnqueued, MarkNew, MarkAgain, Item, Status

LEMMA FaultType == (Fault \/ NoFault) /\ faults \in 0..MaxFaults => faults' \in 0..MaxFaults
BY BudgetAssumption DEF Fault, NoFault

-----------------------------------------------------------------------------
(* Type correctness. *)

LEMMA IdleTypes == IdleAnalyzer \in AnalyzerLocals /\ IdleDispatcher \in DispatcherLocals
<1>1. 1 \in 1..AnalyzerRetries /\ 1 \in 1..DispatcherRetries
  BY AnalyzerAssumption, DispatcherAssumption
<1>2. IdleAnalyzer \in AnalyzerLocals
  BY <1>1, Zenon DEF IdleAnalyzer, AnalyzerLocals, AnalyzerPc
<1>3. IdleDispatcher \in DispatcherLocals
  BY <1>1, Zenon DEF IdleDispatcher, DispatcherLocals, DispatcherPc
<1>4. QED
  BY <1>2, <1>3

LEMMA InitTypeOK == Init => TypeOK
<1> SUFFICES ASSUME Init PROVE TypeOK
  OBVIOUS
<1>1. NoItem \in Item /\ NoRow \in Row
  BY DEF NoItem, Item, Status, NoRow, Row, RowState
<1>2. StoreTypeOK
  BY <1>1, BudgetAssumption DEF Init, StoreInit, StoreTypeOK, EmptyQueue
<1>3. AnalyzerTypeOK
  BY IdleTypes DEF Init, AnalyzerInit, AnalyzerTypeOK
<1>4. DispatcherTypeOK
  BY IdleTypes DEF Init, DispatcherInit, DispatcherTypeOK
<1>5. ReaderTypeOK /\ AdminTypeOK
  BY AdminAssumption
     DEF Init, ReaderInit, ReaderTypeOK, ReaderPc,
         AdminInit, AdminTypeOK, IdleAdmin, AdminPc
<1>6. QED
  BY <1>2, <1>3, <1>4, <1>5 DEF TypeOK

(* A busy worker, reader or request holds an item. *)
Busy ==
  /\ \A w \in Analyzers : analyzer[w].pc # "idle" => analyzer[w].item \in Items
  /\ \A d \in Dispatchers : dispatcher[d].pc # "idle" => dispatcher[d].item \in Items
  /\ reader.pc # "idle" => reader.item \in Items
  /\ \A a \in Admins : admin[a].pc # "idle" => admin[a].item \in Items

LEMMA InitBusy == Init => Busy
BY DEF Init, Busy, AnalyzerInit, IdleAnalyzer, DispatcherInit, IdleDispatcher,
       ReaderInit, AdminInit, IdleAdmin

LEMMA AnalyzerType ==
  ASSUME TypeOK, Busy, NEW w \in Analyzers, AnalyzerActs(w)
  PROVE  TypeOK' /\ Busy'
<1> DEFINE i == analyzer[w].item
<1> USE DEF TypeOK
<1>0. /\ w \in Workers
      /\ analyzer \in [Analyzers -> AnalyzerLocals]
      /\ At(w, "idle") \/ i \in Items
  BY WorkersAssumption DEF AnalyzerTypeOK, Busy, At
<1>1. /\ UNCHANGED <<history, crashes, removals, dispatcher, reader, admin, requeues>>
      /\ DispatcherTypeOK' /\ ReaderTypeOK' /\ AdminTypeOK'
  BY DEF AnalyzerActs, AnalyzerStep, DispatcherTypeOK, ReaderTypeOK, AdminTypeOK
<1>2. faults' \in 0..MaxFaults
  <2>1. Fault \/ NoFault
    BY DEF AnalyzerActs, AnalyzerStep, ClaimRaw, InterruptRaw, FindStored, AnalyzeOk,
           AnalyzeFails, InterruptAnalysis, Judge, MarkPoison, FailClaim, HandOver,
           StampHandOver, CompleteClaim, ReleaseClaim, NoFault
  <2>2. QED
    BY <2>1, FaultType DEF StoreTypeOK
<1>3. items' \in [Items -> Item]
  <2>1. \/ UNCHANGED items
        \/ i \in Items /\ items' \in {MarkFailed(i), MarkAnalyzed(i), MarkHandedOver(i)}
    BY <1>0
       DEF AnalyzerActs, AnalyzerStep, ClaimRaw, InterruptRaw, FindStored, AnalyzeOk,
           AnalyzeFails, InterruptAnalysis, Judge, MarkPoison, FailClaim, HandOver,
           StampHandOver, CompleteClaim, ReleaseClaim, At, tables
  <2>2. QED
    BY <2>1, MarkTypes DEF StoreTypeOK
<1>4. analyzer_queue' \in [Items -> Row]
  <2>1. \/ UNCHANGED analyzer_queue
        \/ \E j \in Items : analyzer_queue' = Claim(analyzer_queue, j, w, RawCountCap)
        \/ i \in Items /\ analyzer_queue' \in {Complete(analyzer_queue, i, w),
             Release(analyzer_queue, i, w), Fail(analyzer_queue, i, w)}
    BY <1>0
       DEF AnalyzerActs, AnalyzerStep, ClaimRaw, InterruptRaw, FindStored, AnalyzeOk,
           AnalyzeFails, InterruptAnalysis, Judge, MarkPoison, FailClaim, HandOver,
           StampHandOver, CompleteClaim, ReleaseClaim, At, tables
  <2>2. QED
    BY <2>1, <1>0, ClaimType, SettleType DEF StoreTypeOK
<1>5. dispatch_queue' \in [Items -> Row]
  <2>1. \/ UNCHANGED dispatch_queue
        \/ i \in Items /\ dispatch_queue' = Enqueue(dispatch_queue, i)
    BY <1>0
       DEF AnalyzerActs, AnalyzerStep, ClaimRaw, InterruptRaw, FindStored, AnalyzeOk,
           AnalyzeFails, InterruptAnalysis, Judge, MarkPoison, FailClaim, HandOver,
           StampHandOver, CompleteClaim, ReleaseClaim, At, tables
  <2>2. QED
    BY <2>1, EnqueueType DEF StoreTypeOK
<1>6. /\ analyzer' \in [Analyzers -> AnalyzerLocals]
      /\ \A v \in Analyzers : analyzer'[v].pc # "idle" => analyzer'[v].item \in Items
  <2>1. \/ analyzer' = [analyzer EXCEPT ![w] = IdleAnalyzer]
        \/ ~At(w, "idle") /\ \E pc \in AnalyzerPc : analyzer' = [analyzer EXCEPT ![w].pc = pc]
        \/ \E j \in Items : analyzer' = [analyzer EXCEPT ![w] =
             [pc |-> "claimed", item |-> j, tries |-> 1, fatal |-> FALSE]]
        \/ /\ ~At(w, "idle") /\ analyzer[w].tries < AnalyzerRetries
           /\ analyzer' = [analyzer EXCEPT ![w].tries = @ + 1]
        \/ ~At(w, "idle") /\ \E fatal \in BOOLEAN : analyzer' =
             [analyzer EXCEPT ![w].pc = "judge", ![w].fatal = fatal]
    BY <1>0
       DEF AnalyzerActs, AnalyzerStep, ClaimRaw, InterruptRaw, FindStored, AnalyzeOk,
           AnalyzeFails, InterruptAnalysis, Judge, MarkPoison, FailClaim, HandOver,
           StampHandOver, CompleteClaim, ReleaseClaim, At, GoTo, Finish, AnalyzerPc
  <2>2. analyzer[w] \in AnalyzerLocals
    BY <1>0
  <2>3. CASE analyzer' = [analyzer EXCEPT ![w] = IdleAnalyzer]
    BY <2>3, <1>0, IdleTypes DEF Busy, IdleAnalyzer
  <2>4. ASSUME ~At(w, "idle"), NEW pc \in AnalyzerPc,
               analyzer' = [analyzer EXCEPT ![w].pc = pc]
        PROVE  <1>6!1 /\ <1>6!2
    BY <2>2, <2>4, <1>0 DEF Busy, At, AnalyzerLocals
  <2>5. ASSUME NEW j \in Items, analyzer' = [analyzer EXCEPT ![w] =
                 [pc |-> "claimed", item |-> j, tries |-> 1, fatal |-> FALSE]]
        PROVE  <1>6!1 /\ <1>6!2
    BY <2>5, <1>0, IdleTypes DEF Busy, AnalyzerLocals, AnalyzerPc, IdleAnalyzer
  <2>6. CASE /\ ~At(w, "idle") /\ analyzer[w].tries < AnalyzerRetries
             /\ analyzer' = [analyzer EXCEPT ![w].tries = @ + 1]
    <3>1. analyzer[w].tries + 1 \in 1..AnalyzerRetries
      BY <2>2, <2>6, AnalyzerAssumption DEF AnalyzerLocals
    <3>2. QED
      BY <2>2, <2>6, <3>1, <1>0 DEF Busy, At, AnalyzerLocals
  <2>7. ASSUME ~At(w, "idle"), NEW fatal \in BOOLEAN,
               analyzer' = [analyzer EXCEPT ![w].pc = "judge", ![w].fatal = fatal]
        PROVE  <1>6!1 /\ <1>6!2
    BY <2>2, <2>7, <1>0 DEF Busy, At, AnalyzerLocals, AnalyzerPc
  <2>8. QED
    BY <2>1, <2>3, <2>4, <2>5, <2>6, <2>7
<1>7. QED
  BY <1>1, <1>2, <1>3, <1>4, <1>5, <1>6 DEF StoreTypeOK, AnalyzerTypeOK, history, Busy

LEMMA DispatcherType ==
  ASSUME TypeOK, Busy, NEW d \in Dispatchers, DispatcherActs(d)
  PROVE  TypeOK' /\ Busy'
<1> DEFINE i == dispatcher[d].item
<1> USE DEF TypeOK
<1>0. /\ d \in Workers
      /\ dispatcher \in [Dispatchers -> DispatcherLocals]
      /\ Standing(d, "idle") \/ i \in Items
  BY WorkersAssumption DEF DispatcherTypeOK, Busy, Standing
<1>1. /\ UNCHANGED <<analyzer_queue, cleared, crashes, removals,
                     analyzer, reader, admin, requeues>>
      /\ AnalyzerTypeOK' /\ ReaderTypeOK' /\ AdminTypeOK'
  BY DEF DispatcherActs, DispatcherStep, ClaimDispatch, InterruptDispatch, CheckDispatched,
         DeliverOk, DeliverFails, DeliverAmbiguously, RetryDelivery, InterruptDelivery,
         RecordDispatched, CompleteDispatchClaim, ReleaseDispatchClaim, tables,
         AnalyzerTypeOK, ReaderTypeOK, AdminTypeOK
<1>2. faults' \in 0..MaxFaults
  <2>1. Fault \/ NoFault
    BY DEF DispatcherActs, DispatcherStep, ClaimDispatch, InterruptDispatch, CheckDispatched,
           DeliverOk, DeliverFails, DeliverAmbiguously, RetryDelivery, InterruptDelivery,
           RecordDispatched, CompleteDispatchClaim, ReleaseDispatchClaim, NoFault
  <2>2. QED
    BY <2>1, FaultType DEF StoreTypeOK
<1>3. items' \in [Items -> Item]
  <2>1. \/ UNCHANGED items
        \/ i \in Items /\ items' \in {MarkUndelivered(i), MarkDispatched(i)}
    BY <1>0
       DEF DispatcherActs, DispatcherStep, ClaimDispatch, InterruptDispatch, CheckDispatched,
           DeliverOk, DeliverFails, DeliverAmbiguously, RetryDelivery, InterruptDelivery,
           RecordDispatched, CompleteDispatchClaim, ReleaseDispatchClaim, tables, Standing
  <2>2. QED
    BY <2>1, MarkTypes DEF StoreTypeOK
<1>4. dispatch_queue' \in [Items -> Row]
  <2>1. \/ UNCHANGED dispatch_queue
        \/ \E j \in Items : dispatch_queue' = Claim(dispatch_queue, j, d, DispatchCountCap)
        \/ i \in Items /\ dispatch_queue' \in {Complete(dispatch_queue, i, d),
                                              Release(dispatch_queue, i, d)}
    BY <1>0
       DEF DispatcherActs, DispatcherStep, ClaimDispatch, InterruptDispatch, CheckDispatched,
           DeliverOk, DeliverFails, DeliverAmbiguously, RetryDelivery, InterruptDelivery,
           RecordDispatched, CompleteDispatchClaim, ReleaseDispatchClaim, tables, Standing
  <2>2. QED
    BY <2>1, <1>0, ClaimType, SettleType DEF StoreTypeOK
<1>5. sent' \in [Items -> Nat]
  <2>1. UNCHANGED sent \/ (i \in Items /\ sent' = [sent EXCEPT ![i] = @ + 1])
    BY <1>0
       DEF DispatcherActs, DispatcherStep, ClaimDispatch, InterruptDispatch, CheckDispatched,
           DeliverOk, DeliverFails, DeliverAmbiguously, RetryDelivery, InterruptDelivery,
           RecordDispatched, CompleteDispatchClaim, ReleaseDispatchClaim, Standing
  <2>2. QED
    BY <2>1 DEF StoreTypeOK
<1>6. /\ dispatcher' \in [Dispatchers -> DispatcherLocals]
      /\ \A c \in Dispatchers : dispatcher'[c].pc # "idle" => dispatcher'[c].item \in Items
  <2>1. \/ dispatcher' = [dispatcher EXCEPT ![d] = IdleDispatcher]
        \/ ~Standing(d, "idle") /\ \E pc \in DispatcherPc :
              dispatcher' = [dispatcher EXCEPT ![d].pc = pc]
        \/ \E j \in Items : dispatcher' = [dispatcher EXCEPT ![d] =
              [pc |-> "claimed", item |-> j, tries |-> 1]]
        \/ /\ ~Standing(d, "idle") /\ dispatcher[d].tries < DispatcherRetries
           /\ dispatcher' = [dispatcher EXCEPT ![d].pc = "deliver", ![d].tries = @ + 1]
    BY <1>0
       DEF DispatcherActs, DispatcherStep, ClaimDispatch, InterruptDispatch, CheckDispatched,
           DeliverOk, DeliverFails, DeliverAmbiguously, RetryDelivery, InterruptDelivery,
           RecordDispatched, CompleteDispatchClaim, ReleaseDispatchClaim,
           Standing, Proceed, Rest, DispatcherPc
  <2>2. dispatcher[d] \in DispatcherLocals
    BY <1>0
  <2>3. CASE dispatcher' = [dispatcher EXCEPT ![d] = IdleDispatcher]
    BY <2>3, <1>0, IdleTypes DEF Busy, IdleDispatcher
  <2>4. ASSUME ~Standing(d, "idle"), NEW pc \in DispatcherPc,
               dispatcher' = [dispatcher EXCEPT ![d].pc = pc]
        PROVE  <1>6!1 /\ <1>6!2
    BY <2>2, <2>4, <1>0 DEF Busy, Standing, DispatcherLocals
  <2>5. ASSUME NEW j \in Items, dispatcher' = [dispatcher EXCEPT ![d] =
                 [pc |-> "claimed", item |-> j, tries |-> 1]]
        PROVE  <1>6!1 /\ <1>6!2
    BY <2>5, <1>0, IdleTypes DEF Busy, DispatcherLocals, DispatcherPc, IdleDispatcher
  <2>6. CASE /\ ~Standing(d, "idle") /\ dispatcher[d].tries < DispatcherRetries
             /\ dispatcher' = [dispatcher EXCEPT ![d].pc = "deliver", ![d].tries = @ + 1]
    <3>1. dispatcher[d].tries + 1 \in 1..DispatcherRetries
      BY <2>2, <2>6, DispatcherAssumption DEF DispatcherLocals
    <3>2. QED
      BY <2>2, <2>6, <3>1, <1>0 DEF Busy, Standing, DispatcherLocals, DispatcherPc
  <2>7. QED
    BY <2>1, <2>3, <2>4, <2>5, <2>6
<1>7. QED
  BY <1>1, <1>2, <1>3, <1>4, <1>5, <1>6 DEF StoreTypeOK, DispatcherTypeOK, Busy

LEMMA ReaderType == ASSUME TypeOK, Busy, ReaderActs PROVE TypeOK' /\ Busy'
<1> DEFINE i == reader.item
<1> USE DEF TypeOK
<1>0. /\ reader \in [pc : ReaderPc, item : Items \cup {NoEntry}, abandoned : SUBSET Items]
      /\ reader.pc # "idle" => i \in Items
  BY DEF ReaderTypeOK, Busy
<1>1. /\ UNCHANGED <<dispatch_queue, history, crashes, analyzer, dispatcher, admin, requeues>>
      /\ AnalyzerTypeOK' /\ DispatcherTypeOK' /\ AdminTypeOK'
  BY DEF ReaderActs, ReaderStep, ReaderWork, InsertItemIfNew, EnqueueAnalyzerJob,
         MarkRawEnqueued, MarkEnqueueFailed, Cleanup,
         AnalyzerTypeOK, DispatcherTypeOK, AdminTypeOK
<1>2. faults' \in 0..MaxFaults
  <2>1. Fault \/ NoFault
    BY DEF ReaderActs, ReaderStep, ReaderWork, InsertItemIfNew, EnqueueAnalyzerJob,
           MarkRawEnqueued, MarkEnqueueFailed, Cleanup, NoFault
  <2>2. QED
    BY <2>1, FaultType DEF StoreTypeOK
<1>3. items' \in [Items -> Item]
  <2>1. NoItem \in Item /\ NewItem \in Item
    BY DEF NoItem, NewItem, Item, Status
  <2>2. \/ UNCHANGED items
        \/ \E j \in Items : items' = [items EXCEPT ![j] = NewItem]
        \/ \E S \in SUBSET Items : items' = [j \in Items |-> IF j \in S THEN NoItem ELSE items[j]]
        \/ i \in Items /\ items' \in
             {MarkQueued(i), MarkUnqueued(i)}
    BY <1>0 DEF ReaderActs, ReaderStep, ReaderWork, InsertItemIfNew, EnqueueAnalyzerJob,
                MarkRawEnqueued, MarkEnqueueFailed, Cleanup
  <2>3. QED
    BY <2>1, <2>2, MarkTypes DEF StoreTypeOK
<1>4. analyzer_queue' \in [Items -> Row]
  <2>1. \/ UNCHANGED analyzer_queue
        \/ i \in Items /\ analyzer_queue' = Enqueue(analyzer_queue, i)
    BY <1>0 DEF ReaderActs, ReaderStep, ReaderWork, InsertItemIfNew, EnqueueAnalyzerJob,
                MarkRawEnqueued, MarkEnqueueFailed, Cleanup
  <2>2. QED
    BY <2>1, EnqueueType DEF StoreTypeOK
<1>5. removals' \in 0..MaxRemovals
  BY BudgetAssumption
     DEF StoreTypeOK, ReaderActs, ReaderStep, ReaderWork, InsertItemIfNew, EnqueueAnalyzerJob,
         MarkRawEnqueued, MarkEnqueueFailed, Cleanup
<1>6. ReaderTypeOK' /\ (reader.pc # "idle" => i \in Items)'
  <2>1. ASSUME NEW k \in Items, InsertItemIfNew(k)
        PROVE  ReaderTypeOK' /\ (reader.pc # "idle" => i \in Items)'
    BY <1>0, <2>1 DEF InsertItemIfNew, Stored, ReaderTypeOK, ReaderPc
  <2>2. CASE ReaderWork
    BY <1>0, <2>2 DEF ReaderWork, EnqueueAnalyzerJob, MarkRawEnqueued, MarkEnqueueFailed,
                      ReaderTypeOK, ReaderPc, IdleReader
  <2>3. CASE UNCHANGED reader
    BY <1>0, <2>3 DEF ReaderTypeOK
  <2>4. QED
    BY <2>1, <2>2, <2>3 DEF ReaderActs, ReaderStep, Cleanup
<1>7. QED
  BY <1>1, <1>2, <1>3, <1>4, <1>5, <1>6 DEF StoreTypeOK, history, Busy

LEMMA AdminType == ASSUME TypeOK, Busy, AdminActs PROVE TypeOK' /\ Busy'
<1> USE DEF TypeOK
<1>0. /\ admin \in [Admins -> [pc : AdminPc, item : Items \cup {NoRequest}]]
      /\ \A a \in Admins : admin[a].pc # "idle" => admin[a].item \in Items
  BY DEF AdminTypeOK, Busy
<1>1. /\ UNCHANGED <<crashes, analyzer, dispatcher, reader, sent>>
      /\ AnalyzerTypeOK' /\ DispatcherTypeOK' /\ ReaderTypeOK'
  BY DEF AdminActs, AdminStep, AdminWork, RequeueRead, RequeueRaw, RequeueAnalyzed,
         ResetToNew, ResetToAnalyzed, ResetItem, HandleItemDelete, history,
         AnalyzerTypeOK, DispatcherTypeOK, ReaderTypeOK
<1>2. ASSUME NEW a \in Admins, NEW i \in Items, RequeueRead(a, i)
      PROVE  TypeOK' /\ Busy'
  <2>1. /\ admin' \in [Admins -> [pc : AdminPc, item : Items \cup {NoRequest}]]
        /\ \A b \in Admins : admin'[b].pc # "idle" => admin'[b].item \in Items
    BY <1>0, <1>2 DEF RequeueRead, AdminPc
  <2>2. requeues' \in 0..MaxRequeues
    BY <1>2, AdminAssumption DEF RequeueRead, AdminTypeOK
  <2>3. QED
    BY <1>1, <1>2, <2>1, <2>2
       DEF RequeueRead, tables, history, StoreTypeOK, AdminTypeOK, Busy
<1>3. ASSUME NEW a \in Admins, AdminWork(a)
      PROVE  TypeOK' /\ Busy'
  <2>1. admin[a].item \in Items
    BY <1>0, <1>3 DEF AdminWork, RequeueRaw, RequeueAnalyzed, ResetToNew, ResetToAnalyzed,
                      Serving
  <2>2. /\ items' \in [Items -> Item]
        /\ UNCHANGED <<removals, requeues>>
    BY <1>3, <2>1, MarkTypes
       DEF AdminWork, RequeueRaw, RequeueAnalyzed, ResetToNew, ResetToAnalyzed, ResetItem,
           StoreTypeOK
  <2>3. /\ analyzer_queue' \in [Items -> Row]
        /\ dispatch_queue' \in [Items -> Row]
    BY <1>3, <2>1, EnqueueType
       DEF AdminWork, RequeueRaw, RequeueAnalyzed, ResetToNew, ResetToAnalyzed, ResetItem,
           StoreTypeOK
  <2>4. cleared' \in [Items -> Nat]
    <3>1. UNCHANGED cleared \/ cleared' = [cleared EXCEPT ![admin[a].item] = @ + 1]
      BY <1>3
         DEF AdminWork, RequeueRaw, RequeueAnalyzed, ResetToNew, ResetToAnalyzed, ResetItem,
             history
    <3>2. QED
      BY <2>1, <3>1 DEF StoreTypeOK
  <2>5. faults' \in 0..MaxFaults
    <3>1. Fault \/ NoFault
      BY <1>3 DEF AdminWork, RequeueRaw, RequeueAnalyzed, ResetToNew, ResetToAnalyzed, ResetItem
    <3>2. QED
      BY <3>1, FaultType DEF StoreTypeOK
  <2>6. /\ admin' \in [Admins -> [pc : AdminPc, item : Items \cup {NoRequest}]]
        /\ \A b \in Admins : admin'[b].pc # "idle" => admin'[b].item \in Items
    <3>1. \/ admin' = [admin EXCEPT ![a] = IdleAdmin]
          \/ \E pc \in AdminPc : admin' = [admin EXCEPT ![a].pc = pc]
      BY <1>3 DEF AdminWork, RequeueRaw, RequeueAnalyzed, ResetToNew, ResetToAnalyzed,
                  ResetItem, Answer, Serve, AdminPc
    <3>2. QED
      BY <3>1, <1>0, <2>1 DEF IdleAdmin, AdminPc
  <2>7. QED
    BY <1>1, <2>2, <2>3, <2>4, <2>5, <2>6 DEF StoreTypeOK, AdminTypeOK, Busy
<1>4. ASSUME NEW i \in Items, HandleItemDelete(i)
      PROVE  TypeOK' /\ Busy'
  <2>1. NoItem \in Item
    BY DEF NoItem, Item, Status
  <2>2. /\ items' \in [Items -> Item]
        /\ removals' \in 0..MaxRemovals
        /\ faults' \in 0..MaxFaults
        /\ UNCHANGED <<history, admin, requeues>>
    BY <1>4, <2>1, BudgetAssumption, FaultType DEF HandleItemDelete, StoreTypeOK
  <2>3. /\ analyzer_queue' \in [Items -> Row]
        /\ dispatch_queue' \in [Items -> Row]
    BY <1>4, DeleteRowType DEF HandleItemDelete, StoreTypeOK
  <2>4. QED
    BY <1>1, <2>2, <2>3 DEF StoreTypeOK, AdminTypeOK, Busy, history
<1>5. QED
  BY <1>2, <1>3, <1>4 DEF AdminActs, AdminStep

LEMMA LeaseType ==
  ASSUME TypeOK, Busy, NEW i \in Items, LeaseExpires(i)
  PROVE  TypeOK' /\ Busy'
<1>1. /\ analyzer_queue' \in [Items -> Row]
      /\ dispatch_queue' \in [Items -> Row]
  BY ExpireType
     DEF TypeOK, StoreTypeOK, LeaseExpires, RawLeaseExpires, DispatchLeaseExpires
<1>2. QED
  BY <1>1 DEF TypeOK, StoreTypeOK, AnalyzerTypeOK, DispatcherTypeOK, ReaderTypeOK, AdminTypeOK,
              Busy, LeaseExpires, RawLeaseExpires, DispatchLeaseExpires, history

LEMMA CrashType == ASSUME TypeOK, Busy, SomeoneCrashes PROVE TypeOK' /\ Busy'
<1>1. ASSUME NEW service, Crash(service)
      PROVE  crashes' \in 0..MaxCrashes /\ UNCHANGED <<sent, cleared, faults, removals>>
  BY <1>1, BudgetAssumption DEF Crash, TypeOK, StoreTypeOK, history
<1>2. ASSUME NEW w \in Analyzers, CrashAnalyzer(w),
             UNCHANGED <<dispatcher, reader, admin, requeues>>
      PROVE  TypeOK' /\ Busy'
  <2>1. /\ analyzer_queue' \in [Items -> Row]
        /\ analyzer' = [analyzer EXCEPT ![w] = IdleAnalyzer]
        /\ UNCHANGED <<items, dispatch_queue>>
    BY <1>2, OrphanType DEF CrashAnalyzer, Finish, TypeOK, StoreTypeOK
  <2>2. /\ analyzer' \in [Analyzers -> AnalyzerLocals]
        /\ \A v \in Analyzers : analyzer'[v].pc # "idle" => analyzer'[v].item \in Items
    BY <2>1, IdleTypes DEF TypeOK, AnalyzerTypeOK, Busy, IdleAnalyzer
  <2>3. QED
    BY <1>1, <1>2, <2>1, <2>2
       DEF CrashAnalyzer, TypeOK, StoreTypeOK, AnalyzerTypeOK, DispatcherTypeOK, ReaderTypeOK,
           AdminTypeOK, Busy
<1>3. ASSUME NEW d \in Dispatchers, CrashDispatcher(d),
             UNCHANGED <<analyzer, reader, admin, requeues>>
      PROVE  TypeOK' /\ Busy'
  <2>1. /\ dispatch_queue' \in [Items -> Row]
        /\ dispatcher' = [dispatcher EXCEPT ![d] = IdleDispatcher]
        /\ UNCHANGED <<items, analyzer_queue>>
    BY <1>3, OrphanType DEF CrashDispatcher, Rest, TypeOK, StoreTypeOK
  <2>2. /\ dispatcher' \in [Dispatchers -> DispatcherLocals]
        /\ \A c \in Dispatchers : dispatcher'[c].pc # "idle" => dispatcher'[c].item \in Items
    BY <2>1, IdleTypes DEF TypeOK, DispatcherTypeOK, Busy, IdleDispatcher
  <2>3. QED
    BY <1>1, <1>3, <2>1, <2>2
       DEF CrashDispatcher, TypeOK, StoreTypeOK, AnalyzerTypeOK, DispatcherTypeOK, ReaderTypeOK,
           AdminTypeOK, Busy
<1>4. ASSUME CrashReader, UNCHANGED <<analyzer, dispatcher, admin, requeues>>
      PROVE  TypeOK' /\ Busy'
  BY <1>1, <1>4
     DEF CrashReader, tables, IdleReader, ReaderPc, TypeOK, StoreTypeOK, AnalyzerTypeOK,
         DispatcherTypeOK, ReaderTypeOK, AdminTypeOK, Busy
<1>5. ASSUME CrashAdmin, UNCHANGED <<analyzer, dispatcher, reader>>
      PROVE  TypeOK' /\ Busy'
  BY <1>1, <1>5
     DEF CrashAdmin, tables, IdleAdmin, AdminPc, TypeOK, StoreTypeOK, AnalyzerTypeOK,
         DispatcherTypeOK, ReaderTypeOK, AdminTypeOK, Busy
<1>6. QED
  BY <1>2, <1>3, <1>4, <1>5 DEF SomeoneCrashes

LEMMA StutterType == ASSUME TypeOK, Busy, UNCHANGED vars PROVE TypeOK' /\ Busy'
BY DEF vars, TypeOK, StoreTypeOK, AnalyzerTypeOK, DispatcherTypeOK, ReaderTypeOK, AdminTypeOK,
       Busy

LEMMA NextType == ASSUME TypeOK, Busy, [Next]_vars PROVE TypeOK' /\ Busy'
BY AnalyzerType, DispatcherType, ReaderType, AdminType, LeaseType, CrashType, StutterType
   DEF Next

(* Every table holds rows, every process is at a step of its handler, and  *)
(* a process that is not idle works on an item: what each handler's locals *)
(* and each statement on rss_items, analyzer_queue and dispatch_queue keep.*)
THEOREM TypeCorrect == Spec => [](TypeOK /\ Busy)
<1>1. Init => TypeOK /\ Busy
  BY InitTypeOK, InitBusy
<1>2. (TypeOK /\ Busy) /\ [Next]_vars => (TypeOK /\ Busy)'
  BY NextType
<1>3. QED
  BY <1>1, <1>2, PTL DEF Spec
=============================================================================
