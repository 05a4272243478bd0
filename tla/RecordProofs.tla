---------------------------- MODULE RecordProofs ----------------------------
(***************************************************************************)
(* What the tables record is true, for any number of processes and         *)
(* interferences: DoneMeansSent, HandedOver and StatusBacked, each from a  *)
(* strengthening that every step keeps.                                    *)
(***************************************************************************)
EXTENDS DeliveryProofs

(* A record of a delivery, or a dispatcher about to make or close one,     *)
(* comes after the message.                                                *)
SentBacked ==
  /\ \A i \in Items :
       (items[i].status = "DISPATCHED" \/ items[i].dispatched \/ dispatch_queue[i].state = "DONE")
         => sent[i] > 0
  /\ \A d \in Dispatchers :
       dispatcher[d].pc \in {"delivered", "complete"} => sent[dispatcher[d].item] > 0

(* A job that is closed, or that its owner is about to close, has a row in *)
(* dispatch_queue.                                                         *)
Closed(i)  == analyzer_queue[i].state = "DONE" /\ ~analyzer_queue[i].failed
Closing(w) == /\ analyzer[w].pc \in {"stamp", "complete"}
              /\ analyzer_queue[analyzer[w].item].owner = w
Queued(i)  == dispatch_queue[i].state # "ABSENT"
QueuedBacked ==
  (faults = 0 \/ removals = 0) =>
    /\ \A i \in Items : Closed(i) => Queued(i)
    /\ \A w \in Analyzers : Closing(w) => Queued(analyzer[w].item)

(* The item is on its way to the destination, or was there. *)
Leaving(w, i)  == analyzer[w].item = i /\ analyzer[w].pc \in {"handOver", "stamp", "complete"}
Again(a, i)    == admin[a].item = i /\ admin[a].pc \in {"queueAnalyzed", "resetAnalyzed"}
OnItsWay(i) ==
  \/ items[i].status = "ANALYZED" \/ items[i].dispatched
  \/ dispatch_queue[i].state # "ABSENT"
  \/ \E w \in Analyzers : Leaving(w, i)
  \/ \E d \in Dispatchers : dispatcher[d].item = i
  \/ \E a \in Admins : Again(a, i)

(* A status DISPATCHED has its date, and what is on its way its payload. *)
ResultBacked ==
  /\ \A i \in Items : items[i].status = "DISPATCHED" => items[i].dispatched
  /\ (faults = 0 /\ removals = 0) => \A i \in Items : OnItsWay(i) => items[i].analyzed

-----------------------------------------------------------------------------
(* What a statement on rss_items does to the columns these invariants read.*)

LEMMA MarkRecords ==
  ASSUME StoreTypeOK, NEW i \in Items, NEW j \in Items,
         NEW table \in {MarkFailed(i), MarkAnalyzed(i), MarkHandedOver(i), MarkUndelivered(i),
                        MarkQueued(i), MarkUnqueued(i), MarkNew(i), MarkAgain(i)}
  PROVE  /\ table[j].status = "DISPATCHED" =>
              items[j].status = "DISPATCHED" /\ (items[j].dispatched => table[j].dispatched)
         /\ table[j].dispatched => items[j].dispatched
         /\ items[j].analyzed => table[j].analyzed
<1>1. /\ items[i] \in Item /\ items[j] \in Item
      /\ items \in [Items -> Item]
  BY DEF StoreTypeOK
<1>2. CASE table \in {MarkFailed(i), MarkAnalyzed(i)}
  BY <1>1, <1>2 DEF UpdateItem, MarkFailed, MarkAnalyzed, Item
<1>3. CASE table \in {MarkHandedOver(i), MarkUndelivered(i)}
  BY <1>1, <1>3 DEF UpdateItem, MarkHandedOver, MarkUndelivered, Item
<1>4. CASE table \in {MarkQueued(i), MarkUnqueued(i)}
  BY <1>1, <1>4 DEF UpdateItem, MarkQueued, MarkUnqueued, Item
<1>5. CASE table \in {MarkNew(i), MarkAgain(i)}
  BY <1>1, <1>5 DEF UpdateItem, MarkNew, MarkAgain, Item
<1>6. QED
  BY <1>2, <1>3, <1>4, <1>5

(* Only the analyzer's record and a requeue make an item ANALYZED. *)
LEMMA MarkStatuses ==
  ASSUME StoreTypeOK, NEW i \in Items, NEW j \in Items,
         NEW table \in {MarkFailed(i), MarkHandedOver(i), MarkUndelivered(i), MarkQueued(i),
                        MarkUnqueued(i), MarkNew(i), MarkDispatched(i)}
  PROVE  table[j].status = "ANALYZED" => items[j].status = "ANALYZED"
<1>1. /\ items[i] \in Item /\ items[j] \in Item
      /\ items \in [Items -> Item]
  BY DEF StoreTypeOK
<1>2. CASE table \in {MarkFailed(i), MarkHandedOver(i), MarkUndelivered(i)}
  BY <1>1, <1>2 DEF UpdateItem, MarkFailed, MarkHandedOver, MarkUndelivered, Item
<1>3. CASE table \in {MarkQueued(i), MarkUnqueued(i), MarkNew(i), MarkDispatched(i)}
  BY <1>1, <1>3 DEF UpdateItem, MarkQueued, MarkUnqueued, MarkNew, MarkDispatched, Item
<1>4. QED
  BY <1>2, <1>3

LEMMA AnalyzedEffect ==
  ASSUME StoreTypeOK, NEW i \in Items, NEW j \in Items
  PROVE  /\ MarkAnalyzed(i)[j].status = "ANALYZED" => items[j].status = "ANALYZED" \/ j = i
         /\ MarkAgain(i)[j].status = "ANALYZED" => items[j].status = "ANALYZED" \/ j = i
         /\ items[i].present =>
              MarkAnalyzed(i)[i].analyzed \/ items[i].status = "DISPATCHED"
BY DEF StoreTypeOK, UpdateItem, MarkAnalyzed, MarkAgain, Item

LEMMA DispatchedEffect ==
  ASSUME StoreTypeOK, NEW i \in Items, NEW j \in Items
  PROVE  /\ j # i => MarkDispatched(i)[j] = items[j]
         /\ MarkDispatched(i)[j].status = "DISPATCHED" =>
              MarkDispatched(i)[j].dispatched \/ items[j].status = "DISPATCHED"
         /\ items[j].dispatched => MarkDispatched(i)[j].dispatched
         /\ items[j].analyzed => MarkDispatched(i)[j].analyzed
BY DEF StoreTypeOK, UpdateItem, MarkDispatched, Item

(* Settling leaves the other rows alone, and a released row is not closed. *)
LEMMA SettleEffects ==
  ASSUME NEW q \in [Items -> Row], NEW i \in Items, NEW j \in Items, NEW w,
         NEW table \in {Complete(q, i, w), Release(q, i, w)}
  PROVE  /\ j # i => table[j] = q[j]
         /\ table = Release(q, i, w) /\ table[j].state = "DONE" => q[j].state = "DONE"
BY DEF Complete, Release, Settle, OwnedBy, Row

-----------------------------------------------------------------------------
(* A record is made, and a row closed, by a dispatcher that has sent. *)
LEMMA SentStep ==
  ASSUME TypeOK, TypeOK', SentBacked,
         \A j \in Items : sent'[j] >= sent[j],
         \A j \in Items : items'[j].status = "DISPATCHED"
                            => items[j].status = "DISPATCHED" \/ sent'[j] > 0,
         \A j \in Items : items'[j].dispatched => items[j].dispatched \/ sent'[j] > 0,
         \A j \in Items : dispatch_queue'[j].state = "DONE"
                            => dispatch_queue[j].state = "DONE" \/ sent'[j] > 0,
         \A d \in Dispatchers : dispatcher'[d].pc \in {"delivered", "complete"}
                            => sent'[dispatcher'[d].item] > 0
  PROVE  SentBacked'
<1>1. ASSUME NEW j \in Items PROVE sent[j] > 0 => sent'[j] > 0
  BY DEF TypeOK, StoreTypeOK
<1>2. QED
  BY <1>1 DEF SentBacked

LEMMA DispatcherSent ==
  ASSUME TypeOK, Busy, SentBacked, NEW d \in Dispatchers, DispatcherActs(d)
  PROVE  SentBacked'
<1> DEFINE i == dispatcher[d].item
<1>0. /\ \A c \in Dispatchers \ {d} : dispatcher'[c] = dispatcher[c]
      /\ dispatcher[d].pc # "idle" => i \in Items
      /\ \A c \in Dispatchers : dispatcher[c].pc # "idle" => dispatcher[c].item \in Items
      /\ dispatcher \in [Dispatchers -> DispatcherLocals]
      /\ dispatch_queue \in [Items -> Row]
      /\ sent \in [Items -> Nat] /\ sent' \in [Items -> Nat]
      /\ StoreTypeOK /\ TypeOK'
  BY DispatcherFrame DEF Busy, TypeOK, StoreTypeOK, DispatcherTypeOK
<1>1. \A j \in Items : sent'[j] >= sent[j]
  <2>1. UNCHANGED sent \/ (i \in Items /\ sent' = [sent EXCEPT ![i] = @ + 1])
    BY <1>0
       DEF DispatcherActs, DispatcherStep, ClaimDispatch, InterruptDispatch, CheckDispatched,
           DeliverOk, DeliverFails, DeliverAmbiguously, RetryDelivery, InterruptDelivery,
           RecordDispatched, CompleteDispatchClaim, ReleaseDispatchClaim, Standing
  <2>2. QED
    BY <1>0, <2>1
<1>2. ASSUME NEW j \in Items
      PROVE  /\ items'[j].status = "DISPATCHED" => items[j].status = "DISPATCHED" \/ sent'[j] > 0
             /\ items'[j].dispatched => items[j].dispatched \/ sent'[j] > 0
  <2>1. \/ UNCHANGED items
        \/ i \in Items /\ items' = MarkUndelivered(i)
        \/ i \in Items /\ items' = MarkDispatched(i) /\ sent[i] > 0 /\ UNCHANGED sent
    BY <1>0
       DEF DispatcherActs, DispatcherStep, ClaimDispatch, InterruptDispatch, CheckDispatched,
           DeliverOk, DeliverFails, DeliverAmbiguously, RetryDelivery, InterruptDelivery,
           RecordDispatched, CompleteDispatchClaim, ReleaseDispatchClaim, tables, Standing,
           SentBacked
  <2>2. CASE UNCHANGED items
    BY <2>2
  <2>3. CASE i \in Items /\ items' = MarkUndelivered(i)
    BY <1>0, <2>3, MarkRecords
  <2>4. CASE i \in Items /\ items' = MarkDispatched(i) /\ sent[i] > 0 /\ UNCHANGED sent
    BY <1>0, <2>4, DispatchedEffect
  <2>5. QED
    BY <2>1, <2>2, <2>3, <2>4
<1>3. ASSUME NEW j \in Items, dispatch_queue'[j].state = "DONE"
      PROVE  dispatch_queue[j].state = "DONE" \/ sent'[j] > 0
  <2>1. \/ UNCHANGED dispatch_queue
        \/ \E k \in Items : dispatch_queue' = Claim(dispatch_queue, k, d, DispatchCountCap)
        \/ i \in Items /\ dispatch_queue' = Release(dispatch_queue, i, d)
        \/ /\ i \in Items /\ dispatch_queue' = Complete(dispatch_queue, i, d)
           /\ sent[i] > 0 /\ UNCHANGED sent
    BY <1>0
       DEF DispatcherActs, DispatcherStep, ClaimDispatch, InterruptDispatch, CheckDispatched,
           DeliverOk, DeliverFails, DeliverAmbiguously, RetryDelivery, InterruptDelivery,
           RecordDispatched, CompleteDispatchClaim, ReleaseDispatchClaim, tables, Standing,
           SentBacked
  <2>2. CASE \E k \in Items : dispatch_queue' = Claim(dispatch_queue, k, d, DispatchCountCap)
    BY <1>0, <1>3, <2>2 DEF Claim, Row
  <2>3. CASE i \in Items /\ dispatch_queue' = Release(dispatch_queue, i, d)
    BY <1>0, <1>3, <2>3, SettleEffects
  <2>4. CASE /\ i \in Items /\ dispatch_queue' = Complete(dispatch_queue, i, d)
             /\ sent[i] > 0 /\ UNCHANGED sent
    BY <1>0, <1>3, <2>4, SettleEffects
  <2>5. QED
    BY <1>3, <2>1, <2>2, <2>3, <2>4
<1>4. ASSUME NEW c \in Dispatchers, dispatcher'[c].pc \in {"delivered", "complete"}
      PROVE  sent'[dispatcher'[c].item] > 0
  <2>1. CASE c # d
    <3>1. dispatcher'[c] = dispatcher[c] /\ dispatcher[c].item \in Items
      BY <1>0, <1>4, <2>1
    <3>2. sent[dispatcher[c].item] > 0
      BY <1>4, <3>1 DEF SentBacked
    <3>3. QED
      BY <1>0, <1>1, <3>1, <3>2
  <2>2. CASE c = d
    <3>1. /\ i \in Items
          /\ dispatcher'[d].item = i
          /\ \/ dispatcher[d].pc = "deliver" /\ sent' = [sent EXCEPT ![i] = @ + 1]
             \/ dispatcher[d].pc = "delivered" /\ UNCHANGED sent
             \/ IsAlreadyDispatched(i) /\ UNCHANGED sent
      BY <1>0, <1>4, <2>2
         DEF DispatcherActs, DispatcherStep, ClaimDispatch, InterruptDispatch, CheckDispatched,
             DeliverOk, DeliverFails, DeliverAmbiguously, RetryDelivery, InterruptDelivery,
             RecordDispatched, CompleteDispatchClaim, ReleaseDispatchClaim, Proceed, Rest,
             IdleDispatcher, Standing, DispatcherLocals
    <3>2. QED
      BY <1>0, <2>2, <3>1 DEF SentBacked, IsAlreadyDispatched
  <2>3. QED
    BY <2>1, <2>2
<1>5. QED
  BY <1>0, <1>1, <1>2, <1>3, <1>4, SentStep

(* A step that neither sends nor moves a dispatcher, makes no record and   *)
(* closes no row of dispatch_queue.                                        *)
LEMMA QuietSent ==
  ASSUME TypeOK, TypeOK', Busy, SentBacked, UNCHANGED <<sent, dispatcher>>,
         \A j \in Items : items'[j].status = "DISPATCHED" => items[j].status = "DISPATCHED",
         \A j \in Items : items'[j].dispatched => items[j].dispatched,
         \A j \in Items : dispatch_queue'[j].state = "DONE" => dispatch_queue[j].state = "DONE"
  PROVE  SentBacked'
<1>1. \A d \in Dispatchers : dispatcher[d].pc \in {"delivered", "complete"}
                               => dispatcher[d].item \in Items
  BY DEF Busy
<1>2. QED
  BY <1>1 DEF SentBacked

LEMMA AnalyzerSent ==
  ASSUME TypeOK, Busy, SentBacked, NEW w \in Analyzers, AnalyzerActs(w)
  PROVE  SentBacked'
<1> DEFINE i == analyzer[w].item
<1>0. /\ TypeOK'
      /\ UNCHANGED <<sent, dispatcher>>
      /\ At(w, "idle") \/ i \in Items
      /\ StoreTypeOK
  BY AnalyzerType DEF AnalyzerActs, AnalyzerStep, history, Busy, At, TypeOK
<1>1. ASSUME NEW j \in Items
      PROVE  /\ items'[j].status = "DISPATCHED" => items[j].status = "DISPATCHED"
             /\ items'[j].dispatched => items[j].dispatched
  <2>1. \/ UNCHANGED items
        \/ i \in Items /\ items' \in {MarkFailed(i), MarkAnalyzed(i), MarkHandedOver(i)}
    BY <1>0
       DEF AnalyzerActs, AnalyzerStep, ClaimRaw, InterruptRaw, FindStored, AnalyzeOk,
           AnalyzeFails, InterruptAnalysis, Judge, MarkPoison, FailClaim, HandOver,
           StampHandOver, CompleteClaim, ReleaseClaim, At, tables
  <2>2. CASE i \in Items /\ items' \in {MarkFailed(i), MarkAnalyzed(i), MarkHandedOver(i)}
    <3>1. items' \in {MarkFailed(i), MarkAnalyzed(i), MarkHandedOver(i), MarkUndelivered(i),
                      MarkQueued(i), MarkUnqueued(i), MarkNew(i), MarkAgain(i)}
      BY <2>2
    <3>2. QED
      BY <1>0, <2>2, <3>1, MarkRecords
  <2>3. QED
    BY <2>1, <2>2
<1>2. ASSUME NEW j \in Items, dispatch_queue'[j].state = "DONE"
      PROVE  dispatch_queue[j].state = "DONE"
  <2>1. \/ UNCHANGED dispatch_queue
        \/ i \in Items /\ dispatch_queue' = Enqueue(dispatch_queue, i)
    BY <1>0
       DEF AnalyzerActs, AnalyzerStep, ClaimRaw, InterruptRaw, FindStored, AnalyzeOk,
           AnalyzeFails, InterruptAnalysis, Judge, MarkPoison, FailClaim, HandOver,
           StampHandOver, CompleteClaim, ReleaseClaim, At, tables
  <2>2. QED
    BY <1>0, <1>2, <2>1 DEF StoreTypeOK, Enqueue
<1>3. QED
  BY <1>0, <1>1, <1>2, QuietSent

LEMMA ReaderSent ==
  ASSUME TypeOK, Busy, SentBacked, ReaderActs
  PROVE  SentBacked'
<1> DEFINE i == reader.item
<1>0. /\ TypeOK' /\ StoreTypeOK
      /\ UNCHANGED <<sent, dispatcher, dispatch_queue>>
      /\ reader.pc # "idle" => i \in Items
  BY ReaderType
     DEF ReaderActs, ReaderStep, ReaderWork, InsertItemIfNew, EnqueueAnalyzerJob,
         MarkRawEnqueued, MarkEnqueueFailed, Cleanup, history, Busy, TypeOK
<1>1. ASSUME NEW j \in Items
      PROVE  /\ items'[j].status = "DISPATCHED" => items[j].status = "DISPATCHED"
             /\ items'[j].dispatched => items[j].dispatched
  <2>1. \/ UNCHANGED items
        \/ items'[j] \in {items[j], NoItem, NewItem}
        \/ i \in Items /\ items' \in {MarkQueued(i), MarkUnqueued(i)}
    BY <1>0
       DEF ReaderActs, ReaderStep, ReaderWork, InsertItemIfNew, EnqueueAnalyzerJob,
           MarkRawEnqueued, MarkEnqueueFailed, Cleanup, StoreTypeOK
  <2>2. CASE items'[j] \in {items[j], NoItem, NewItem}
    BY <2>2 DEF NoItem, NewItem
  <2>3. CASE i \in Items /\ items' \in {MarkQueued(i), MarkUnqueued(i)}
    <3>1. items' \in {MarkFailed(i), MarkAnalyzed(i), MarkHandedOver(i), MarkUndelivered(i),
                      MarkQueued(i), MarkUnqueued(i), MarkNew(i), MarkAgain(i)}
      BY <2>3
    <3>2. QED
      BY <1>0, <2>3, <3>1, MarkRecords
  <2>4. QED
    BY <2>1, <2>2, <2>3
<1>2. QED
  BY <1>0, <1>1, QuietSent

LEMMA AdminSent ==
  ASSUME TypeOK, Busy, SentBacked, AdminActs
  PROVE  SentBacked'
<1>0. /\ TypeOK' /\ StoreTypeOK
      /\ UNCHANGED <<sent, dispatcher>>
      /\ \A a \in Admins : admin[a].pc # "idle" => admin[a].item \in Items
      /\ dispatch_queue \in [Items -> Row]
  BY AdminType
     DEF AdminActs, AdminStep, AdminWork, RequeueRead, RequeueRaw, RequeueAnalyzed,
         ResetToNew, ResetToAnalyzed, ResetItem, HandleItemDelete, history, Busy, TypeOK,
         StoreTypeOK
<1>1. ASSUME NEW j \in Items
      PROVE  /\ items'[j].status = "DISPATCHED" => items[j].status = "DISPATCHED"
             /\ items'[j].dispatched => items[j].dispatched
  <2>1. \/ UNCHANGED items
        \/ items'[j] \in {items[j], NoItem}
        \/ \E i \in Items : items' \in {MarkNew(i), MarkAgain(i)}
    BY <1>0
       DEF AdminActs, AdminStep, AdminWork, RequeueRead, RequeueRaw, RequeueAnalyzed,
           ResetToNew, ResetToAnalyzed, ResetItem, HandleItemDelete, Serving, tables, StoreTypeOK
  <2>2. CASE items'[j] \in {items[j], NoItem}
    BY <2>2 DEF NoItem
  <2>3. ASSUME NEW i \in Items, items' \in {MarkNew(i), MarkAgain(i)}
        PROVE  <1>1!2
    <3>1. items' \in {MarkFailed(i), MarkAnalyzed(i), MarkHandedOver(i), MarkUndelivered(i),
                      MarkQueued(i), MarkUnqueued(i), MarkNew(i), MarkAgain(i)}
      BY <2>3
    <3>2. QED
      BY <1>0, <3>1, MarkRecords
  <2>4. QED
    BY <2>1, <2>2, <2>3
<1>2. ASSUME NEW j \in Items, dispatch_queue'[j].state = "DONE"
      PROVE  dispatch_queue[j].state = "DONE"
  <2>1. \/ UNCHANGED dispatch_queue
        \/ \E i \in Items : \/ dispatch_queue' = Enqueue(dispatch_queue, i)
                            \/ dispatch_queue' = DeleteRow(dispatch_queue, i)
    BY <1>0
       DEF AdminActs, AdminStep, AdminWork, RequeueRead, RequeueRaw, RequeueAnalyzed,
           ResetToNew, ResetToAnalyzed, ResetItem, HandleItemDelete, Serving, tables
  <2>2. ASSUME NEW i \in Items, dispatch_queue' = Enqueue(dispatch_queue, i)
        PROVE  dispatch_queue[j].state = "DONE"
    BY <1>0, <1>2, <2>2 DEF Enqueue
  <2>3. ASSUME NEW i \in Items, dispatch_queue' = DeleteRow(dispatch_queue, i)
        PROVE  dispatch_queue[j].state = "DONE"
    BY <1>0, <1>2, <2>3 DEF DeleteRow, NoRow, Row
  <2>4. QED
    BY <1>2, <2>1, <2>2, <2>3
<1>3. QED
  BY <1>0, <1>1, <1>2, QuietSent

LEMMA LeaseSent ==
  ASSUME TypeOK, Busy, SentBacked, NEW i \in Items, LeaseExpires(i)
  PROVE  SentBacked'
<1>1. TypeOK' /\ UNCHANGED <<items, sent, dispatcher>>
  BY LeaseType DEF LeaseExpires, RawLeaseExpires, DispatchLeaseExpires, history
<1>2. \A j \in Items : dispatch_queue'[j].state = dispatch_queue[j].state
  BY ExpireEffect
     DEF LeaseExpires, RawLeaseExpires, DispatchLeaseExpires, TypeOK, StoreTypeOK
<1>3. QED
  BY <1>1, <1>2, QuietSent

LEMMA CrashSent ==
  ASSUME TypeOK, Busy, SentBacked, SomeoneCrashes
  PROVE  SentBacked'
<1>1. TypeOK' /\ UNCHANGED <<items, sent>>
  BY CrashType
     DEF SomeoneCrashes, CrashAnalyzer, CrashDispatcher, CrashReader, CrashAdmin, Crash,
         history, tables
<1>2. \A j \in Items : dispatch_queue'[j].state = dispatch_queue[j].state
  BY OrphanEffect
     DEF SomeoneCrashes, CrashAnalyzer, CrashDispatcher, CrashReader, CrashAdmin, tables,
         TypeOK, StoreTypeOK
<1>3. CASE UNCHANGED dispatcher
  BY <1>1, <1>2, <1>3, QuietSent
<1>4. ASSUME NEW d \in Dispatchers, CrashDispatcher(d) PROVE SentBacked'
  <2>1. \A c \in Dispatchers : dispatcher'[c].pc \in {"delivered", "complete"}
                                 => dispatcher'[c] = dispatcher[c]
    BY <1>4 DEF CrashDispatcher, Rest, IdleDispatcher, TypeOK, DispatcherTypeOK
  <2>2. QED
    BY <1>1, <1>2, <2>1 DEF SentBacked
<1>5. QED
  BY <1>3, <1>4 DEF SomeoneCrashes

LEMMA InitSent == Init => SentBacked
BY DEF Init, StoreInit, EmptyQueue, NoRow, NoItem, DispatcherInit, IdleDispatcher, SentBacked

LEMMA StutterSent == ASSUME SentBacked, UNCHANGED vars PROVE SentBacked'
BY DEF SentBacked, vars

(* dispatched_at is set, and a row of dispatch_queue closed, only after    *)
(* the message reached the destination: whatever leases expire, processes  *)
(* crash, statements fail, items are requeued or removed in between        *)
(* (deliver, markItemStatus and completeClaim of the dispatcher).          *)
THEOREM RecordsAreTrue == Spec => []DoneMeansSent
<1>1. Init => SentBacked
  BY InitSent
<1>2. TypeOK /\ Busy /\ SentBacked /\ [Next]_vars => SentBacked'
  BY AnalyzerSent, DispatcherSent, ReaderSent, AdminSent, LeaseSent, CrashSent, StutterSent
     DEF Next
<1>3. SentBacked => DoneMeansSent
  BY DEF SentBacked, DoneMeansSent
<1>4. QED
  BY <1>1, <1>2, <1>3, TypeCorrect, PTL DEF Spec

-----------------------------------------------------------------------------
(* A job is closed by its owner only, after it was queued for dispatch; a  *)
(* row of dispatch_queue goes only together with the job's own row.        *)
LEMMA QueuedStep ==
  ASSUME TypeOK, TypeOK', Busy, QueuedBacked, faults' >= faults, removals' >= removals,
         (faults' = 0 \/ removals' = 0) =>
           \A j \in Items : Queued(j) => Queued(j)' \/ analyzer_queue'[j] = NoRow,
         \A j \in Items : Closed(j)' => \/ Closed(j) \/ Queued(j)'
                                        \/ \E w \in Analyzers : Closing(w) /\ analyzer[w].item = j,
         \A w \in Analyzers : Closing(w)' =>
             \/ Queued(analyzer[w].item)'
             \/ Closing(w) /\ analyzer'[w].item = analyzer[w].item
  PROVE  QueuedBacked'
<1> SUFFICES ASSUME faults' = 0 \/ removals' = 0
             PROVE  /\ \A i \in Items : Closed(i)' => Queued(i)'
                    /\ \A w \in Analyzers : Closing(w)' => Queued(analyzer[w].item)'
  BY DEF QueuedBacked, Queued
<1>1. /\ \A i \in Items : Closed(i) => Queued(i)
      /\ \A w \in Analyzers : Closing(w) => Queued(analyzer[w].item)
  <2>1. faults = 0 \/ removals = 0
    BY DEF TypeOK, StoreTypeOK
  <2>2. QED
    BY <2>1 DEF QueuedBacked
<1>2. ASSUME NEW i \in Items, Closed(i)' PROVE Queued(i)'
  <2>1. analyzer_queue'[i] # NoRow
    BY <1>2 DEF Closed, NoRow
  <2>2. QED
    BY <1>1, <1>2, <2>1
<1>3. ASSUME NEW w \in Analyzers, Closing(w)' PROVE Queued(analyzer[w].item)'
  <2>1. CASE Closing(w) /\ analyzer'[w].item = analyzer[w].item
    <3>1. analyzer[w].item \in Items
      BY <2>1 DEF Closing, Busy
    <3>2. analyzer_queue'[analyzer[w].item] # NoRow
      BY <1>3, <2>1, OwnersAssumption, WorkersAssumption DEF Closing, NoRow
    <3>3. QED
      BY <1>1, <2>1, <3>1, <3>2 DEF Queued
  <2>2. QED
    BY <1>3, <2>1
<1>4. QED
  BY <1>2, <1>3

LEMMA AnalyzerQueued ==
  ASSUME TypeOK, Busy, QueuedBacked, NEW w \in Analyzers, AnalyzerActs(w)
  PROVE  QueuedBacked'
<1> DEFINE i == analyzer[w].item
<1>0. /\ TypeOK' /\ StoreTypeOK
      /\ UNCHANGED removals /\ removals \in Nat
      /\ At(w, "idle") \/ i \in Items
      /\ analyzer \in [Analyzers -> AnalyzerLocals]
      /\ \A v \in Analyzers \ {w} : analyzer'[v] = analyzer[v]
  <2>1. /\ TypeOK' /\ StoreTypeOK
        /\ UNCHANGED removals /\ removals \in Nat
        /\ At(w, "idle") \/ i \in Items
        /\ analyzer \in [Analyzers -> AnalyzerLocals]
    BY AnalyzerType
       DEF AnalyzerActs, AnalyzerStep, Busy, At, TypeOK, StoreTypeOK, AnalyzerTypeOK
  <2>2. \E locals : analyzer' = [analyzer EXCEPT ![w] = locals]
    BY <2>1
       DEF AnalyzerActs, AnalyzerStep, ClaimRaw, InterruptRaw, FindStored, AnalyzeOk,
           AnalyzeFails, InterruptAnalysis, Judge, MarkPoison, FailClaim, HandOver,
           StampHandOver, CompleteClaim, ReleaseClaim, GoTo, Finish
  <2>3. QED
    BY <2>1, <2>2
<1>1. faults' >= faults
  BY FaultGrows
     DEF AnalyzerActs, AnalyzerStep, ClaimRaw, InterruptRaw, FindStored, AnalyzeOk,
         AnalyzeFails, InterruptAnalysis, Judge, MarkPoison, FailClaim, HandOver,
         StampHandOver, CompleteClaim, ReleaseClaim, NoFault
<1>2. \A j \in Items : Queued(j) => Queued(j)'
  <2>1. \/ UNCHANGED dispatch_queue
        \/ i \in Items /\ dispatch_queue' = Enqueue(dispatch_queue, i)
    BY <1>0
       DEF AnalyzerActs, AnalyzerStep, ClaimRaw, InterruptRaw, FindStored, AnalyzeOk,
           AnalyzeFails, InterruptAnalysis, Judge, MarkPoison, FailClaim, HandOver,
           StampHandOver, CompleteClaim, ReleaseClaim, At, tables
  <2>2. QED
    BY <1>0, <2>1 DEF StoreTypeOK, Enqueue, Queued
<1>3. \/ UNCHANGED analyzer_queue
      \/ \E k \in Items : analyzer_queue' = Claim(analyzer_queue, k, w, RawCountCap)
      \/ i \in Items /\ analyzer_queue' \in {Release(analyzer_queue, i, w),
                                              Fail(analyzer_queue, i, w)}
      \/ i \in Items /\ At(w, "complete") /\ analyzer_queue' = Complete(analyzer_queue, i, w)
  BY <1>0
     DEF AnalyzerActs, AnalyzerStep, ClaimRaw, InterruptRaw, FindStored, AnalyzeOk,
         AnalyzeFails, InterruptAnalysis, Judge, MarkPoison, FailClaim, HandOver,
         StampHandOver, CompleteClaim, ReleaseClaim, At, tables
<1>4. ASSUME NEW j \in Items, Closed(j)'
      PROVE  Closed(j) \/ \E v \in Analyzers : Closing(v) /\ analyzer[v].item = j
  <2>1. CASE \E k \in Items : analyzer_queue' = Claim(analyzer_queue, k, w, RawCountCap)
    BY <1>0, <1>4, <2>1 DEF Claim, Closed, StoreTypeOK
  <2>2. CASE i \in Items /\ analyzer_queue' \in {Release(analyzer_queue, i, w),
                                                Fail(analyzer_queue, i, w)}
    BY <1>0, <1>4, <2>2 DEF Release, Fail, Settle, Closed, StoreTypeOK
  <2>3. CASE i \in Items /\ At(w, "complete") /\ analyzer_queue' = Complete(analyzer_queue, i, w)
    BY <1>0, <1>4, <2>3 DEF Complete, Settle, OwnedBy, Closed, Closing, At, StoreTypeOK
  <2>4. QED
    BY <1>3, <1>4, <2>1, <2>2, <2>3 DEF Closed
<1>5. ASSUME NEW v \in Analyzers, NEW j \in Items, analyzer_queue'[j].owner = v
      PROVE  \/ analyzer_queue[j].owner = v
             \/ v = w /\ analyzer_queue'[j].state = "LEASED" /\ At(w, "idle")
  <2>1. v # NoOwner
    BY OwnersAssumption, WorkersAssumption
  <2>2. QED
    BY <1>0, <1>5, <2>1
       DEF AnalyzerActs, AnalyzerStep, ClaimRaw, InterruptRaw, FindStored, AnalyzeOk,
           AnalyzeFails, InterruptAnalysis, Judge, MarkPoison, FailClaim, HandOver,
           StampHandOver, CompleteClaim, ReleaseClaim, At, tables, Claim, Release, Fail,
           Complete, Settle, StoreTypeOK
<1>6. ASSUME NEW v \in Analyzers, Closing(v)'
      PROVE  \/ Queued(analyzer[v].item)'
             \/ Closing(v) /\ analyzer'[v].item = analyzer[v].item
  <2>1. CASE v # w
    <3>1. analyzer'[v] = analyzer[v] /\ analyzer[v].item \in Items
      BY <1>0, <1>6, <2>1 DEF Closing, Busy
    <3>2. QED
      BY <1>5, <1>6, <2>1, <3>1 DEF Closing
  <2>2. CASE v = w
    <3>1. /\ i \in Items /\ analyzer'[w].item = i
          /\ \/ HandOver(w) /\ analyzer'[w].pc = "stamp"
             \/ StampHandOver(w)
      BY <1>0, <1>6, <2>2
         DEF AnalyzerActs, AnalyzerStep, ClaimRaw, InterruptRaw, FindStored, AnalyzeOk,
             AnalyzeFails, InterruptAnalysis, Judge, MarkPoison, FailClaim, HandOver,
             StampHandOver, CompleteClaim, ReleaseClaim, At, GoTo, Finish, IdleAnalyzer,
             AnalyzerLocals, Closing
    <3>2. CASE HandOver(w) /\ analyzer'[w].pc = "stamp"
      <4>1. dispatch_queue' = Enqueue(dispatch_queue, i)
        BY <1>0, <3>2 DEF HandOver, GoTo, AnalyzerLocals
      <4>2. QED
        BY <1>0, <2>2, <3>1, <4>1 DEF Enqueue, Queued, StoreTypeOK
    <3>3. CASE StampHandOver(w)
      BY <1>0, <1>6, <2>2, <3>1, <3>3 DEF StampHandOver, Closing, At
    <3>4. QED
      BY <3>1, <3>2, <3>3
  <2>3. QED
    BY <2>1, <2>2
<1>7. QED
  BY <1>0, <1>1, <1>2, <1>4, <1>6, QueuedStep

(* A step that no analyzer takes. *)
LEMMA OthersQueued ==
  ASSUME TypeOK, TypeOK', Busy, QueuedBacked, UNCHANGED analyzer,
         faults' >= faults, removals' >= removals,
         (faults' = 0 \/ removals' = 0) =>
           \A j \in Items : Queued(j) => Queued(j)' \/ analyzer_queue'[j] = NoRow,
         \A j \in Items : \/ analyzer_queue'[j] = NoRow
                          \/ /\ Closed(j)' => Closed(j)
                             /\ analyzer_queue'[j].owner
                                  \in {analyzer_queue[j].owner, NoOwner, Gone}
  PROVE  QueuedBacked'
<1>1. ASSUME NEW j \in Items, Closed(j)' PROVE Closed(j)
  BY <1>1 DEF Closed, NoRow
<1>2. ASSUME NEW w \in Analyzers, Closing(w)' PROVE Closing(w)
  <2>1. analyzer[w].item \in Items /\ w # NoOwner /\ w # Gone
    BY <1>2, OwnersAssumption, WorkersAssumption DEF Closing, Busy
  <2>2. analyzer_queue'[analyzer[w].item] # NoRow
    BY <1>2, <2>1 DEF Closing, NoRow
  <2>3. QED
    BY <1>2, <2>1, <2>2 DEF Closing
<1>3. QED
  BY <1>1, <1>2, QueuedStep

LEMMA DispatcherQueued ==
  ASSUME TypeOK, Busy, QueuedBacked, NEW d \in Dispatchers, DispatcherActs(d)
  PROVE  QueuedBacked'
<1> DEFINE i == dispatcher[d].item
<1>0. /\ TypeOK' /\ StoreTypeOK
      /\ UNCHANGED <<removals, analyzer, analyzer_queue>> /\ removals \in Nat
      /\ dispatcher[d].pc # "idle" => i \in Items
      /\ dispatch_queue \in [Items -> Row]
  BY DispatcherFrame
     DEF DispatcherActs, DispatcherStep, ClaimDispatch, InterruptDispatch, CheckDispatched,
         DeliverOk, DeliverFails, DeliverAmbiguously, RetryDelivery, InterruptDelivery,
         RecordDispatched, CompleteDispatchClaim, ReleaseDispatchClaim, tables, Busy, TypeOK,
         StoreTypeOK
<1>1. faults' >= faults
  BY FaultGrows
     DEF DispatcherActs, DispatcherStep, ClaimDispatch, InterruptDispatch, CheckDispatched,
         DeliverOk, DeliverFails, DeliverAmbiguously, RetryDelivery, InterruptDelivery,
         RecordDispatched, CompleteDispatchClaim, ReleaseDispatchClaim, NoFault
<1>2. \A j \in Items : Queued(j) => Queued(j)'
  <2>1. \/ UNCHANGED dispatch_queue
        \/ \E k \in Items : dispatch_queue' = Claim(dispatch_queue, k, d, DispatchCountCap)
        \/ i \in Items /\ dispatch_queue' \in {Release(dispatch_queue, i, d),
                                                Complete(dispatch_queue, i, d)}
    BY <1>0
       DEF DispatcherActs, DispatcherStep, ClaimDispatch, InterruptDispatch, CheckDispatched,
           DeliverOk, DeliverFails, DeliverAmbiguously, RetryDelivery, InterruptDelivery,
           RecordDispatched, CompleteDispatchClaim, ReleaseDispatchClaim, tables, Standing
  <2>2. QED
    BY <1>0, <2>1 DEF Claim, Release, Complete, Settle, Queued
<1>3. QED
  BY <1>0, <1>1, <1>2, OthersQueued DEF Closed

LEMMA ReaderQueued ==
  ASSUME TypeOK, Busy, QueuedBacked, ReaderActs
  PROVE  QueuedBacked'
<1> DEFINE i == reader.item
<1>0. /\ TypeOK' /\ StoreTypeOK
      /\ UNCHANGED <<analyzer, dispatch_queue>>
      /\ reader.pc # "idle" => i \in Items
  BY ReaderType
     DEF ReaderActs, ReaderStep, ReaderWork, InsertItemIfNew, EnqueueAnalyzerJob,
         MarkRawEnqueued, MarkEnqueueFailed, Cleanup, history, Busy, TypeOK
<1>1. faults' >= faults /\ removals' >= removals
  BY FaultGrows
     DEF ReaderActs, ReaderStep, ReaderWork, InsertItemIfNew, EnqueueAnalyzerJob,
         MarkRawEnqueued, MarkEnqueueFailed, Cleanup, NoFault, TypeOK, StoreTypeOK
<1>2. \/ UNCHANGED analyzer_queue
      \/ i \in Items /\ analyzer_queue' = Enqueue(analyzer_queue, i)
  BY <1>0
     DEF ReaderActs, ReaderStep, ReaderWork, InsertItemIfNew, EnqueueAnalyzerJob,
         MarkRawEnqueued, MarkEnqueueFailed, Cleanup
<1>3. ASSUME NEW j \in Items
      PROVE  /\ Closed(j)' => Closed(j)
             /\ analyzer_queue'[j].owner \in {analyzer_queue[j].owner, NoOwner, Gone}
  BY <1>0, <1>2 DEF Enqueue, Closed, StoreTypeOK
<1>4. QED
  BY <1>0, <1>1, <1>3, OthersQueued DEF Queued

LEMMA AdminQueued ==
  ASSUME TypeOK, Busy, QueuedBacked, AdminActs
  PROVE  QueuedBacked'
<1>0. /\ TypeOK' /\ StoreTypeOK
      /\ UNCHANGED analyzer
      /\ \A a \in Admins : admin[a].pc # "idle" => admin[a].item \in Items
      /\ removals \in Nat /\ faults \in Nat
  BY AdminType DEF AdminActs, Busy, TypeOK, StoreTypeOK
<1>1. ASSUME NEW i \in Items, HandleItemDelete(i) PROVE QueuedBacked'
  <2>1. removals' = removals + 1 /\ faults' >= faults
    BY <1>0, <1>1, FaultGrows DEF HandleItemDelete, Fault, NoFault
  <2>2. ASSUME faults' = 0 \/ removals' = 0, NEW j \in Items
        PROVE  Queued(j) => Queued(j)' \/ analyzer_queue'[j] = NoRow
    <3>1. /\ analyzer_queue' = DeleteRow(analyzer_queue, i)
          /\ dispatch_queue' = DeleteRow(dispatch_queue, i)
      BY <1>0, <1>1, <2>1, <2>2 DEF HandleItemDelete, Fault
    <3>2. QED
      BY <1>0, <3>1 DEF DeleteRow, Queued, StoreTypeOK, Row
  <2>3. ASSUME NEW j \in Items
        PROVE  \/ analyzer_queue'[j] = NoRow
               \/ /\ Closed(j)' => Closed(j)
                  /\ analyzer_queue'[j].owner = analyzer_queue[j].owner
    BY <1>0, <1>1 DEF HandleItemDelete, DeleteRow, Closed, StoreTypeOK, Row
  <2>4. QED
    BY <1>0, <2>1, <2>2, <2>3, OthersQueued
<1>2. ASSUME NEW a \in Admins, \/ AdminWork(a)
                               \/ \E k \in Items : RequeueRead(a, k)
      PROVE  QueuedBacked'
  <2>1. faults' >= faults /\ removals' >= removals
    BY <1>0, <1>2, FaultGrows
       DEF AdminWork, RequeueRead, RequeueRaw, RequeueAnalyzed, ResetToNew, ResetToAnalyzed,
           ResetItem
  <2>2. /\ \/ UNCHANGED analyzer_queue
           \/ \E i \in Items : analyzer_queue' = Enqueue(analyzer_queue, i)
        /\ \/ UNCHANGED dispatch_queue
           \/ \E i \in Items : dispatch_queue' = Enqueue(dispatch_queue, i)
    BY <1>0, <1>2
       DEF AdminWork, RequeueRead, RequeueRaw, RequeueAnalyzed, ResetToNew, ResetToAnalyzed,
           ResetItem, Serving, tables
  <2>3. ASSUME NEW j \in Items
        PROVE  /\ Closed(j)' => Closed(j)
               /\ analyzer_queue'[j].owner \in {analyzer_queue[j].owner, NoOwner, Gone}
               /\ Queued(j) => Queued(j)'
    BY <1>0, <2>2 DEF Enqueue, Closed, Queued, StoreTypeOK
  <2>4. QED
    BY <1>0, <2>1, <2>3, OthersQueued
<1>3. QED
  BY <1>1, <1>2 DEF AdminActs, AdminStep

LEMMA LeaseQueued ==
  ASSUME TypeOK, Busy, QueuedBacked, NEW i \in Items, LeaseExpires(i)
  PROVE  QueuedBacked'
<1>1. /\ TypeOK' /\ UNCHANGED <<analyzer, faults, removals>>
      /\ removals \in Nat /\ faults \in Nat
  BY LeaseType DEF LeaseExpires, RawLeaseExpires, DispatchLeaseExpires, history, TypeOK, StoreTypeOK
<1>2. ASSUME NEW j \in Items
      PROVE  /\ analyzer_queue'[j].state = analyzer_queue[j].state
             /\ analyzer_queue'[j].failed = analyzer_queue[j].failed
             /\ analyzer_queue'[j].owner = analyzer_queue[j].owner
             /\ dispatch_queue'[j].state = dispatch_queue[j].state
  BY DEF LeaseExpires, RawLeaseExpires, DispatchLeaseExpires, Expire, TypeOK, StoreTypeOK, Row
<1>3. QED
  BY <1>1, <1>2, OthersQueued DEF Queued, Closed

LEMMA CrashQueued ==
  ASSUME TypeOK, Busy, QueuedBacked, SomeoneCrashes
  PROVE  QueuedBacked'
<1>1. /\ TypeOK' /\ UNCHANGED <<faults, removals>>
      /\ removals \in Nat /\ faults \in Nat
  BY CrashType
     DEF SomeoneCrashes, CrashAnalyzer, CrashDispatcher, CrashReader, CrashAdmin, Crash,
         TypeOK, StoreTypeOK
<1>2. ASSUME NEW j \in Items
      PROVE  /\ analyzer_queue'[j].state = analyzer_queue[j].state
             /\ analyzer_queue'[j].failed = analyzer_queue[j].failed
             /\ analyzer_queue'[j].owner \in {analyzer_queue[j].owner, Gone}
             /\ dispatch_queue'[j].state = dispatch_queue[j].state
  BY DEF SomeoneCrashes, CrashAnalyzer, CrashDispatcher, CrashReader, CrashAdmin, Orphan,
         tables, TypeOK, StoreTypeOK, Row
<1>3. CASE UNCHANGED analyzer
  BY <1>1, <1>2, <1>3, OthersQueued DEF Queued, Closed
<1>4. ASSUME NEW w \in Analyzers, CrashAnalyzer(w) PROVE QueuedBacked'
  <2>1. \A j \in Items : Closed(j)' => Closed(j)
    BY <1>2 DEF Closed
  <2>2. ASSUME NEW v \in Analyzers, Closing(v)'
        PROVE  Closing(v) /\ analyzer'[v].item = analyzer[v].item
    <3>1. analyzer'[v] = analyzer[v]
      BY <1>4, <2>2 DEF CrashAnalyzer, Finish, IdleAnalyzer, Closing, TypeOK, AnalyzerTypeOK
    <3>2. analyzer[v].item \in Items /\ v # Gone
      BY <2>2, <3>1, OwnersAssumption, WorkersAssumption DEF Closing, Busy
    <3>3. QED
      BY <1>2, <2>2, <3>1, <3>2 DEF Closing
  <2>3. QED
    BY <1>1, <1>2, <2>1, <2>2, QueuedStep DEF Queued
<1>5. QED
  BY <1>3, <1>4 DEF SomeoneCrashes

LEMMA InitQueued == Init => QueuedBacked
BY DEF Init, StoreInit, EmptyQueue, NoRow, AnalyzerInit, IdleAnalyzer, QueuedBacked, Closed,
       Closing

LEMMA StutterQueued == ASSUME QueuedBacked, UNCHANGED vars PROVE QueuedBacked'
BY DEF QueuedBacked, Closed, Closing, Queued, vars

(* A job that analyzer_queue records as done was handed over, for any      *)
(* number of analyzers that take over each other's expired leases: only    *)
(* the owner closes a job, after it was queued for dispatch (claimNext-    *)
(* RawJob, enqueueDispatchJob, completeClaim and the item deletion).       *)
THEOREM HandedOverAlways == Spec => []HandedOver
<1>1. Init => QueuedBacked
  BY InitQueued
<1>2. TypeOK /\ Busy /\ QueuedBacked /\ [Next]_vars => QueuedBacked'
  BY AnalyzerQueued, DispatcherQueued, ReaderQueued, AdminQueued, LeaseQueued, CrashQueued,
     StutterQueued DEF Next
<1>3. QueuedBacked => HandedOver
  BY DEF QueuedBacked, HandedOver, Closed, Queued
<1>4. QED
  BY <1>1, <1>2, <1>3, TypeCorrect, PTL DEF Spec

-----------------------------------------------------------------------------
(* What is on its way, or on record, keeps its payload. *)
LEMMA ResultStep ==
  ASSUME TypeOK, TypeOK', ResultBacked, faults' >= faults, removals' >= removals,
         \A j \in Items : items'[j].status = "DISPATCHED" => items'[j].dispatched,
         (faults' = 0 /\ removals' = 0) =>
           \A j \in Items : OnItsWay(j)' =>
             items'[j].analyzed \/ (OnItsWay(j) /\ (items[j].analyzed => items'[j].analyzed))
  PROVE  ResultBacked'
<1> SUFFICES ASSUME faults' = 0 /\ removals' = 0, NEW j \in Items, OnItsWay(j)'
             PROVE  items'[j].analyzed
  BY DEF ResultBacked
<1>1. faults = 0 /\ removals = 0
  BY DEF TypeOK, StoreTypeOK
<1>2. QED
  BY <1>1 DEF ResultBacked

(* A step of the reader, a request, a lease or a crash. *)
LEMMA OthersResult ==
  ASSUME TypeOK, TypeOK', ResultBacked, faults' >= faults, removals' >= removals,
         UNCHANGED <<analyzer, dispatcher>>,
         \A j \in Items : items'[j].status = "DISPATCHED" =>
             items[j].status = "DISPATCHED" /\ (items[j].dispatched => items'[j].dispatched),
         \A j \in Items : items'[j].dispatched => items[j].dispatched,
         removals' = 0 => \A j \in Items : items[j].analyzed => items'[j].analyzed,
         \A j \in Items : items'[j].status = "ANALYZED" => OnItsWay(j),
         \A j \in Items : dispatch_queue'[j].state # "ABSENT" => OnItsWay(j),
         \A a \in Admins, j \in Items : Again(a, j)' => OnItsWay(j) \/ items'[j].analyzed
  PROVE  ResultBacked'
<1>1. ASSUME NEW j \in Items, OnItsWay(j)' PROVE OnItsWay(j) \/ items'[j].analyzed
  BY <1>1 DEF OnItsWay, Leaving, Again
<1>2. QED
  BY <1>1, ResultStep DEF ResultBacked

LEMMA ReaderResult ==
  ASSUME TypeOK, Busy, DeliveryInv, ResultBacked, ReaderActs
  PROVE  ResultBacked'
<1> DEFINE i == reader.item
<1>0. /\ TypeOK' /\ StoreTypeOK
      /\ UNCHANGED <<analyzer, dispatcher, admin, dispatch_queue>>
      /\ reader.pc # "idle" => i \in Items
      /\ faults \in Nat /\ removals \in Nat /\ items \in [Items -> Item]
  BY ReaderType
     DEF ReaderActs, ReaderStep, ReaderWork, InsertItemIfNew, EnqueueAnalyzerJob,
         MarkRawEnqueued, MarkEnqueueFailed, Cleanup, history, Busy, TypeOK, StoreTypeOK
<1>1. ASSUME NEW k \in Items, InsertItemIfNew(k) PROVE ResultBacked'
  <2>1. /\ UNCHANGED <<faults, removals>>
        /\ items' = [items EXCEPT ![k] = NewItem] /\ ~items[k].present
    BY <1>1 DEF InsertItemIfNew
  <2>2. \A j \in Items : items'[j].status = "DISPATCHED" => items'[j].dispatched
    BY <1>0, <2>1 DEF NewItem, NoItem, ResultBacked
  <2>3. ASSUME faults' = 0 /\ removals' = 0, NEW j \in Items, OnItsWay(j)'
        PROVE  OnItsWay(j) /\ (items[j].analyzed => items'[j].analyzed)
    <3>1. CASE j # k
      BY <1>0, <2>1, <2>3, <3>1 DEF OnItsWay, Leaving, Again
    <3>2. CASE j = k
      <4>1. ~Held(k)
        BY <2>1, <2>3 DEF DeliveryInv, HeldIsPresent
      <4>2. items'[k].status = "NEW" /\ ~items'[k].dispatched
        BY <1>0, <2>1 DEF NewItem, NoItem
      <4>3. QED
        BY <1>0, <2>3, <3>2, <4>1, <4>2 DEF OnItsWay, Leaving, Again, Held
    <3>3. QED
      BY <3>1, <3>2
  <2>4. faults' >= faults /\ removals' >= removals
    BY <1>0, <2>1
  <2>5. QED
    BY <1>0, <2>2, <2>3, <2>4, ResultStep
<1>2. ASSUME NEW S \in SUBSET Items, Cleanup(S) PROVE ResultBacked'
  <2>1. /\ removals' = removals + 1 /\ UNCHANGED faults
        /\ \A j \in Items : items'[j] = items[j] \/ items'[j] = NoItem
    BY <1>2 DEF Cleanup
  <2>2. \A j \in Items : items'[j].status = "DISPATCHED" => items'[j].dispatched
    BY <2>1 DEF NoItem, ResultBacked
  <2>3. QED
    BY <1>0, <2>1, <2>2, ResultStep
<1>3. ASSUME ReaderWork PROVE ResultBacked'
  <2>1. \/ UNCHANGED items
        \/ i \in Items /\ items' \in {MarkQueued(i), MarkUnqueued(i)}
    BY <1>0, <1>3 DEF ReaderWork, EnqueueAnalyzerJob, MarkRawEnqueued, MarkEnqueueFailed
  <2>2. ASSUME NEW j \in Items
        PROVE  /\ items'[j].status = "DISPATCHED" =>
                    items[j].status = "DISPATCHED" /\ (items[j].dispatched => items'[j].dispatched)
               /\ items'[j].dispatched => items[j].dispatched
               /\ items[j].analyzed => items'[j].analyzed
               /\ items'[j].status = "ANALYZED" => items[j].status = "ANALYZED"
    <3>1. CASE i \in Items /\ items' \in {MarkQueued(i), MarkUnqueued(i)}
      <4>1. /\ items' \in {MarkFailed(i), MarkAnalyzed(i), MarkHandedOver(i), MarkUndelivered(i),
                           MarkQueued(i), MarkUnqueued(i), MarkNew(i), MarkAgain(i)}
            /\ items' \in {MarkFailed(i), MarkHandedOver(i), MarkUndelivered(i), MarkQueued(i),
                           MarkUnqueued(i), MarkNew(i), MarkDispatched(i)}
        BY <3>1
      <4>2. QED
        BY <1>0, <3>1, <4>1, MarkRecords, MarkStatuses
    <3>2. QED
      BY <2>1, <3>1
  <2>3. faults' >= faults /\ removals' >= removals
    BY <1>0, <1>3, FaultGrows DEF ReaderWork, EnqueueAnalyzerJob, MarkRawEnqueued, MarkEnqueueFailed
  <2>4. \A j \in Items : \/ items'[j].status = "ANALYZED" \/ dispatch_queue'[j].state # "ABSENT"
                         \/ \E a \in Admins : Again(a, j)'
                         => OnItsWay(j)
    BY <1>0, <2>2 DEF OnItsWay, Again
  <2>5. QED
    BY <1>0, <2>2, <2>3, <2>4, OthersResult
<1>4. QED
  BY <1>1, <1>2, <1>3 DEF ReaderActs, ReaderStep

LEMMA AdminResult ==
  ASSUME TypeOK, Busy, ResultBacked, AdminActs
  PROVE  ResultBacked'
<1>0. /\ TypeOK' /\ StoreTypeOK
      /\ UNCHANGED <<analyzer, dispatcher>>
      /\ \A a \in Admins : admin[a].pc # "idle" => admin[a].item \in Items
      /\ faults \in Nat /\ removals \in Nat /\ items \in [Items -> Item]
      /\ admin \in [Admins -> [pc : AdminPc, item : Items \cup {NoRequest}]]
  BY AdminType DEF AdminActs, Busy, TypeOK, StoreTypeOK, AdminTypeOK
<1>1. ASSUME NEW i \in Items, HandleItemDelete(i) PROVE ResultBacked'
  <2>1. /\ removals' = removals + 1 /\ faults' >= faults
        /\ \A j \in Items : items'[j] = items[j] \/ items'[j] = NoItem
    BY <1>0, <1>1, FaultGrows DEF HandleItemDelete
  <2>2. \A j \in Items : items'[j].status = "DISPATCHED" => items'[j].dispatched
    BY <2>1 DEF NoItem, ResultBacked
  <2>3. QED
    BY <1>0, <2>1, <2>2, ResultStep
<1>2. ASSUME NEW a \in Admins, NEW i \in Items, RequeueRead(a, i) PROVE ResultBacked'
  <2>1. UNCHANGED <<items, dispatch_queue, faults, removals>>
    BY <1>2 DEF RequeueRead, tables
  <2>2. ASSUME NEW b \in Admins, NEW j \in Items, Again(b, j)'
        PROVE  OnItsWay(j) \/ items'[j].analyzed
    BY <1>0, <1>2, <2>1, <2>2 DEF RequeueRead, Again, OnItsWay
  <2>3. \A j \in Items : \/ items'[j].status = "ANALYZED" \/ dispatch_queue'[j].state # "ABSENT"
                         => OnItsWay(j)
    BY <2>1 DEF OnItsWay
  <2>4. faults' >= faults /\ removals' >= removals
    BY <1>0, <2>1
  <2>5. QED
    BY <1>0, <2>1, <2>2, <2>3, <2>4, OthersResult
<1>3. ASSUME NEW a \in Admins, AdminWork(a) PROVE ResultBacked'
  <2> DEFINE i == admin[a].item
  <2>1. i \in Items
    BY <1>0, <1>3 DEF AdminWork, RequeueRaw, RequeueAnalyzed, ResetToNew, ResetToAnalyzed,
                      Serving
  <2>2. \/ UNCHANGED items
        \/ items' = MarkNew(i)
        \/ items' = MarkAgain(i) /\ Again(a, i)
    BY <1>3 DEF AdminWork, RequeueRaw, RequeueAnalyzed, ResetToNew, ResetToAnalyzed,
                ResetItem, Serving, Again
  <2>3. \/ UNCHANGED dispatch_queue
        \/ dispatch_queue' = Enqueue(dispatch_queue, i) /\ Again(a, i)
    BY <1>3 DEF AdminWork, RequeueRaw, RequeueAnalyzed, ResetToNew, ResetToAnalyzed,
                ResetItem, Serving, Again
  <2>4. ASSUME NEW j \in Items
        PROVE  /\ items'[j].status = "DISPATCHED" =>
                    items[j].status = "DISPATCHED" /\ (items[j].dispatched => items'[j].dispatched)
               /\ items'[j].dispatched => items[j].dispatched
               /\ items[j].analyzed => items'[j].analyzed
    <3>1. CASE items' \in {MarkNew(i), MarkAgain(i)}
      <4>1. items' \in {MarkFailed(i), MarkAnalyzed(i), MarkHandedOver(i), MarkUndelivered(i),
                        MarkQueued(i), MarkUnqueued(i), MarkNew(i), MarkAgain(i)}
        BY <3>1
      <4>2. QED
        BY <1>0, <2>1, <4>1, MarkRecords
    <3>2. QED
      BY <2>2, <3>1
  <2>5. ASSUME NEW j \in Items, items'[j].status = "ANALYZED" PROVE OnItsWay(j)
    <3>1. CASE items' = MarkNew(i)
      <4>1. items' \in {MarkFailed(i), MarkHandedOver(i), MarkUndelivered(i), MarkQueued(i),
                        MarkUnqueued(i), MarkNew(i), MarkDispatched(i)}
        BY <3>1
      <4>2. QED
        BY <1>0, <2>1, <2>5, <4>1, MarkStatuses DEF OnItsWay
    <3>2. CASE items' = MarkAgain(i) /\ Again(a, i)
      BY <1>0, <2>1, <2>5, <3>2, AnalyzedEffect DEF OnItsWay
    <3>3. QED
      BY <2>2, <2>5, <3>1, <3>2 DEF OnItsWay
  <2>6. ASSUME NEW j \in Items, dispatch_queue'[j].state # "ABSENT" PROVE OnItsWay(j)
    <3>1. dispatch_queue[j].state # "ABSENT" \/ (j = i /\ Again(a, i))
      BY <1>0, <2>1, <2>3, <2>6, EnqueueEffect DEF StoreTypeOK
    <3>2. QED
      BY <3>1 DEF OnItsWay
  <2>7. ASSUME NEW b \in Admins, NEW j \in Items, Again(b, j)' PROVE Again(b, j)
    <3>1. \/ admin' = [admin EXCEPT ![a] = IdleAdmin]
          \/ Serving(a, "queueRaw") /\ admin' = [admin EXCEPT ![a].pc = "resetRaw"]
          \/ Serving(a, "queueAnalyzed") /\ admin' = [admin EXCEPT ![a].pc = "resetAnalyzed"]
      BY <1>3 DEF AdminWork, RequeueRaw, RequeueAnalyzed, ResetToNew, ResetToAnalyzed,
                  ResetItem, Answer, Serve
    <3>2. QED
      BY <1>0, <2>7, <3>1 DEF Again, IdleAdmin, Serving
  <2>8. faults' >= faults /\ removals' >= removals
    BY <1>0, <1>3, FaultGrows
       DEF AdminWork, RequeueRaw, RequeueAnalyzed, ResetToNew, ResetToAnalyzed, ResetItem
  <2>9. \A b \in Admins, j \in Items : Again(b, j)' => OnItsWay(j)
    BY <2>7 DEF OnItsWay
  <2>10. QED
    BY <1>0, <2>4, <2>5, <2>6, <2>8, <2>9, OthersResult
<1>4. QED
  BY <1>1, <1>2, <1>3 DEF AdminActs, AdminStep

LEMMA LeaseResult ==
  ASSUME TypeOK, Busy, ResultBacked, NEW i \in Items, LeaseExpires(i)
  PROVE  ResultBacked'
<1>1. /\ TypeOK' /\ UNCHANGED <<items, analyzer, dispatcher, admin, faults, removals>>
      /\ removals \in Nat /\ faults \in Nat
  BY LeaseType DEF LeaseExpires, RawLeaseExpires, DispatchLeaseExpires, history, TypeOK, StoreTypeOK
<1>2. \A j \in Items : dispatch_queue'[j].state = dispatch_queue[j].state
  BY ExpireEffect
     DEF LeaseExpires, RawLeaseExpires, DispatchLeaseExpires, TypeOK, StoreTypeOK
<1>3. \A j \in Items : OnItsWay(j)' => OnItsWay(j)
  BY <1>1, <1>2 DEF OnItsWay, Leaving, Again
<1>4. QED
  BY <1>1, <1>3, ResultStep DEF ResultBacked

LEMMA CrashResult ==
  ASSUME TypeOK, Busy, ResultBacked, SomeoneCrashes
  PROVE  ResultBacked'
<1>1. /\ TypeOK' /\ UNCHANGED <<items, faults, removals>>
      /\ removals \in Nat /\ faults \in Nat
  BY CrashType
     DEF SomeoneCrashes, CrashAnalyzer, CrashDispatcher, CrashReader, CrashAdmin, Crash,
         tables, TypeOK, StoreTypeOK
<1>2. \A j \in Items : dispatch_queue'[j].state = dispatch_queue[j].state
  BY OrphanEffect
     DEF SomeoneCrashes, CrashAnalyzer, CrashDispatcher, CrashReader, CrashAdmin, tables,
         TypeOK, StoreTypeOK
<1>3. ASSUME NEW j \in Items
      PROVE  /\ \A w \in Analyzers : Leaving(w, j)' => Leaving(w, j)
             /\ \A d \in Dispatchers : dispatcher'[d].item = j => dispatcher[d].item = j
             /\ \A a \in Admins : Again(a, j)' => Again(a, j)
  <2>1. CASE \E w \in Analyzers :
               CrashAnalyzer(w) /\ UNCHANGED <<dispatcher, reader, admin, requeues>>
    BY <2>1 DEF CrashAnalyzer, Finish, IdleAnalyzer, Leaving, Again, TypeOK, AnalyzerTypeOK
  <2>2. CASE \E d \in Dispatchers :
               CrashDispatcher(d) /\ UNCHANGED <<analyzer, reader, admin, requeues>>
    BY <2>2, OwnersAssumption
       DEF CrashDispatcher, Rest, IdleDispatcher, NoMessage, Leaving, Again, TypeOK,
           DispatcherTypeOK
  <2>3. CASE CrashReader /\ UNCHANGED <<analyzer, dispatcher, admin, requeues>>
    BY <2>3 DEF Leaving, Again
  <2>4. CASE CrashAdmin /\ UNCHANGED <<analyzer, dispatcher, reader>>
    BY <2>4 DEF CrashAdmin, IdleAdmin, Leaving, Again
  <2>5. QED
    BY <2>1, <2>2, <2>3, <2>4 DEF SomeoneCrashes
<1>4. \A j \in Items : OnItsWay(j)' => OnItsWay(j)
  BY <1>1, <1>2, <1>3 DEF OnItsWay
<1>5. QED
  BY <1>1, <1>4, ResultStep DEF ResultBacked

LEMMA AnalyzerResult ==
  ASSUME TypeOK, Busy, DeliveryInv, ResultBacked, NEW w \in Analyzers, AnalyzerActs(w)
  PROVE  ResultBacked'
<1> DEFINE i == analyzer[w].item
<1>0. /\ TypeOK' /\ StoreTypeOK
      /\ UNCHANGED <<dispatcher, admin, removals>>
      /\ At(w, "idle") \/ i \in Items
      /\ analyzer \in [Analyzers -> AnalyzerLocals]
      /\ faults \in Nat /\ removals \in Nat
  BY AnalyzerType
     DEF AnalyzerActs, AnalyzerStep, Busy, At, TypeOK, StoreTypeOK, AnalyzerTypeOK
<1>1. faults' >= faults
  BY FaultGrows
     DEF AnalyzerActs, AnalyzerStep, ClaimRaw, InterruptRaw, FindStored, AnalyzeOk,
         AnalyzeFails, InterruptAnalysis, Judge, MarkPoison, FailClaim, HandOver,
         StampHandOver, CompleteClaim, ReleaseClaim, NoFault
<1>2. \/ UNCHANGED items
      \/ i \in Items /\ items' \in {MarkFailed(i), MarkHandedOver(i)}
      \/ i \in Items /\ items' = MarkAnalyzed(i) /\ At(w, "analyze")
  BY <1>0
     DEF AnalyzerActs, AnalyzerStep, ClaimRaw, InterruptRaw, FindStored, AnalyzeOk,
         AnalyzeFails, InterruptAnalysis, Judge, MarkPoison, FailClaim, HandOver,
         StampHandOver, CompleteClaim, ReleaseClaim, At, tables
<1>3. ASSUME NEW j \in Items
      PROVE  /\ items'[j].status = "DISPATCHED" => items'[j].dispatched
             /\ items'[j].dispatched => items[j].dispatched
             /\ items[j].analyzed => items'[j].analyzed
  <2>1. CASE i \in Items /\ items' \in {MarkFailed(i), MarkHandedOver(i), MarkAnalyzed(i)}
    <3>1. items' \in {MarkFailed(i), MarkAnalyzed(i), MarkHandedOver(i), MarkUndelivered(i),
                      MarkQueued(i), MarkUnqueued(i), MarkNew(i), MarkAgain(i)}
      BY <2>1
    <3>2. QED
      BY <1>0, <2>1, <3>1, MarkRecords DEF ResultBacked
  <2>2. QED
    BY <1>2, <2>1 DEF ResultBacked
<1>4. ASSUME faults' = 0 /\ removals' = 0
      PROVE  /\ faults' = faults
             /\ i \in Items => items[i].present
             /\ \A j \in Items : items[j].dispatched => items[j].analyzed
             /\ At(w, "claimed") => items[i].analyzed \/ analyzer'[w].pc # "handOver"
  <2>1. faults' = faults /\ ~Fault
    BY <1>0, <1>1, <1>4 DEF Fault
  <2>2. i \in Items => items[i].present
    BY <1>0, <1>4 DEF DeliveryInv, HeldIsPresent, Held
  <2>3. \A j \in Items : items[j].dispatched => items[j].analyzed
    BY <1>0, <1>4, <2>1 DEF ResultBacked, OnItsWay
  <2>4. At(w, "claimed") => items[i].analyzed \/ analyzer'[w].pc # "handOver"
    BY <1>0, <2>1
       DEF AnalyzerActs, AnalyzerStep, ClaimRaw, InterruptRaw, FindStored, AnalyzeOk,
           AnalyzeFails, InterruptAnalysis, Judge, MarkPoison, FailClaim, HandOver,
           StampHandOver, CompleteClaim, ReleaseClaim, At, GoTo, AnalyzerLocals
  <2>5. QED
    BY <2>1, <2>2, <2>3, <2>4
<1>5. ASSUME faults' = 0 /\ removals' = 0, i \in Items, items' = MarkAnalyzed(i)
      PROVE  items'[i].analyzed
  BY <1>0, <1>3, <1>4, <1>5, AnalyzedEffect DEF ResultBacked
<1>6. ASSUME faults' = 0 /\ removals' = 0, NEW j \in Items, items'[j].status = "ANALYZED"
      PROVE  items[j].status = "ANALYZED" \/ items'[j].analyzed
  <2>1. CASE i \in Items /\ items' \in {MarkFailed(i), MarkHandedOver(i)}
    <3>1. items' \in {MarkFailed(i), MarkHandedOver(i), MarkUndelivered(i), MarkQueued(i),
                      MarkUnqueued(i), MarkNew(i), MarkDispatched(i)}
      BY <2>1
    <3>2. QED
      BY <1>0, <1>6, <2>1, <3>1, MarkStatuses
  <2>2. CASE i \in Items /\ items' = MarkAnalyzed(i)
    BY <1>0, <1>5, <1>6, <2>2, AnalyzedEffect
  <2>3. QED
    BY <1>2, <1>6, <2>1, <2>2
<1>7. ASSUME NEW j \in Items, dispatch_queue'[j].state # "ABSENT"
      PROVE  dispatch_queue[j].state # "ABSENT" \/ Leaving(w, j)
  <2>1. \/ UNCHANGED dispatch_queue
        \/ Leaving(w, i) /\ i \in Items /\ dispatch_queue' = Enqueue(dispatch_queue, i)
    BY <1>0
       DEF AnalyzerActs, AnalyzerStep, ClaimRaw, InterruptRaw, FindStored, AnalyzeOk,
           AnalyzeFails, InterruptAnalysis, Judge, MarkPoison, FailClaim, HandOver,
           StampHandOver, CompleteClaim, ReleaseClaim, At, tables, Leaving
  <2>2. QED
    BY <1>0, <1>7, <2>1, EnqueueEffect DEF StoreTypeOK
<1>8. ASSUME faults' = 0 /\ removals' = 0, NEW j \in Items, NEW v \in Analyzers, Leaving(v, j)'
      PROVE  Leaving(v, j) \/ items'[j].analyzed
  <2>1. CASE v # w
    <3>1. analyzer'[v] = analyzer[v]
      <4>1. \E locals : analyzer' = [analyzer EXCEPT ![w] = locals]
        BY <1>0
           DEF AnalyzerActs, AnalyzerStep, ClaimRaw, InterruptRaw, FindStored, AnalyzeOk,
               AnalyzeFails, InterruptAnalysis, Judge, MarkPoison, FailClaim, HandOver,
               StampHandOver, CompleteClaim, ReleaseClaim, GoTo, Finish
      <4>2. QED
        BY <1>0, <2>1, <4>1
    <3>2. QED
      BY <1>8, <3>1 DEF Leaving
  <2>2. CASE v = w
    <3>1. /\ i = j
          /\ \/ Leaving(w, i)
             \/ At(w, "claimed") /\ analyzer'[w].pc = "handOver"
             \/ AnalyzeOk(w)
      BY <1>0, <1>8, <2>2
         DEF AnalyzerActs, AnalyzerStep, ClaimRaw, InterruptRaw, FindStored,
             AnalyzeFails, AnalyzeOk, InterruptAnalysis, Judge, MarkPoison, FailClaim, HandOver,
             StampHandOver, CompleteClaim, ReleaseClaim, At, GoTo, Finish, IdleAnalyzer,
             AnalyzerLocals, Leaving
    <3>2. CASE At(w, "claimed") /\ analyzer'[w].pc = "handOver"
      BY <1>3, <1>4, <1>8, <3>1, <3>2
    <3>3. CASE AnalyzeOk(w)
      <4>1. items' = MarkAnalyzed(i)
        BY <1>0, <1>1, <1>4, <1>8, <3>3 DEF AnalyzeOk, Fault
      <4>2. QED
        BY <1>5, <1>8, <3>1, <4>1
    <3>4. QED
      BY <2>2, <3>1, <3>2, <3>3
  <2>3. QED
    BY <2>1, <2>2
<1>9. ASSUME faults' = 0 /\ removals' = 0, NEW j \in Items, OnItsWay(j)'
      PROVE  OnItsWay(j) \/ items'[j].analyzed
  BY <1>0, <1>3, <1>6, <1>7, <1>8, <1>9 DEF OnItsWay, Again
<1>10. QED
  BY <1>0, <1>1, <1>3, <1>9, ResultStep

LEMMA DispatcherResult ==
  ASSUME TypeOK, Busy, ResultBacked, NEW d \in Dispatchers, DispatcherActs(d)
  PROVE  ResultBacked'
<1> DEFINE i == dispatcher[d].item
<1>0. /\ TypeOK' /\ StoreTypeOK
      /\ UNCHANGED <<analyzer, admin, removals>>
      /\ \A c \in Dispatchers \ {d} : dispatcher'[c] = dispatcher[c]
      /\ dispatcher[d].pc # "idle" => i \in Items
      /\ dispatcher \in [Dispatchers -> DispatcherLocals]
      /\ faults \in Nat /\ removals \in Nat /\ dispatch_queue \in [Items -> Row]
  BY DispatcherFrame DEF DispatcherActs, DispatcherStep, Busy, TypeOK, StoreTypeOK, DispatcherTypeOK
<1>1. faults' >= faults
  BY FaultGrows
     DEF DispatcherActs, DispatcherStep, ClaimDispatch, InterruptDispatch, CheckDispatched,
         DeliverOk, DeliverFails, DeliverAmbiguously, RetryDelivery, InterruptDelivery,
         RecordDispatched, CompleteDispatchClaim, ReleaseDispatchClaim, NoFault
<1>2. \/ UNCHANGED items
      \/ i \in Items /\ items' \in {MarkUndelivered(i), MarkDispatched(i)}
  BY <1>0
     DEF DispatcherActs, DispatcherStep, ClaimDispatch, InterruptDispatch, CheckDispatched,
         DeliverOk, DeliverFails, DeliverAmbiguously, RetryDelivery, InterruptDelivery,
         RecordDispatched, CompleteDispatchClaim, ReleaseDispatchClaim, tables, Standing
<1>3. ASSUME NEW j \in Items
      PROVE  /\ items'[j].status = "DISPATCHED" => items'[j].dispatched
             /\ items'[j].dispatched => items[j].dispatched \/ j = i
             /\ items[j].analyzed => items'[j].analyzed
             /\ items'[j].status = "ANALYZED" => items[j].status = "ANALYZED"
  <2>1. CASE i \in Items /\ items' \in {MarkUndelivered(i), MarkDispatched(i)}
    <3>1. items' \in {MarkFailed(i), MarkHandedOver(i), MarkUndelivered(i), MarkQueued(i),
                      MarkUnqueued(i), MarkNew(i), MarkDispatched(i)}
      BY <2>1
    <3>2. items'[j].status = "ANALYZED" => items[j].status = "ANALYZED"
      BY <1>0, <2>1, <3>1, MarkStatuses
    <3>3. CASE items' = MarkUndelivered(i)
      BY <1>0, <2>1, <3>2, <3>3, MarkRecords DEF ResultBacked
    <3>4. CASE items' = MarkDispatched(i)
      BY <1>0, <2>1, <3>2, <3>4, DispatchedEffect DEF ResultBacked
    <3>5. QED
      BY <2>1, <3>3, <3>4
  <2>2. QED
    BY <1>2, <2>1 DEF ResultBacked
<1>4. ASSUME NEW j \in Items, dispatch_queue'[j].state # "ABSENT"
      PROVE  OnItsWay(j)
  <2>1. \/ UNCHANGED dispatch_queue
        \/ \E k \in Items : /\ IsNext(dispatch_queue, k)
                            /\ dispatch_queue' = Claim(dispatch_queue, k, d, DispatchCountCap)
        \/ i \in Items /\ dispatch_queue' \in {Release(dispatch_queue, i, d),
                                                Complete(dispatch_queue, i, d)}
    BY <1>0
       DEF DispatcherActs, DispatcherStep, ClaimDispatch, InterruptDispatch, CheckDispatched,
           DeliverOk, DeliverFails, DeliverAmbiguously, RetryDelivery, InterruptDelivery,
           RecordDispatched, CompleteDispatchClaim, ReleaseDispatchClaim, tables, Standing
  <2>2. dispatch_queue[j].state # "ABSENT" \/ j = i
    BY <1>0, <1>4, <2>1 DEF IsNext, Claimable, Claim, Release, Complete, Settle
  <2>3. QED
    BY <2>2 DEF OnItsWay
<1>5. ASSUME NEW j \in Items, NEW c \in Dispatchers, dispatcher'[c].item = j
      PROVE  OnItsWay(j)
  <2>1. CASE c # d
    BY <1>0, <1>5, <2>1 DEF OnItsWay
  <2>2. CASE c = d
    <3>1. i = j \/ IsNext(dispatch_queue, j)
      BY <1>0, <1>5, <2>2, OwnersAssumption
         DEF DispatcherActs, DispatcherStep, ClaimDispatch, InterruptDispatch, CheckDispatched,
             DeliverOk, DeliverFails, DeliverAmbiguously, RetryDelivery, InterruptDelivery,
             RecordDispatched, CompleteDispatchClaim, ReleaseDispatchClaim, Proceed, Rest,
             IdleDispatcher, NoMessage, DispatcherLocals
    <3>2. QED
      BY <3>1 DEF IsNext, Claimable, OnItsWay
  <2>3. QED
    BY <2>1, <2>2
<1>6. ASSUME NEW j \in Items, OnItsWay(j)' PROVE OnItsWay(j)
  <2>1. j = i => OnItsWay(j)
    BY DEF OnItsWay
  <2>2. QED
    BY <1>0, <1>3, <1>4, <1>5, <1>6, <2>1 DEF OnItsWay, Leaving, Again
<1>7. QED
  BY <1>0, <1>1, <1>3, <1>6, ResultStep

LEMMA InitResult == Init => ResultBacked
<1> SUFFICES ASSUME Init PROVE ResultBacked
  OBVIOUS
<1>1. \A i \in Items : ~OnItsWay(i) /\ items[i].status = "NEW"
  BY OwnersAssumption
     DEF Init, StoreInit, EmptyQueue, NoRow, NoItem, AnalyzerInit, IdleAnalyzer,
         DispatcherInit, IdleDispatcher, NoMessage, AdminInit, IdleAdmin, OnItsWay, Leaving,
         Again
<1>2. QED
  BY <1>1 DEF ResultBacked

LEMMA StutterResult == ASSUME ResultBacked, UNCHANGED vars PROVE ResultBacked'
BY DEF ResultBacked, OnItsWay, Leaving, Again, vars

LEMMA ResultInvariant == Spec => []ResultBacked
<1>1. Init => ResultBacked
  BY InitResult
<1>2. TypeOK /\ Busy /\ DeliveryInv /\ ResultBacked /\ [Next]_vars => ResultBacked'
  BY AnalyzerResult, DispatcherResult, ReaderResult, AdminResult, LeaseResult, CrashResult,
     StutterResult DEF Next
<1>3. QED
  BY <1>1, <1>2, TypeCorrect, DeliveryInvariant, PTL DEF Spec

(* A status tells the truth about the columns behind it, for any number of *)
(* processes: a DISPATCHED item has its date and, as long as no statement  *)
(* fails and nothing is removed, an ANALYZED or dispatched one its payload *)
(* (markItemAnalyzed, markItemStatus, resolveRequeuePayload and the two    *)
(* statements of a requeue).                                               *)
THEOREM StatusIsBacked == Spec => []StatusBacked
<1>1. ResultBacked => StatusBacked
  BY DEF ResultBacked, OnItsWay, StatusBacked
<1>2. QED
  BY <1>1, ResultInvariant, PTL
=============================================================================
