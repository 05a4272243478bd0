--------------------------- MODULE DeliveryProofs ---------------------------
(***************************************************************************)
(* With one dispatcher, the pipeline sends an item once, but for requeues, *)
(* crashes and faults: the inductive invariant DeliveryInv, the bound      *)
(* SentAtMostOnce that it implies, and the refinement of DeliveryContract. *)
(***************************************************************************)
EXTENDS PipelineProofs

-----------------------------------------------------------------------------
(* What a statement on rss_items does to the columns the invariant reads.  *)

LEMMA MarkEffects ==
  ASSUME StoreTypeOK, NEW i \in Items, NEW j \in Items,
         NEW table \in {MarkFailed(i), MarkAnalyzed(i), MarkHandedOver(i),
                        MarkUndelivered(i), MarkQueued(i), MarkUnqueued(i)}
  PROVE  /\ table[j].present <=> items[j].present
         /\ table[j].dispatched <=> items[j].dispatched
<1>1. /\ items[i] \in Item /\ items[j] \in Item
      /\ items \in [Items -> Item]
  BY DEF StoreTypeOK
<1>2. CASE table \in {MarkFailed(i), MarkAnalyzed(i)}
  BY <1>1, <1>2 DEF UpdateItem, MarkFailed, MarkAnalyzed, Item
<1>3. CASE table \in {MarkHandedOver(i), MarkUndelivered(i)}
  BY <1>1, <1>3 DEF UpdateItem, MarkHandedOver, MarkUndelivered, Item
<1>4. CASE table \in {MarkQueued(i), MarkUnqueued(i)}
  BY <1>1, <1>4 DEF UpdateItem, MarkQueued, MarkUnqueued, Item
<1>5. QED
  BY <1>2, <1>3, <1>4

LEMMA ResetEffects ==
  ASSUME StoreTypeOK, NEW i \in Items, NEW j \in Items,
         NEW table \in {MarkNew(i), MarkAgain(i)}
  PROVE  /\ table[j].present <=> items[j].present
         /\ table[j].dispatched => items[j].dispatched
         /\ j # i => (table[j].dispatched <=> items[j].dispatched)
BY DEF StoreTypeOK, UpdateItem, MarkNew, MarkAgain, Item

LEMMA RecordEffects ==
  ASSUME StoreTypeOK, NEW i \in Items, NEW j \in Items
  PROVE  /\ MarkDispatched(i)[j].present <=> items[j].present
         /\ MarkDispatched(i)[j].dispatched
              <=> (items[j].dispatched \/ (j = i /\ items[i].present))
BY DEF StoreTypeOK, UpdateItem, MarkDispatched, Item

(* No statement on a queue creates the row of another item. *)
LEMMA EnqueueEffect ==
  ASSUME NEW q \in [Items -> Row], NEW i \in Items, NEW j \in Items
  PROVE  Enqueue(q, i)[j].state # "ABSENT" => j = i \/ q[j].state # "ABSENT"
BY DEF Enqueue

LEMMA ClaimEffect ==
  ASSUME NEW q \in [Items -> Row], NEW i \in Items, NEW j \in Items, NEW w, NEW cap
  PROVE  Claim(q, i, w, cap)[j].state # "ABSENT" => j = i \/ q[j].state # "ABSENT"
BY DEF Claim

LEMMA SettleEffect ==
  ASSUME NEW q \in [Items -> Row], NEW i \in Items, NEW j \in Items, NEW w,
         NEW table \in {Complete(q, i, w), Release(q, i, w), Fail(q, i, w)}
  PROVE  table[j].state # "ABSENT" => j = i \/ q[j].state # "ABSENT"
BY DEF Complete, Release, Fail, Settle

LEMMA ExpireEffect ==
  ASSUME NEW q \in [Items -> Row], NEW i \in Items, NEW j \in Items
  PROVE  Expire(q, i)[j].state = q[j].state
BY DEF Expire, Row

LEMMA OrphanEffect ==
  ASSUME NEW q \in [Items -> Row], NEW j \in Items, NEW w
  PROVE  Orphan(q, w)[j].state = q[j].state
BY DEF Orphan, Row

LEMMA FaultGrows == TypeOK /\ (Fault \/ NoFault) => faults' >= faults
BY BudgetAssumption DEF Fault, NoFault, TypeOK, StoreTypeOK

-----------------------------------------------------------------------------
(* Steps that neither send nor record anything. *)

LEMMA QuietStep ==
  ASSUME TypeOK, TypeOK', Busy, DeliveryInv,
         UNCHANGED <<sent, dispatcher, removals>>,
         crashes' >= crashes, faults' >= faults,
         \A i \in Items : items[i].present => items'[i].present,
         \A i \in Items : items'[i].dispatched => items[i].dispatched,
         \A i \in Items : \/ cleared'[i] = cleared[i] /\ (items[i].dispatched => items'[i].dispatched)
                          \/ cleared'[i] = cleared[i] + 1,
         \A i \in Items : Held(i)' => Held(i) \/ items'[i].present
  PROVE  DeliveryInv'
<1>1. OneDispatcher' = OneDispatcher
  BY DEF OneDispatcher
<1>2. OneDispatcher => UnsentInDelivery'
  <2> SUFFICES ASSUME OneDispatcher PROVE UnsentInDelivery'
    OBVIOUS
  <2>1. ASSUME NEW i \in Items, items'[i].dispatched PROVE items'[i].present
    BY <2>1 DEF DeliveryInv, UnsentInDelivery
  <2>2. ASSUME NEW d \in Dispatchers,
               dispatcher'[d].pc \in {"deliver", "undelivered", "delivered"}
        PROVE  ~items'[dispatcher'[d].item].dispatched
    BY <2>2 DEF DeliveryInv, UnsentInDelivery, Busy
  <2>3. QED
    BY <2>1, <2>2 DEF UnsentInDelivery
<1>3. removals' = 0 => HeldIsPresent'
  BY DEF DeliveryInv, HeldIsPresent
<1>4. OneDispatcher /\ removals' = 0 => Accounted'
  <2> SUFFICES ASSUME OneDispatcher, removals = 0, NEW i \in Items
               PROVE  sent'[i] <= (IF items'[i].dispatched \/ i \in Carried' THEN 1 ELSE 0)
                                  + cleared'[i] + crashes' + faults'
    BY DEF Accounted
  <2>1. /\ Carried' = Carried
        /\ sent[i] \in Nat /\ cleared[i] \in Nat /\ cleared'[i] \in Nat
        /\ crashes \in Nat /\ crashes' \in Nat /\ faults \in Nat /\ faults' \in Nat
    BY BudgetAssumption DEF Carried, TypeOK, StoreTypeOK
  <2>2. sent[i] <= (IF items[i].dispatched \/ i \in Carried THEN 1 ELSE 0)
                   + cleared[i] + crashes + faults
    BY DEF DeliveryInv, Accounted
  <2>3. QED
    BY <2>1, <2>2
<1>5. QED
  BY <1>1, <1>2, <1>3, <1>4 DEF DeliveryInv

(* A removal takes rows out, so only what holds with removals is left. *)
LEMMA RemovalStep ==
  ASSUME TypeOK, TypeOK', Busy, DeliveryInv, UNCHANGED dispatcher, removals' = removals + 1,
         \A i \in Items : items'[i] = items[i] \/ items'[i] = NoItem
  PROVE  DeliveryInv'
<1>1. removals' # 0
  BY DEF TypeOK, StoreTypeOK
<1>2. OneDispatcher => UnsentInDelivery'
  <2> SUFFICES ASSUME OneDispatcher PROVE UnsentInDelivery'
    OBVIOUS
  <2>1. ~NoItem.dispatched
    BY DEF NoItem
  <2>2. QED
    BY <2>1 DEF DeliveryInv, UnsentInDelivery, Busy
<1>3. QED
  BY <1>1, <1>2 DEF DeliveryInv, OneDispatcher

LEMMA AnalyzerDelivery ==
  ASSUME TypeOK, Busy, DeliveryInv, NEW w \in Analyzers, AnalyzerActs(w)
  PROVE  DeliveryInv'
<1> DEFINE i == analyzer[w].item
<1>0. /\ TypeOK'
      /\ UNCHANGED <<sent, cleared, crashes, removals, dispatcher, reader, admin>>
      /\ At(w, "idle") \/ i \in Items
      /\ analyzer \in [Analyzers -> AnalyzerLocals]
  BY AnalyzerType
     DEF AnalyzerActs, AnalyzerStep, history, Busy, At, TypeOK, AnalyzerTypeOK
<1>1. faults' >= faults
  BY FaultGrows
     DEF AnalyzerActs, AnalyzerStep, ClaimRaw, InterruptRaw, FindStored, AnalyzeOk,
         AnalyzeFails, InterruptAnalysis, Judge, MarkPoison, FailClaim, HandOver,
         StampHandOver, CompleteClaim, ReleaseClaim, NoFault
<1>2. ASSUME NEW j \in Items
      PROVE  /\ items[j].present <=> items'[j].present
             /\ items[j].dispatched <=> items'[j].dispatched
  <2>1. \/ UNCHANGED items
        \/ i \in Items /\ items' \in {MarkFailed(i), MarkAnalyzed(i), MarkHandedOver(i)}
    BY <1>0
       DEF AnalyzerActs, AnalyzerStep, ClaimRaw, InterruptRaw, FindStored, AnalyzeOk,
           AnalyzeFails, InterruptAnalysis, Judge, MarkPoison, FailClaim, HandOver,
           StampHandOver, CompleteClaim, ReleaseClaim, At, tables
  <2>2. QED
    BY <2>1, MarkEffects DEF TypeOK
<1>3. ASSUME NEW j \in Items, Held(j)' PROVE Held(j)
  <2>1. \/ UNCHANGED analyzer_queue
        \/ \E k \in Items : /\ analyzer_queue[k].state # "ABSENT"
                            /\ analyzer_queue' = Claim(analyzer_queue, k, w, RawCountCap)
        \/ i \in Items /\ analyzer_queue' \in {Complete(analyzer_queue, i, w),
             Release(analyzer_queue, i, w), Fail(analyzer_queue, i, w)}
    BY <1>0
       DEF AnalyzerActs, AnalyzerStep, ClaimRaw, InterruptRaw, FindStored, AnalyzeOk,
           AnalyzeFails, InterruptAnalysis, Judge, MarkPoison, FailClaim, HandOver,
           StampHandOver, CompleteClaim, ReleaseClaim, At, tables, IsNext, Claimable
  <2>2. \/ UNCHANGED dispatch_queue
        \/ i \in Items /\ dispatch_queue' = Enqueue(dispatch_queue, i)
    BY <1>0
       DEF AnalyzerActs, AnalyzerStep, ClaimRaw, InterruptRaw, FindStored, AnalyzeOk,
           AnalyzeFails, InterruptAnalysis, Judge, MarkPoison, FailClaim, HandOver,
           StampHandOver, CompleteClaim, ReleaseClaim, At, tables
  <2>3. ASSUME NEW v \in Analyzers, analyzer'[v].item = j
        PROVE  analyzer[v].item = j \/ analyzer_queue[j].state # "ABSENT"
    BY <1>0, <2>3, OwnersAssumption
       DEF AnalyzerActs, AnalyzerStep, ClaimRaw, InterruptRaw, FindStored, AnalyzeOk,
           AnalyzeFails, InterruptAnalysis, Judge, MarkPoison, FailClaim, HandOver,
           StampHandOver, CompleteClaim, ReleaseClaim, At, GoTo, Finish, IdleAnalyzer, NoJob,
           IsNext, Claimable, AnalyzerLocals
  <2>4. analyzer_queue'[j].state # "ABSENT" => j = i \/ analyzer_queue[j].state # "ABSENT"
    BY <2>1, ClaimEffect, SettleEffect DEF TypeOK, StoreTypeOK
  <2>5. dispatch_queue'[j].state # "ABSENT" => j = i \/ dispatch_queue[j].state # "ABSENT"
    BY <2>2, EnqueueEffect DEF TypeOK, StoreTypeOK
  <2>6. QED
    BY <1>0, <1>3, <2>3, <2>4, <2>5 DEF Held
<1>4. QED
  <2>1. crashes' >= crashes /\ \A j \in Items : cleared'[j] = cleared[j]
    BY <1>0 DEF TypeOK, StoreTypeOK
  <2>2. QED
    BY <1>0, <1>1, <1>2, <1>3, <2>1, QuietStep

LEMMA ReaderDelivery ==
  ASSUME TypeOK, Busy, DeliveryInv, ReaderActs
  PROVE  DeliveryInv'
<1> DEFINE i == reader.item
<1>0. /\ TypeOK'
      /\ UNCHANGED <<sent, cleared, crashes, analyzer, dispatcher, admin>>
      /\ reader.pc # "idle" => i \in Items
      /\ reader \in [pc : ReaderPc, item : Items \cup {NoEntry}, abandoned : SUBSET Items]
  BY ReaderType DEF ReaderActs, ReaderStep, history, Busy, TypeOK, ReaderTypeOK
<1>1. ASSUME NEW S \in SUBSET Items, Cleanup(S) PROVE DeliveryInv'
  <2>1. \A j \in Items : items'[j] = items[j] \/ items'[j] = NoItem
    BY <1>1 DEF Cleanup
  <2>2. QED
    BY <1>0, <1>1, <2>1, RemovalStep DEF Cleanup
<1>2. ASSUME NEW k \in Items, InsertItemIfNew(k) PROVE DeliveryInv'
  <2>1. \A j \in Items : /\ items[j].present => items'[j].present
                         /\ items'[j].dispatched => items[j].dispatched
                         /\ items[j].dispatched => items'[j].dispatched \/ j = k
    BY <1>2 DEF InsertItemIfNew, NewItem, NoItem, TypeOK, StoreTypeOK
  <2>2. items'[k].present
    BY <1>2 DEF InsertItemIfNew, NewItem, NoItem, TypeOK, StoreTypeOK
  <2>3. \A j \in Items : Held(j)' => Held(j) \/ items'[j].present
    BY <1>0, <1>2, <2>2 DEF InsertItemIfNew, Stored, Held
  <2>4. OneDispatcher => ~items[k].dispatched
    BY <1>2 DEF InsertItemIfNew, DeliveryInv, UnsentInDelivery
  <2>5. CASE OneDispatcher
    <3>1. \A j \in Items : cleared'[j] = cleared[j] /\ (items[j].dispatched => items'[j].dispatched)
      BY <1>0, <2>1, <2>4, <2>5
    <3>2. faults' >= faults /\ crashes' >= crashes /\ removals' = removals
      BY <1>0, <1>2 DEF InsertItemIfNew, TypeOK, StoreTypeOK
    <3>3. QED
      BY <1>0, <2>1, <2>3, <3>1, <3>2, QuietStep
  <2>6. CASE ~OneDispatcher
    BY <1>2, <2>1, <2>3, <2>6
       DEF DeliveryInv, OneDispatcher, HeldIsPresent, InsertItemIfNew
  <2>7. QED
    BY <2>5, <2>6
<1>3. ASSUME ReaderWork PROVE DeliveryInv'
  <2>1. \/ UNCHANGED items
        \/ i \in Items /\ items' \in {MarkQueued(i), MarkUnqueued(i)}
    BY <1>0, <1>3 DEF ReaderWork, EnqueueAnalyzerJob, MarkRawEnqueued, MarkEnqueueFailed
  <2>2. ASSUME NEW j \in Items
        PROVE  /\ items[j].present <=> items'[j].present
               /\ items[j].dispatched <=> items'[j].dispatched
    BY <2>1, MarkEffects DEF TypeOK
  <2>3. \/ UNCHANGED analyzer_queue
        \/ i \in Items /\ analyzer_queue' = Enqueue(analyzer_queue, i)
    BY <1>0, <1>3 DEF ReaderWork, EnqueueAnalyzerJob, MarkRawEnqueued, MarkEnqueueFailed
  <2>4. ASSUME NEW j \in Items, Held(j)' PROVE Held(j)
    <3>1. analyzer_queue'[j].state # "ABSENT" => j = i \/ analyzer_queue[j].state # "ABSENT"
      BY <2>3, EnqueueEffect DEF TypeOK, StoreTypeOK
    <3>2. reader'.item = j => reader.item = j
      BY <1>0, <1>3, OwnersAssumption
         DEF ReaderWork, EnqueueAnalyzerJob, MarkRawEnqueued, MarkEnqueueFailed, IdleReader, NoEntry
    <3>3. UNCHANGED dispatch_queue
      BY <1>3 DEF ReaderWork, EnqueueAnalyzerJob, MarkRawEnqueued, MarkEnqueueFailed
    <3>4. QED
      BY <1>0, <2>4, <3>1, <3>2, <3>3 DEF Held
  <2>5. faults' >= faults /\ removals' = removals /\ crashes' >= crashes
    BY <1>0, <1>3, FaultGrows
       DEF ReaderWork, EnqueueAnalyzerJob, MarkRawEnqueued, MarkEnqueueFailed, TypeOK, StoreTypeOK
  <2>6. QED
    BY <1>0, <2>2, <2>4, <2>5, QuietStep
<1>4. QED
  BY <1>1, <1>2, <1>3 DEF ReaderActs, ReaderStep

LEMMA AdminDelivery ==
  ASSUME TypeOK, Busy, DeliveryInv, AdminActs
  PROVE  DeliveryInv'
<1>0. /\ TypeOK'
      /\ UNCHANGED <<crashes, analyzer, dispatcher, reader, sent>>
      /\ \A a \in Admins : admin[a].pc # "idle" => admin[a].item \in Items
      /\ admin \in [Admins -> [pc : AdminPc, item : Items \cup {NoRequest}]]
      /\ items \in [Items -> Item]
  BY AdminType
     DEF AdminActs, AdminStep, AdminWork, RequeueRead, RequeueRaw, RequeueAnalyzed,
         ResetToNew, ResetToAnalyzed, ResetItem, HandleItemDelete, history, Busy,
         TypeOK, StoreTypeOK, AdminTypeOK
<1>1. ASSUME NEW i \in Items, HandleItemDelete(i) PROVE DeliveryInv'
  <2>1. \A j \in Items : items'[j] = items[j] \/ items'[j] = NoItem
    BY <1>0, <1>1 DEF HandleItemDelete
  <2>2. QED
    BY <1>0, <1>1, <2>1, RemovalStep DEF HandleItemDelete
<1>2. ASSUME NEW a \in Admins, NEW i \in Items, RequeueRead(a, i) PROVE DeliveryInv'
  <2>1. \A j \in Items : Held(j)' => Held(j) \/ items'[j].present
    BY <1>0, <1>2 DEF RequeueRead, Held, tables
  <2>2. UNCHANGED <<items, cleared, removals, faults>>
    BY <1>2 DEF RequeueRead, tables, history
  <2>3. faults' >= faults /\ crashes' >= crashes
    BY <1>0, <2>2 DEF TypeOK, StoreTypeOK
  <2>4. QED
    BY <1>0, <2>1, <2>2, <2>3, QuietStep
<1>3. ASSUME NEW a \in Admins, AdminWork(a) PROVE DeliveryInv'
  <2> DEFINE i == admin[a].item
  <2>1. i \in Items
    BY <1>0, <1>3 DEF AdminWork, RequeueRaw, RequeueAnalyzed, ResetToNew, ResetToAnalyzed,
                      Serving
  <2>2. \/ UNCHANGED <<items, cleared>>
        \/ items' \in {MarkNew(i), MarkAgain(i)} /\ cleared' = [cleared EXCEPT ![i] = @ + 1]
    BY <1>3 DEF AdminWork, RequeueRaw, RequeueAnalyzed, ResetToNew, ResetToAnalyzed,
                ResetItem, history
  <2>3. ASSUME NEW j \in Items
        PROVE  /\ items[j].present <=> items'[j].present
               /\ items'[j].dispatched => items[j].dispatched
               /\ \/ /\ cleared'[j] = cleared[j]
                     /\ items[j].dispatched => items'[j].dispatched
                  \/ cleared'[j] = cleared[j] + 1
    <3>1. CASE UNCHANGED <<items, cleared>>
      BY <3>1
    <3>2. CASE /\ items' \in {MarkNew(i), MarkAgain(i)}
               /\ cleared' = [cleared EXCEPT ![i] = @ + 1]
      <4>1. /\ items[j].present <=> items'[j].present
            /\ items'[j].dispatched => items[j].dispatched
            /\ j # i => (items'[j].dispatched <=> items[j].dispatched)
        BY <2>1, <3>2, ResetEffects DEF TypeOK
      <4>2. cleared'[j] = IF j = i THEN cleared[j] + 1 ELSE cleared[j]
        BY <3>2 DEF TypeOK, StoreTypeOK
      <4>3. QED
        BY <4>1, <4>2
    <3>3. QED
      BY <2>2, <3>1, <3>2
  <2>4. ASSUME NEW j \in Items, Held(j)' PROVE Held(j)
    <3>1. /\ UNCHANGED analyzer_queue \/ analyzer_queue' = Enqueue(analyzer_queue, i)
          /\ UNCHANGED dispatch_queue \/ dispatch_queue' = Enqueue(dispatch_queue, i)
      BY <1>3 DEF AdminWork, RequeueRaw, RequeueAnalyzed, ResetToNew, ResetToAnalyzed,
                  ResetItem
    <3>2. /\ analyzer_queue'[j].state # "ABSENT" => j = i \/ analyzer_queue[j].state # "ABSENT"
          /\ dispatch_queue'[j].state # "ABSENT" => j = i \/ dispatch_queue[j].state # "ABSENT"
      BY <2>1, <3>1, EnqueueEffect DEF TypeOK, StoreTypeOK
    <3>3. ASSUME NEW b \in Admins, admin'[b].item = j PROVE admin[b].item = j
      <4>1. \/ admin' = [admin EXCEPT ![a] = IdleAdmin]
            \/ \E pc \in AdminPc : admin' = [admin EXCEPT ![a].pc = pc]
        BY <1>3 DEF AdminWork, RequeueRaw, RequeueAnalyzed, ResetToNew, ResetToAnalyzed,
                    ResetItem, Answer, Serve, AdminPc
      <4>2. QED
        BY <1>0, <3>3, <4>1, OwnersAssumption DEF IdleAdmin, NoRequest
    <3>4. QED
      BY <1>0, <2>4, <3>2, <3>3 DEF Held
  <2>5. /\ removals' = removals
        /\ Fault \/ NoFault
    BY <1>3 DEF AdminWork, RequeueRaw, RequeueAnalyzed, ResetToNew, ResetToAnalyzed,
                ResetItem
  <2>6. faults' >= faults /\ crashes' >= crashes
    BY <1>0, <2>5, FaultGrows DEF TypeOK, StoreTypeOK
  <2>7. QED
    BY <1>0, <2>3, <2>4, <2>5, <2>6, QuietStep
<1>4. QED
  BY <1>1, <1>2, <1>3 DEF AdminActs, AdminStep

LEMMA LeaseDelivery ==
  ASSUME TypeOK, Busy, DeliveryInv, NEW i \in Items, LeaseExpires(i)
  PROVE  DeliveryInv'
<1>1. /\ TypeOK'
      /\ UNCHANGED <<items, sent, cleared, faults, crashes, removals,
                     analyzer, dispatcher, reader, admin>>
  BY LeaseType DEF LeaseExpires, RawLeaseExpires, DispatchLeaseExpires, history
<1>2. ASSUME NEW j \in Items
      PROVE  /\ analyzer_queue'[j].state = analyzer_queue[j].state
             /\ dispatch_queue'[j].state = dispatch_queue[j].state
  BY ExpireEffect
     DEF LeaseExpires, RawLeaseExpires, DispatchLeaseExpires, TypeOK, StoreTypeOK
<1>3. \A j \in Items : Held(j)' => Held(j)
  BY <1>1, <1>2 DEF Held
<1>4. faults' >= faults /\ crashes' >= crashes
  BY <1>1 DEF TypeOK, StoreTypeOK
<1>5. QED
  BY <1>1, <1>3, <1>4, QuietStep

-----------------------------------------------------------------------------
(* The dispatcher's own steps. *)

(* What every one of them leaves alone. *)
LEMMA DispatcherFrame ==
  ASSUME TypeOK, Busy, NEW d \in Dispatchers, DispatcherActs(d)
  PROVE  /\ TypeOK' /\ Busy'
         /\ UNCHANGED <<analyzer_queue, cleared, crashes, removals, analyzer, reader, admin>>
         /\ faults' >= faults
         /\ \A c \in Dispatchers \ {d} : dispatcher'[c] = dispatcher[c]
         /\ \A j \in Items : items'[j].present <=> items[j].present
         /\ \A j \in Items : items'[j].dispatched =>
              items[j].dispatched \/ (j = dispatcher[d].item /\ items[j].present)
         /\ \A j \in Items : items[j].dispatched => items'[j].dispatched
<1> DEFINE i == dispatcher[d].item
<1>0. /\ TypeOK' /\ Busy'
      /\ UNCHANGED <<analyzer_queue, cleared, crashes, removals, analyzer, reader, admin>>
      /\ Standing(d, "idle") \/ i \in Items
      /\ dispatcher \in [Dispatchers -> DispatcherLocals]
  BY DispatcherType
     DEF DispatcherActs, DispatcherStep, ClaimDispatch, InterruptDispatch, CheckDispatched,
         DeliverOk, DeliverFails, DeliverAmbiguously, RetryDelivery, InterruptDelivery,
         RecordDispatched, CompleteDispatchClaim, ReleaseDispatchClaim, tables,
         Busy, Standing, TypeOK, DispatcherTypeOK
<1>1. faults' >= faults
  BY FaultGrows
     DEF DispatcherActs, DispatcherStep, ClaimDispatch, InterruptDispatch, CheckDispatched,
         DeliverOk, DeliverFails, DeliverAmbiguously, RetryDelivery, InterruptDelivery,
         RecordDispatched, CompleteDispatchClaim, ReleaseDispatchClaim, NoFault
<1>2. \A c \in Dispatchers \ {d} : dispatcher'[c] = dispatcher[c]
  BY <1>0
     DEF DispatcherActs, DispatcherStep, ClaimDispatch, InterruptDispatch, CheckDispatched,
         DeliverOk, DeliverFails, DeliverAmbiguously, RetryDelivery, InterruptDelivery,
         RecordDispatched, CompleteDispatchClaim, ReleaseDispatchClaim, Proceed, Rest
<1>3. ASSUME NEW j \in Items
      PROVE  /\ items'[j].present <=> items[j].present
             /\ items'[j].dispatched => items[j].dispatched \/ (j = i /\ items[j].present)
             /\ items[j].dispatched => items'[j].dispatched
  <2>1. \/ UNCHANGED items
        \/ i \in Items /\ items' = MarkUndelivered(i)
        \/ i \in Items /\ items' = MarkDispatched(i)
    BY <1>0
       DEF DispatcherActs, DispatcherStep, ClaimDispatch, InterruptDispatch, CheckDispatched,
           DeliverOk, DeliverFails, DeliverAmbiguously, RetryDelivery, InterruptDelivery,
           RecordDispatched, CompleteDispatchClaim, ReleaseDispatchClaim, tables, Standing
  <2>2. CASE UNCHANGED items
    BY <2>2
  <2>3. CASE i \in Items /\ items' = MarkUndelivered(i)
    BY <2>3, MarkEffects DEF TypeOK
  <2>4. CASE i \in Items /\ items' = MarkDispatched(i)
    BY <2>4, RecordEffects DEF TypeOK
  <2>5. QED
    BY <2>1, <2>2, <2>3, <2>4
<1>4. QED
  BY <1>0, <1>1, <1>2, <1>3

LEMMA DispatcherHeld ==
  ASSUME TypeOK, Busy, NEW d \in Dispatchers, DispatcherActs(d), NEW j \in Items, Held(j)'
  PROVE  Held(j)
<1> DEFINE i == dispatcher[d].item
<1>0. /\ UNCHANGED <<analyzer_queue, analyzer, reader, admin>>
      /\ \A c \in Dispatchers \ {d} : dispatcher'[c] = dispatcher[c]
      /\ Standing(d, "idle") \/ i \in Items
      /\ dispatcher \in [Dispatchers -> DispatcherLocals]
  BY DispatcherFrame DEF Busy, Standing, TypeOK, DispatcherTypeOK
<1>1. \/ UNCHANGED dispatch_queue
      \/ \E k \in Items : /\ dispatch_queue[k].state # "ABSENT"
                          /\ dispatch_queue' = Claim(dispatch_queue, k, d, DispatchCountCap)
      \/ i \in Items /\ dispatch_queue' \in {Complete(dispatch_queue, i, d),
           Release(dispatch_queue, i, d), Fail(dispatch_queue, i, d)}
  BY <1>0
     DEF DispatcherActs, DispatcherStep, ClaimDispatch, InterruptDispatch, CheckDispatched,
         DeliverOk, DeliverFails, DeliverAmbiguously, RetryDelivery, InterruptDelivery,
         RecordDispatched, CompleteDispatchClaim, ReleaseDispatchClaim, tables, Standing,
         IsNext, Claimable
<1>2. dispatch_queue'[j].state # "ABSENT" => j = i \/ dispatch_queue[j].state # "ABSENT"
  BY <1>1, ClaimEffect, SettleEffect DEF TypeOK, StoreTypeOK
<1>3. dispatcher'[d].item = j => dispatcher[d].item = j \/ dispatch_queue[j].state # "ABSENT"
  BY <1>0, OwnersAssumption
     DEF DispatcherActs, DispatcherStep, ClaimDispatch, InterruptDispatch, CheckDispatched,
         DeliverOk, DeliverFails, DeliverAmbiguously, RetryDelivery, InterruptDelivery,
         RecordDispatched, CompleteDispatchClaim, ReleaseDispatchClaim, Proceed, Rest,
         IdleDispatcher, NoMessage, IsNext, Claimable, DispatcherLocals
<1>4. QED
  BY <1>0, <1>2, <1>3 DEF Held

LEMMA DispatcherUnsent ==
  ASSUME TypeOK, Busy, OneDispatcher, UnsentInDelivery, NEW d \in Dispatchers, DispatcherActs(d)
  PROVE  UnsentInDelivery'
<1> DEFINE i == dispatcher[d].item
           sending == {"deliver", "undelivered", "delivered"}
<1>1. ASSUME NEW j \in Items, ~items'[j].present PROVE ~items'[j].dispatched
  BY <1>1, DispatcherFrame DEF UnsentInDelivery
<1>2. ASSUME dispatcher'[d].pc \in sending
      PROVE  ~items'[dispatcher'[d].item].dispatched
  <2>1. /\ i \in Items
        /\ dispatcher'[d].item = i
        /\ dispatcher[d].pc \in sending \/ ~items[i].dispatched
        /\ UNCHANGED items \/ items' = MarkUndelivered(i)
    BY <1>2
       DEF DispatcherActs, DispatcherStep, ClaimDispatch, InterruptDispatch, CheckDispatched,
           DeliverOk, DeliverFails, DeliverAmbiguously, RetryDelivery, InterruptDelivery,
           RecordDispatched, CompleteDispatchClaim, ReleaseDispatchClaim, Proceed, Rest,
           IdleDispatcher, IsAlreadyDispatched, Standing, tables, Busy,
           TypeOK, DispatcherTypeOK, DispatcherLocals
  <2>2. ~items[i].dispatched
    BY <2>1 DEF UnsentInDelivery
  <2>3. CASE UNCHANGED items
    BY <2>1, <2>2, <2>3
  <2>4. CASE items' = MarkUndelivered(i)
    BY <2>1, <2>2, <2>4, MarkEffects DEF TypeOK
  <2>5. QED
    BY <2>1, <2>3, <2>4
<1>3. \A c \in Dispatchers : c = d
  BY DEF OneDispatcher
<1>4. QED
  BY <1>1, <1>2, <1>3 DEF UnsentInDelivery

(* The sends are paid for: a send takes an item out that was neither on    *)
(* record nor carried, and is carried then or costs a fault.               *)
LEMMA DispatcherAccounted ==
  ASSUME TypeOK, Busy, OneDispatcher, removals = 0, HeldIsPresent, UnsentInDelivery, Accounted,
         NEW d \in Dispatchers, DispatcherActs(d)
  PROVE  Accounted'
<1> DEFINE i == dispatcher[d].item
           spare(j) == IF items[j].dispatched \/ j \in Carried THEN 1 ELSE 0
<1> SUFFICES ASSUME NEW j \in Items
             PROVE  sent'[j] <= (IF items'[j].dispatched \/ j \in Carried' THEN 1 ELSE 0)
                                + cleared'[j] + crashes' + faults'
  BY DEF Accounted
<1>1. \A c \in Dispatchers : c = d
  BY DEF OneDispatcher
<1>2. /\ j \in Carried <=> j = i /\ dispatcher[d].pc = "delivered"
      /\ j \in Carried' <=> j = dispatcher'[d].item /\ dispatcher'[d].pc = "delivered"
  BY <1>1 DEF Carried
<1>3. /\ sent[j] \in Nat /\ cleared[j] \in Nat /\ crashes \in Nat /\ faults \in Nat
      /\ faults' \in Nat /\ faults' >= faults /\ cleared' = cleared /\ crashes' = crashes
      /\ dispatcher \in [Dispatchers -> DispatcherLocals]
      /\ dispatcher[d].pc # "idle" => i \in Items
      /\ items[j].dispatched => items'[j].dispatched
      /\ sent \in [Items -> Nat]
  BY DispatcherFrame DEF TypeOK, StoreTypeOK, DispatcherTypeOK, Busy
<1>4. sent[j] <= (IF items[j].dispatched \/ j \in Carried THEN 1 ELSE 0)
                 + cleared[j] + crashes + faults
  BY DEF Accounted
<1>5. CASE DeliverOk(d)
  <2>1. /\ i \in Items /\ dispatcher[d].pc = "deliver"
        /\ sent'[j] = IF j = i THEN sent[j] + 1 ELSE sent[j]
        /\ dispatcher'[d].pc = "delivered" /\ dispatcher'[d].item = i
    BY <1>3, <1>5 DEF DeliverOk, Standing, Proceed
  <2>2. j = i => ~items[j].dispatched /\ j \notin Carried /\ j \in Carried'
    BY <1>2, <2>1 DEF UnsentInDelivery
  <2>3. QED
    BY <1>2, <1>3, <1>4, <2>1, <2>2
<1>6. CASE DeliverAmbiguously(d)
  <2>1. /\ i \in Items /\ dispatcher[d].pc = "deliver"
        /\ sent'[j] = IF j = i THEN sent[j] + 1 ELSE sent[j]
        /\ faults' = faults + 1
    BY <1>3, <1>6 DEF DeliverAmbiguously, Standing, Proceed, Fault
  <2>2. QED
    BY <1>2, <1>3, <1>4, <2>1
<1>7. CASE RecordDispatched(d)
  <2>1. i \in Items /\ dispatcher[d].pc = "delivered" /\ UNCHANGED sent
    BY <1>3, <1>7 DEF RecordDispatched, Standing
  <2>2. items[i].present
    BY <2>1 DEF HeldIsPresent, Held
  <2>3. items'[i].dispatched \/ faults' = faults + 1
    BY <1>7, <2>1, <2>2, RecordEffects DEF RecordDispatched, Fault, TypeOK
  <2>4. QED
    BY <1>2, <1>3, <1>4, <2>1, <2>3
<1>8. CASE \/ ClaimDispatch(d) \/ InterruptDispatch(d) \/ CheckDispatched(d) \/ DeliverFails(d)
           \/ RetryDelivery(d) \/ InterruptDelivery(d)
           \/ CompleteDispatchClaim(d) \/ ReleaseDispatchClaim(d)
  <2>1. UNCHANGED sent /\ dispatcher[d].pc # "delivered"
    BY <1>8
       DEF ClaimDispatch, InterruptDispatch, CheckDispatched, DeliverFails, RetryDelivery,
           InterruptDelivery, CompleteDispatchClaim, ReleaseDispatchClaim, Standing
  <2>2. QED
    BY <1>2, <1>3, <1>4, <2>1
<1>9. QED
  BY <1>5, <1>6, <1>7, <1>8 DEF DispatcherActs, DispatcherStep

LEMMA DispatcherDelivery ==
  ASSUME TypeOK, Busy, DeliveryInv, NEW d \in Dispatchers, DispatcherActs(d)
  PROVE  DeliveryInv'
<1>1. OneDispatcher' = OneDispatcher /\ removals' = removals
  BY DispatcherFrame DEF OneDispatcher
<1>2. OneDispatcher => UnsentInDelivery'
  BY DispatcherUnsent DEF DeliveryInv
<1>3. removals = 0 => HeldIsPresent'
  BY DispatcherFrame, DispatcherHeld DEF DeliveryInv, HeldIsPresent
<1>4. OneDispatcher /\ removals = 0 => Accounted'
  BY DispatcherAccounted DEF DeliveryInv
<1>5. QED
  BY <1>1, <1>2, <1>3, <1>4 DEF DeliveryInv

(* A crash of the dispatcher may lose a record, and pays for it. *)
LEMMA CrashDispatcherDelivery ==
  ASSUME TypeOK, Busy, DeliveryInv, NEW d \in Dispatchers, CrashDispatcher(d),
         UNCHANGED <<analyzer, reader, admin, requeues>>
  PROVE  DeliveryInv'
<1>1. /\ UNCHANGED <<items, analyzer_queue, sent, cleared, faults, removals>>
      /\ crashes' = crashes + 1
      /\ dispatcher' = [dispatcher EXCEPT ![d] = IdleDispatcher]
      /\ dispatcher \in [Dispatchers -> DispatcherLocals]
  BY DEF CrashDispatcher, Crash, Rest, history, TypeOK, DispatcherTypeOK
<1>2. UnsentInDelivery => UnsentInDelivery'
  BY <1>1 DEF UnsentInDelivery, IdleDispatcher
<1>3. HeldIsPresent => HeldIsPresent'
  <2>1. ASSUME NEW j \in Items, Held(j)' PROVE Held(j)
    <3>1. dispatch_queue'[j].state = dispatch_queue[j].state
      BY OrphanEffect DEF CrashDispatcher, TypeOK, StoreTypeOK
    <3>2. \A c \in Dispatchers : dispatcher'[c].item = j => dispatcher[c].item = j
      BY <1>1, OwnersAssumption DEF IdleDispatcher, NoMessage
    <3>3. QED
      BY <1>1, <2>1, <3>1, <3>2 DEF Held
  <2>2. QED
    BY <1>1, <2>1 DEF HeldIsPresent
<1>4. Accounted => Accounted'
  <2> SUFFICES ASSUME Accounted, NEW j \in Items
               PROVE  sent'[j] <= (IF items'[j].dispatched \/ j \in Carried' THEN 1 ELSE 0)
                                  + cleared'[j] + crashes' + faults'
    BY DEF Accounted
  <2>1. /\ sent[j] \in Nat /\ cleared[j] \in Nat /\ crashes \in Nat /\ faults \in Nat
    BY DEF TypeOK, StoreTypeOK
  <2>2. sent[j] <= (IF items[j].dispatched \/ j \in Carried THEN 1 ELSE 0)
                   + cleared[j] + crashes + faults
    BY DEF Accounted
  <2>3. QED
    BY <1>1, <2>1, <2>2
<1>5. QED
  BY <1>1, <1>2, <1>3, <1>4 DEF DeliveryInv, OneDispatcher

LEMMA CrashDelivery ==
  ASSUME TypeOK, Busy, DeliveryInv, SomeoneCrashes
  PROVE  DeliveryInv'
<1>1. TypeOK'
  BY CrashType
<1>2. ASSUME NEW service, Crash(service)
      PROVE  /\ UNCHANGED <<sent, cleared, faults, removals>>
             /\ crashes' >= crashes /\ faults' >= faults
  BY <1>2 DEF Crash, history, TypeOK, StoreTypeOK
<1>3. ASSUME NEW w \in Analyzers, CrashAnalyzer(w),
             UNCHANGED <<dispatcher, reader, admin, requeues>>
      PROVE  DeliveryInv'
  <2>1. /\ UNCHANGED <<items, dispatch_queue>>
        /\ analyzer' = [analyzer EXCEPT ![w] = IdleAnalyzer]
        /\ analyzer \in [Analyzers -> AnalyzerLocals]
    BY <1>3 DEF CrashAnalyzer, Finish, TypeOK, AnalyzerTypeOK
  <2>2. ASSUME NEW j \in Items, Held(j)' PROVE Held(j)
    <3>1. analyzer_queue'[j].state = analyzer_queue[j].state
      BY <1>3, OrphanEffect DEF CrashAnalyzer, TypeOK, StoreTypeOK
    <3>2. \A v \in Analyzers : analyzer'[v].item = j => analyzer[v].item = j
      BY <2>1, OwnersAssumption DEF IdleAnalyzer, NoJob
    <3>3. QED
      BY <1>3, <2>1, <2>2, <3>1, <3>2 DEF Held
  <2>3. QED
    BY <1>1, <1>2, <1>3, <2>1, <2>2, QuietStep DEF CrashAnalyzer
<1>4. ASSUME NEW d \in Dispatchers, CrashDispatcher(d),
             UNCHANGED <<analyzer, reader, admin, requeues>>
      PROVE  DeliveryInv'
  BY <1>4, CrashDispatcherDelivery
<1>5. ASSUME CrashReader, UNCHANGED <<analyzer, dispatcher, admin, requeues>>
      PROVE  DeliveryInv'
  <2>1. \A j \in Items : Held(j)' => Held(j)
    BY <1>5, OwnersAssumption DEF CrashReader, IdleReader, NoEntry, Held, tables
  <2>2. QED
    BY <1>1, <1>2, <1>5, <2>1, QuietStep DEF CrashReader, tables
<1>6. ASSUME CrashAdmin, UNCHANGED <<analyzer, dispatcher, reader>>
      PROVE  DeliveryInv'
  <2>1. \A j \in Items : Held(j)' => Held(j)
    BY <1>6, OwnersAssumption DEF CrashAdmin, IdleAdmin, NoRequest, Held, tables
  <2>2. QED
    BY <1>1, <1>2, <1>6, <2>1, QuietStep DEF CrashAdmin, tables
<1>7. QED
  BY <1>3, <1>4, <1>5, <1>6 DEF SomeoneCrashes

-----------------------------------------------------------------------------
LEMMA InitDelivery == Init => DeliveryInv
<1> SUFFICES ASSUME Init PROVE DeliveryInv
  OBVIOUS
<1>1. \A i \in Items : /\ ~items[i].present /\ ~items[i].dispatched
                       /\ analyzer_queue[i].state = "ABSENT"
                       /\ dispatch_queue[i].state = "ABSENT"
                       /\ sent[i] = 0 /\ cleared[i] = 0
  BY DEF Init, StoreInit, EmptyQueue, NoRow, NoItem
<1>2. /\ \A w \in Analyzers : analyzer[w].item \notin Items
      /\ \A d \in Dispatchers : dispatcher[d].item \notin Items /\ dispatcher[d].pc = "idle"
      /\ reader.item \notin Items
      /\ \A a \in Admins : admin[a].item \notin Items
  BY OwnersAssumption
     DEF Init, AnalyzerInit, IdleAnalyzer, NoJob, DispatcherInit, IdleDispatcher, NoMessage,
         ReaderInit, NoEntry, AdminInit, IdleAdmin, NoRequest
<1>3. crashes = 0 /\ faults = 0
  BY DEF Init, StoreInit
<1>4. UnsentInDelivery /\ HeldIsPresent /\ Accounted
  BY <1>1, <1>2, <1>3 DEF UnsentInDelivery, HeldIsPresent, Held, Accounted, Carried
<1>5. QED
  BY <1>4 DEF DeliveryInv

LEMMA StutterDelivery == ASSUME DeliveryInv, UNCHANGED vars PROVE DeliveryInv'
BY DEF DeliveryInv, OneDispatcher, UnsentInDelivery, HeldIsPresent, Held, Accounted, Carried, vars

LEMMA NextDelivery == ASSUME TypeOK, Busy, DeliveryInv, [Next]_vars PROVE DeliveryInv'
BY AnalyzerDelivery, DispatcherDelivery, ReaderDelivery, AdminDelivery, LeaseDelivery,
   CrashDelivery, StutterDelivery DEF Next

(* What makes the bound on duplicates hold: whatever is queued or in work  *)
(* is stored, what is being sent is not on record, and every message has a *)
(* record, a reset, a crash or a fault to account for it (isAlreadyDispat- *)
(* ched, deliver, markItemStatus of the dispatcher, requeue of web-admin). *)
THEOREM DeliveryInvariant == Spec => []DeliveryInv
<1>1. Init => DeliveryInv
  BY InitDelivery
<1>2. TypeOK /\ Busy /\ DeliveryInv /\ [Next]_vars => DeliveryInv'
  BY NextDelivery
<1>3. QED
  BY <1>1, <1>2, TypeCorrect, PTL DEF Spec

(* One dispatcher sends no item twice, except after a requeue that reset   *)
(* it, a crash or a fault, as long as nothing is removed.                  *)
THEOREM NoDuplicates == Spec => []SentAtMostOnce
<1>1. TypeOK /\ DeliveryInv => SentAtMostOnce
  <2> SUFFICES ASSUME TypeOK, DeliveryInv, OneDispatcher, removals = 0, NEW i \in Items
               PROVE  sent[i] <= 1 + cleared[i] + crashes + faults
    BY DEF SentAtMostOnce
  <2>1. sent[i] \in Nat /\ cleared[i] \in Nat /\ crashes \in Nat /\ faults \in Nat
    BY DEF TypeOK, StoreTypeOK
  <2>2. sent[i] <= (IF items[i].dispatched \/ i \in Carried THEN 1 ELSE 0)
                   + cleared[i] + crashes + faults
    BY DEF DeliveryInv, Accounted
  <2>3. QED
    BY <2>1, <2>2
<1>2. QED
  BY <1>1, TypeCorrect, DeliveryInvariant, PTL

-----------------------------------------------------------------------------
(* The refinement of DeliveryContract: every step is a step of the         *)
(* courier, or one the courier does not see.                               *)

(* Nobody but the dispatcher sends a message or puts one on record. *)

LEMMA OthersRecordNothing ==
  ASSUME TypeOK, Busy,
         \/ \E w \in Analyzers : AnalyzerActs(w)
         \/ ReaderActs
         \/ AdminActs
         \/ \E i \in Items : LeaseExpires(i)
         \/ SomeoneCrashes /\ UNCHANGED dispatcher
  PROVE  /\ UNCHANGED <<sent, dispatcher>>
         /\ \A j \in Items : items'[j].dispatched => items[j].dispatched
<1> USE DEF TypeOK
<1>1. ASSUME NEW w \in Analyzers, AnalyzerActs(w)
      PROVE  /\ UNCHANGED <<sent, dispatcher>>
             /\ \A j \in Items : items'[j].dispatched => items[j].dispatched
  <2> DEFINE i == analyzer[w].item
  <2>1. \/ UNCHANGED items
        \/ i \in Items /\ items' \in {MarkFailed(i), MarkAnalyzed(i), MarkHandedOver(i)}
    BY <1>1
       DEF AnalyzerActs, AnalyzerStep, ClaimRaw, InterruptRaw, FindStored, AnalyzeOk,
           AnalyzeFails, InterruptAnalysis, Judge, MarkPoison, FailClaim, HandOver,
           StampHandOver, CompleteClaim, ReleaseClaim, At, tables, Busy
  <2>2. QED
    BY <1>1, <2>1, MarkEffects DEF AnalyzerActs, AnalyzerStep, history
<1>2. ASSUME ReaderActs
      PROVE  /\ UNCHANGED <<sent, dispatcher>>
             /\ \A j \in Items : items'[j].dispatched => items[j].dispatched
  <2> DEFINE i == reader.item
  <2>1. \/ UNCHANGED items
        \/ i \in Items /\ items' \in {MarkQueued(i), MarkUnqueued(i)}
        \/ \A j \in Items : items'[j] \in {items[j], NewItem, NoItem}
    BY <1>2 DEF ReaderActs, ReaderStep, ReaderWork, InsertItemIfNew, EnqueueAnalyzerJob,
                MarkRawEnqueued, MarkEnqueueFailed, Cleanup, Busy, StoreTypeOK
  <2>2. ~NewItem.dispatched /\ ~NoItem.dispatched
    BY DEF NewItem, NoItem
  <2>3. QED
    BY <1>2, <2>1, <2>2, MarkEffects DEF ReaderActs, ReaderStep, history
<1>3. ASSUME AdminActs
      PROVE  /\ UNCHANGED <<sent, dispatcher>>
             /\ \A j \in Items : items'[j].dispatched => items[j].dispatched
  <2>1. \/ UNCHANGED items
        \/ \E i \in Items : items' \in {MarkNew(i), MarkAgain(i)}
        \/ \A j \in Items : items'[j] \in {items[j], NoItem}
    BY <1>3 DEF AdminActs, AdminStep, AdminWork, RequeueRead, RequeueRaw, RequeueAnalyzed,
                ResetToNew, ResetToAnalyzed, ResetItem, HandleItemDelete, tables, Serving,
                Busy, StoreTypeOK
  <2>2. UNCHANGED <<sent, dispatcher>>
    BY <1>3 DEF AdminActs, AdminStep, AdminWork, RequeueRead, RequeueRaw, RequeueAnalyzed,
                ResetToNew, ResetToAnalyzed, ResetItem, HandleItemDelete, history
  <2>3. ~NoItem.dispatched
    BY DEF NoItem
  <2>4. QED
    BY <2>1, <2>2, <2>3, ResetEffects
<1>4. ASSUME NEW i \in Items, LeaseExpires(i)
      PROVE  /\ UNCHANGED <<sent, dispatcher>>
             /\ \A j \in Items : items'[j].dispatched => items[j].dispatched
  BY <1>4 DEF LeaseExpires, RawLeaseExpires, DispatchLeaseExpires, history
<1>5. ASSUME SomeoneCrashes, UNCHANGED dispatcher
      PROVE  /\ UNCHANGED <<sent, dispatcher>>
             /\ \A j \in Items : items'[j].dispatched => items[j].dispatched
  BY <1>5 DEF SomeoneCrashes, CrashAnalyzer, CrashDispatcher, CrashReader, CrashAdmin, Crash,
              history, tables
<1>6. QED
  BY <1>1, <1>2, <1>3, <1>4, <1>5

(* What an idle courier and one that carries i look like. *)
LEMMA CarryingIs ==
  /\ Carried = {} => Carrying = NoMessage
  /\ \A i \in Items : Carried = {i} => Carrying = i
BY DEF Carrying

LEMMA CarryingIsNext ==
  /\ Carried' = {} => Carrying' = NoMessage
  /\ \A i \in Items : Carried' = {i} => Carrying' = i
BY DEF Carrying

LEMMA DispatcherContract ==
  ASSUME TypeOK, Busy, OneDispatcher, UnsentInDelivery, NEW d \in Dispatchers, DispatcherActs(d)
  PROVE  [Courier!Next]_(Courier!contract)
<1> DEFINE i == dispatcher[d].item
<1>1. \A c \in Dispatchers : c = d
  BY DEF OneDispatcher
<1>2. /\ dispatcher \in [Dispatchers -> DispatcherLocals]
      /\ dispatcher[d].pc # "idle" => i \in Items
      /\ items \in [Items -> Item] /\ items' \in [Items -> Item]
      /\ sent \in [Items -> Nat]
      /\ dispatcher'[d].pc = "delivered" => dispatcher'[d].item \in Items
  BY DispatcherFrame DEF TypeOK, StoreTypeOK, DispatcherTypeOK, Busy
<1>3. /\ dispatcher[d].pc # "delivered" => Carried = {}
      /\ dispatcher[d].pc = "delivered" => Carried = {i}
      /\ dispatcher'[d].pc # "delivered" => Carried' = {}
      /\ dispatcher'[d].pc = "delivered" => Carried' = {dispatcher'[d].item}
  BY <1>1, <1>2 DEF Carried
<1>4. CASE DeliverOk(d)
  <2>1. /\ i \in Items /\ dispatcher[d].pc = "deliver" /\ UNCHANGED items
        /\ sent' = [sent EXCEPT ![i] = @ + 1]
        /\ dispatcher'[d].pc = "delivered" /\ dispatcher'[d].item = i
    BY <1>2, <1>4 DEF DeliverOk, Standing, Proceed, tables
  <2>2. Carrying = NoMessage /\ Carrying' = i
    BY <1>3, <2>1, CarryingIs, CarryingIsNext
  <2>3. i \notin OnRecord /\ OnRecord' = OnRecord
    BY <2>1 DEF OnRecord, UnsentInDelivery
  <2>4. Courier!Send(i)
    BY <2>1, <2>2, <2>3 DEF Courier!Send
  <2>5. QED
    BY <2>1, <2>4 DEF Courier!Next
<1>5. CASE DeliverAmbiguously(d)
  <2>1. /\ i \in Items /\ dispatcher[d].pc = "deliver" /\ UNCHANGED items
        /\ sent' = [sent EXCEPT ![i] = @ + 1]
        /\ dispatcher'[d].pc = "undelivered"
    BY <1>2, <1>5 DEF DeliverAmbiguously, Standing, Proceed, tables
  <2>2. Carrying = NoMessage /\ Carrying' = NoMessage
    BY <1>3, <2>1, CarryingIs, CarryingIsNext
  <2>3. i \notin OnRecord /\ OnRecord' = OnRecord
    BY <2>1 DEF OnRecord, UnsentInDelivery
  <2>4. Courier!SendUnconfirmed(i)
    BY <2>1, <2>2, <2>3 DEF Courier!SendUnconfirmed
  <2>5. QED
    BY <2>1, <2>4 DEF Courier!Next
<1>6. CASE RecordDispatched(d)
  <2>1. /\ i \in Items /\ dispatcher[d].pc = "delivered" /\ UNCHANGED sent
        /\ dispatcher'[d].pc = "complete"
        /\ UNCHANGED items \/ items' = MarkDispatched(i)
    BY <1>2, <1>6 DEF RecordDispatched, Standing, Proceed
  <2>2. Carrying = i /\ Carrying' = NoMessage
    BY <1>3, <2>1, CarryingIs, CarryingIsNext
  <2>3. OnRecord' = OnRecord \/ OnRecord' = OnRecord \cup {i}
    <3>1. CASE UNCHANGED items
      BY <3>1 DEF OnRecord
    <3>2. CASE items' = MarkDispatched(i)
      <4>1. \A j \in Items : items'[j].dispatched <=>
              (items[j].dispatched \/ (j = i /\ items[i].present))
        BY <2>1, <3>2, RecordEffects DEF TypeOK
      <4>2. QED
        BY <2>1, <4>1 DEF OnRecord
    <3>3. QED
      BY <2>1, <3>1, <3>2
  <2>4. Courier!LoseRecord(i) \/ Courier!Record(i)
    BY <2>1, <2>2, <2>3 DEF Courier!LoseRecord, Courier!Record
  <2>5. QED
    BY <2>1, <2>4 DEF Courier!Next
<1>7. CASE \/ ClaimDispatch(d) \/ InterruptDispatch(d) \/ CheckDispatched(d) \/ DeliverFails(d)
           \/ RetryDelivery(d) \/ InterruptDelivery(d)
           \/ CompleteDispatchClaim(d) \/ ReleaseDispatchClaim(d)
  <2>1. /\ UNCHANGED sent
        /\ dispatcher[d].pc # "delivered" /\ dispatcher'[d].pc # "delivered"
        /\ UNCHANGED items \/ (i \in Items /\ items' = MarkUndelivered(i))
    <3>1. CASE RetryDelivery(d)
      <4>1. \E pc \in {"deliver", "release"} : dispatcher'[d].pc = pc
        BY <1>2, <3>1 DEF RetryDelivery, Proceed, DispatcherLocals
      <4>2. /\ UNCHANGED sent
            /\ dispatcher[d].pc = "undelivered"
            /\ UNCHANGED items \/ items' = MarkUndelivered(i)
        BY <3>1, Zenon DEF RetryDelivery, Standing
      <4>3. QED
        BY <1>2, <4>1, <4>2
    <3>2. CASE CheckDispatched(d)
      <4>1. UNCHANGED <<items, sent>> /\ dispatcher[d].pc = "claimed"
        BY <3>2 DEF CheckDispatched, Standing, tables
      <4>2. \E pc \in {"complete", "deliver", "idle"} : dispatcher'[d].pc = pc
        BY <1>2, <3>2 DEF CheckDispatched, Proceed, Rest, IdleDispatcher, DispatcherLocals
      <4>3. QED
        BY <4>1, <4>2
    <3>3. CASE ClaimDispatch(d)
      BY <1>2, <3>3 DEF ClaimDispatch, Standing
    <3>4. CASE InterruptDispatch(d) \/ DeliverFails(d) \/ InterruptDelivery(d)
      <4>1. /\ UNCHANGED <<items, sent>>
            /\ dispatcher[d].pc \in {"claimed", "deliver"}
            /\ \E pc \in {"undelivered", "release"} : Proceed(d, pc)
        BY <3>4 DEF InterruptDispatch, DeliverFails, InterruptDelivery, Standing, tables
      <4>2. QED
        BY <1>2, <4>1 DEF Proceed, DispatcherLocals
    <3>5. CASE CompleteDispatchClaim(d) \/ ReleaseDispatchClaim(d)
      BY <1>2, <3>5
         DEF CompleteDispatchClaim, ReleaseDispatchClaim, Standing, Rest, IdleDispatcher
    <3>6. QED
      BY <1>7, <3>1, <3>2, <3>3, <3>4, <3>5
  <2>2. Carrying = NoMessage /\ Carrying' = NoMessage
    BY <1>3, <2>1, CarryingIs, CarryingIsNext
  <2>3. OnRecord' = OnRecord
    <3>1. \A j \in Items : items'[j].dispatched <=> items[j].dispatched
      BY <2>1, MarkEffects DEF TypeOK
    <3>2. QED
      BY <3>1 DEF OnRecord
  <2>4. QED
    BY <2>1, <2>2, <2>3 DEF Courier!contract
<1>8. QED
  BY <1>4, <1>5, <1>6, <1>7 DEF DispatcherActs, DispatcherStep

(* A step that sends and records nothing at most takes items off record. *)
LEMMA ForgetContract ==
  ASSUME UNCHANGED <<sent, dispatcher>>,
         \A j \in Items : items'[j].dispatched => items[j].dispatched
  PROVE  [Courier!Next]_(Courier!contract)
<1> DEFINE S == OnRecord \ OnRecord'
<1>1. Carrying' = Carrying
  BY DEF Carrying, Carried
<1>2. OnRecord' = OnRecord \ S
  BY DEF OnRecord
<1>3. S \in SUBSET Items
  BY DEF OnRecord
<1>4. Courier!Forget(S)
  BY <1>1, <1>2 DEF Courier!Forget
<1>5. QED
  BY <1>3, <1>4 DEF Courier!Next

LEMMA CrashContract ==
  ASSUME TypeOK, Busy, OneDispatcher, NEW d \in Dispatchers, CrashDispatcher(d)
  PROVE  [Courier!Next]_(Courier!contract)
<1> DEFINE i == dispatcher[d].item
<1>1. /\ UNCHANGED <<items, sent>>
      /\ dispatcher'[d].pc = "idle"
      /\ dispatcher[d].pc = "delivered" => i \in Items
  BY DEF CrashDispatcher, Crash, Rest, IdleDispatcher, history, TypeOK, DispatcherTypeOK, Busy
<1>2. /\ dispatcher[d].pc # "delivered" => Carried = {}
      /\ dispatcher[d].pc = "delivered" => Carried = {i}
      /\ Carried' = {}
  BY <1>1 DEF Carried, OneDispatcher
<1>3. OnRecord' = OnRecord
  BY <1>1 DEF OnRecord
<1>4. CASE dispatcher[d].pc = "delivered"
  <2>1. Courier!LoseRecord(i)
    BY <1>1, <1>2, <1>3, <1>4, CarryingIs, CarryingIsNext DEF Courier!LoseRecord
  <2>2. QED
    BY <1>1, <1>4, <2>1 DEF Courier!Next
<1>5. CASE dispatcher[d].pc # "delivered"
  BY <1>1, <1>2, <1>3, <1>5, CarryingIs, CarryingIsNext DEF Courier!contract
<1>6. QED
  BY <1>4, <1>5

LEMMA NextContract ==
  ASSUME TypeOK, Busy, DeliveryInv, OneDispatcher, [Next]_vars
  PROVE  [Courier!Next]_(Courier!contract)
<1>1. UnsentInDelivery
  BY DEF DeliveryInv
<1>2. CASE \E d \in Dispatchers : DispatcherActs(d)
  BY <1>1, <1>2, DispatcherContract
<1>3. CASE \/ \E w \in Analyzers : AnalyzerActs(w)
           \/ ReaderActs
           \/ AdminActs
           \/ \E i \in Items : LeaseExpires(i)
           \/ SomeoneCrashes /\ UNCHANGED dispatcher
  BY <1>3, OthersRecordNothing, ForgetContract
<1>4. CASE SomeoneCrashes
  <2>1. UNCHANGED dispatcher \/ \E d \in Dispatchers : CrashDispatcher(d)
    BY <1>4 DEF SomeoneCrashes
  <2>2. QED
    BY <1>3, <1>4, <2>1, CrashContract
<1>5. CASE UNCHANGED vars
  <2>1. UNCHANGED <<sent, dispatcher>> /\ UNCHANGED items
    BY <1>5 DEF vars
  <2>2. QED
    BY <2>1, ForgetContract
<1>6. QED
  BY <1>2, <1>3, <1>4, <1>5 DEF Next

LEMMA InitContract == Init => Courier!Init
<1> SUFFICES ASSUME Init PROVE Courier!Init
  OBVIOUS
<1>1. sent = [i \in Items |-> 0] /\ OnRecord = {}
  BY DEF Init, StoreInit, NoItem, OnRecord
<1>2. Carried = {}
  BY DEF Init, DispatcherInit, IdleDispatcher, Carried
<1>3. QED
  BY <1>1, <1>2, CarryingIs DEF Courier!Init

(* With one dispatcher the four services, for all their interleavings,     *)
(* crashes and failed statements, deliver like one courier: never an item  *)
(* on record, one message at a time, each recorded unless the record fails.*)
THEOREM Refinement ==
  ASSUME OneDispatcher
  PROVE  Spec => ImplementsContract
<1>1. Init => Courier!Init
  BY InitContract
<1>2. TypeOK /\ Busy /\ DeliveryInv /\ [Next]_vars => [Courier!Next]_(Courier!contract)
  BY NextContract
<1>3. QED
  BY <1>1, <1>2, TypeCorrect, DeliveryInvariant, PTL DEF Spec, ImplementsContract, Courier!Spec
=============================================================================
