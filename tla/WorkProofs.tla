----------------------------- MODULE WorkProofs -----------------------------
(***************************************************************************)
(* Who works on what, for any number of processes and interferences: a     *)
(* lease belongs to a worker that is at work, no item is left behind, no   *)
(* record of a dispatch is overwritten, a quarantine takes nothing away    *)
(* and every delivery of a job is accounted for.                           *)
(***************************************************************************)
EXTENDS RecordProofs

-----------------------------------------------------------------------------
(* What a statement on a queue does to the rows of the table. *)

(* The two rows differ at most in their place and in the clock. *)
Alike(r, s) == /\ r.state = s.state /\ r.owner = s.owner
               /\ r.count = s.count /\ r.failed = s.failed

LEMMA EnqueueRows ==
  ASSUME NEW q \in [Items -> Row], NEW i \in Items, NEW j \in Items
  PROVE  /\ j # i => Enqueue(q, i)[j] = q[j]
         /\ Enqueue(q, i)[i].state = "QUEUED" /\ Enqueue(q, i)[i].owner = NoOwner
         /\ Enqueue(q, i)[i].count = q[i].count
         /\ ~Enqueue(q, i)[i].failed
BY DEF Enqueue

LEMMA ClaimRows ==
  ASSUME NEW q \in [Items -> Row], NEW i \in Items, NEW j \in Items, NEW w, NEW cap
  PROVE  /\ j # i => Claim(q, i, w, cap)[j] = q[j]
         /\ Claim(q, i, w, cap)[i].state = "LEASED" /\ Claim(q, i, w, cap)[i].owner = w
         /\ Claim(q, i, w, cap)[i].count \in {q[i].count, q[i].count + 1}
         /\ ~Claim(q, i, w, cap)[i].failed
BY DEF Claim, Row

LEMMA SettleRows ==
  ASSUME NEW q \in [Items -> Row], NEW i \in Items, NEW j \in Items, NEW w, w # NoOwner,
         NEW table \in {Complete(q, i, w), Release(q, i, w), Fail(q, i, w)}
  PROVE  /\ j # i \/ q[i].owner # w => table[j] = q[j]
         /\ table[i].owner # w
         /\ table[i].count = q[i].count
         /\ q[i].owner = w =>
              /\ table[i].owner = NoOwner
              /\ table[i].state = IF table = Release(q, i, w) THEN "QUEUED" ELSE "DONE"
              /\ table = Complete(q, i, w) => ~table[i].failed
BY DEF Complete, Release, Fail, Settle, OwnedBy, Row

LEMMA DeleteRows ==
  ASSUME NEW q \in [Items -> Row], NEW i \in Items, NEW j \in Items
  PROVE  /\ j # i => Alike(DeleteRow(q, i)[j], q[j])
         /\ DeleteRow(q, i)[i] = NoRow
BY DEF DeleteRow, Alike, Row

LEMMA ExpireRows ==
  ASSUME NEW q \in [Items -> Row], NEW i \in Items, NEW j \in Items
  PROVE  Alike(Expire(q, i)[j], q[j])
BY DEF Expire, Alike, Row

LEMMA OrphanRows ==
  ASSUME NEW q \in [Items -> Row], NEW j \in Items, NEW w
  PROVE  /\ q[j].owner # w => Orphan(q, w)[j] = q[j]
         /\ q[j].owner = w => Orphan(q, w)[j].owner = Gone
         /\ Orphan(q, w)[j].state = q[j].state
         /\ Orphan(q, w)[j].count = q[j].count
         /\ Orphan(q, w)[j].failed = q[j].failed
BY DEF Orphan, Row

-----------------------------------------------------------------------------
(* A worker's step takes a job, goes on with the one it has, or ends it.   *)

(* Here the worker has no result for its job. *)
Unanswered == {"analyze", "judge", "poison", "fail"}

Takes(w) ==
  /\ At(w, "idle")
  /\ \E k \in Items : /\ IsNext(analyzer_queue, k)
                      /\ analyzer_queue' = Claim(analyzer_queue, k, w, RawCountCap)
                      /\ analyzer'[w].item = k /\ analyzer'[w].pc = "claimed"
  /\ UNCHANGED <<items, dispatch_queue, faults>>

Works(w) ==
  LET i == analyzer[w].item IN
  /\ ~At(w, "idle") /\ analyzer'[w].item = i /\ analyzer'[w].pc # "idle"
  /\ UNCHANGED analyzer_queue
  /\ \/ UNCHANGED items
     \/ items' \in {MarkFailed(i), MarkHandedOver(i)}
     \/ items' = MarkAnalyzed(i) /\ At(w, "analyze") /\ analyzer'[w].pc = "handOver"
  /\ \/ UNCHANGED dispatch_queue
     \/ dispatch_queue' = Enqueue(dispatch_queue, i) /\ At(w, "handOver")
  /\ analyzer'[w].pc \in {"stamp", "complete"} =>
       At(w, "stamp") \/ dispatch_queue' = Enqueue(dispatch_queue, i)
  /\ analyzer'[w].pc \in Unanswered =>
       analyzer[w].pc \in Unanswered \/ ~items[i].analyzed \/ Fault
  /\ analyzer'[w].pc = "release" => ~TooManyDeliveries(w) \/ Fault

Ends(w) ==
  LET i == analyzer[w].item IN
  /\ analyzer'[w] = IdleAnalyzer
  /\ \/ At(w, "complete") /\ analyzer_queue' = Complete(analyzer_queue, i, w) /\ NoFault
     \/ At(w, "release") /\ analyzer_queue' = Release(analyzer_queue, i, w) /\ NoFault
     \/ At(w, "fail") /\ analyzer_queue' = Fail(analyzer_queue, i, w) /\ NoFault
     \/ ~At(w, "idle") /\ UNCHANGED analyzer_queue /\ Fault
  /\ UNCHANGED <<items, dispatch_queue>>

LEMMA AnalyzerShape ==
  ASSUME TypeOK, Busy, NEW w \in Analyzers, AnalyzerActs(w)
  PROVE  /\ TypeOK' /\ Busy'
         /\ UNCHANGED <<sent, cleared, crashes, removals, dispatcher, reader, admin, requeues>>
         /\ faults' >= faults
         /\ \A v \in Analyzers \ {w} : analyzer'[v] = analyzer[v]
         /\ Takes(w) \/ Works(w) \/ Ends(w)
<1>0. /\ TypeOK' /\ Busy'
      /\ UNCHANGED <<sent, cleared, crashes, removals, dispatcher, reader, admin, requeues>>
      /\ analyzer \in [Analyzers -> AnalyzerLocals]
  BY AnalyzerType DEF AnalyzerActs, AnalyzerStep, history, TypeOK, AnalyzerTypeOK
<1>1. faults' >= faults
  BY FaultGrows
     DEF AnalyzerActs, AnalyzerStep, ClaimRaw, InterruptRaw, FindStored, AnalyzeOk,
         AnalyzeFails, InterruptAnalysis, Judge, MarkPoison, FailClaim, HandOver,
         StampHandOver, CompleteClaim, ReleaseClaim, NoFault
<1>2. \A v \in Analyzers \ {w} : analyzer'[v] = analyzer[v]
  <2>1. \E locals : analyzer' = [analyzer EXCEPT ![w] = locals]
    BY <1>0
       DEF AnalyzerActs, AnalyzerStep, ClaimRaw, InterruptRaw, FindStored, AnalyzeOk,
           AnalyzeFails, InterruptAnalysis, Judge, MarkPoison, FailClaim, HandOver,
           StampHandOver, CompleteClaim, ReleaseClaim, GoTo, Finish
  <2>2. QED
    BY <1>0, <2>1
<1>3. Takes(w) \/ Works(w) \/ Ends(w)
  <2>1. CASE ClaimRaw(w)
    BY <1>0, <2>1 DEF ClaimRaw, Takes
  <2>2. CASE InterruptRaw(w) \/ FindStored(w) \/ InterruptAnalysis(w) \/ Judge(w)
    BY <1>0, <2>2
       DEF InterruptRaw, FindStored, InterruptAnalysis, Judge, Works, Unanswered, At, GoTo,
           tables, AnalyzerLocals
  <2>3. CASE AnalyzeOk(w) \/ AnalyzeFails(w) \/ MarkPoison(w) \/ HandOver(w) \/ StampHandOver(w)
    BY <1>0, <2>3
       DEF AnalyzeOk, AnalyzeFails, MarkPoison, HandOver, StampHandOver, Works, Unanswered, At,
           GoTo, AnalyzerLocals
  <2>4. CASE CompleteClaim(w) \/ ReleaseClaim(w) \/ FailClaim(w)
    BY <1>0, <2>4 DEF CompleteClaim, ReleaseClaim, FailClaim, Ends, At, Finish
  <2>5. QED
    BY <2>1, <2>2, <2>3, <2>4 DEF AnalyzerActs, AnalyzerStep
<1>4. QED
  BY <1>0, <1>1, <1>2, <1>3

(* The same for a dispatcher. *)

TakesMessage(d) ==
  /\ Standing(d, "idle")
  /\ \E k \in Items : /\ IsNext(dispatch_queue, k)
                      /\ dispatch_queue' = Claim(dispatch_queue, k, d, DispatchCountCap)
                      /\ dispatcher'[d].item = k /\ dispatcher'[d].pc = "claimed"
  /\ UNCHANGED <<items, faults>>

Carries(d) ==
  LET i == dispatcher[d].item IN
  /\ ~Standing(d, "idle") /\ dispatcher'[d].item = i /\ dispatcher'[d].pc # "idle"
  /\ UNCHANGED dispatch_queue
  /\ \/ UNCHANGED items
     \/ items' = MarkUndelivered(i) /\ Standing(d, "undelivered")
     \/ items' = MarkDispatched(i) /\ Standing(d, "delivered")
  /\ dispatcher'[d].pc = "complete" =>
       \/ IsAlreadyDispatched(i) /\ UNCHANGED items
       \/ items' = MarkDispatched(i)
       \/ Fault

Drops(d) ==
  LET i == dispatcher[d].item IN
  /\ dispatcher'[d] = IdleDispatcher
  /\ \/ Standing(d, "complete") /\ dispatch_queue' = Complete(dispatch_queue, i, d) /\ NoFault
     \/ Standing(d, "release") /\ dispatch_queue' = Release(dispatch_queue, i, d) /\ NoFault
     \/ ~Standing(d, "idle") /\ UNCHANGED dispatch_queue /\ Fault
  /\ UNCHANGED items

LEMMA DispatcherShape ==
  ASSUME TypeOK, Busy, NEW d \in Dispatchers, DispatcherActs(d)
  PROVE  /\ TypeOK' /\ Busy'
         /\ UNCHANGED <<analyzer_queue, cleared, crashes, removals, analyzer, reader, admin,
                        requeues>>
         /\ faults' >= faults
         /\ \A c \in Dispatchers \ {d} : dispatcher'[c] = dispatcher[c]
         /\ TakesMessage(d) \/ Carries(d) \/ Drops(d)
<1>0. /\ TypeOK' /\ Busy' /\ faults' >= faults
      /\ UNCHANGED <<analyzer_queue, cleared, crashes, removals, analyzer, reader, admin, requeues>>
      /\ \A c \in Dispatchers \ {d} : dispatcher'[c] = dispatcher[c]
      /\ dispatcher \in [Dispatchers -> DispatcherLocals]
  BY DispatcherFrame DEF DispatcherActs, TypeOK, DispatcherTypeOK
<1>1. CASE ClaimDispatch(d)
  BY <1>0, <1>1 DEF ClaimDispatch, TakesMessage
<1>2. CASE InterruptDispatch(d) \/ DeliverOk(d) \/ DeliverFails(d) \/ DeliverAmbiguously(d)
           \/ InterruptDelivery(d)
  BY <1>0, <1>2
     DEF InterruptDispatch, DeliverOk, DeliverFails, DeliverAmbiguously, InterruptDelivery,
         Carries, Standing, Proceed, tables, DispatcherLocals
<1>3. CASE RetryDelivery(d) \/ RecordDispatched(d)
  BY <1>0, <1>3
     DEF RetryDelivery, RecordDispatched, Carries, Standing, Proceed, DispatcherLocals
<1>4. CASE CompleteDispatchClaim(d) \/ ReleaseDispatchClaim(d)
  BY <1>0, <1>4
     DEF CompleteDispatchClaim, ReleaseDispatchClaim, Drops, Standing, Rest, DispatcherLocals
<1>5. CASE CheckDispatched(d)
  <2>1. CASE Rest(d) /\ Fault
    BY <1>0, <1>5, <2>1 DEF CheckDispatched, Drops, Standing, Rest, tables
  <2>2. CASE Proceed(d, IF IsAlreadyDispatched(dispatcher[d].item) THEN "complete" ELSE "deliver")
    BY <1>0, <1>5, <2>2
       DEF CheckDispatched, Carries, Standing, Proceed, tables, DispatcherLocals
  <2>3. QED
    BY <1>5, <2>1, <2>2 DEF CheckDispatched
<1>6. QED
  BY <1>0, <1>1, <1>2, <1>3, <1>4, <1>5 DEF DispatcherActs, DispatcherStep

(* Time moves no row. *)
LEMMA LeaseShape ==
  ASSUME TypeOK, Busy, NEW i \in Items, LeaseExpires(i)
  PROVE  /\ TypeOK' /\ Busy'
         /\ UNCHANGED <<items, sent, cleared, faults, crashes, removals, analyzer, dispatcher,
                        reader, admin, requeues>>
         /\ \A j \in Items : /\ Alike(analyzer_queue'[j], analyzer_queue[j])
                             /\ Alike(dispatch_queue'[j], dispatch_queue[j])
<1>1. /\ TypeOK' /\ Busy'
      /\ analyzer_queue \in [Items -> Row] /\ dispatch_queue \in [Items -> Row]
  BY LeaseType DEF TypeOK, StoreTypeOK
<1>2. QED
  BY <1>1, ExpireRows
     DEF LeaseExpires, RawLeaseExpires, DispatchLeaseExpires, history, Alike

(* The reader is dead, and with it what it knew of the entry it handled.   *)
ReaderFell ==
  /\ reader'.pc = "idle" /\ reader'.item = NoEntry
  /\ reader'.abandoned =
       reader.abandoned \cup (IF reader.pc = "queueRaw" THEN {reader.item} ELSE {})

(* A crash empties the hands of the process it hits, and what that process *)
(* leased belongs to nobody who is alive.                                  *)
LEMMA CrashShape ==
  ASSUME TypeOK, Busy, SomeoneCrashes
  PROVE  /\ TypeOK' /\ Busy'
         /\ UNCHANGED <<items, sent, cleared, faults, removals, requeues>>
         /\ crashes' = crashes + 1
         /\ \A w \in Analyzers : analyzer'[w] \in {analyzer[w], IdleAnalyzer}
         /\ \A d \in Dispatchers : dispatcher'[d] \in {dispatcher[d], IdleDispatcher}
         /\ reader' = reader \/ ReaderFell
         /\ \A a \in Admins : admin'[a] \in {admin[a], IdleAdmin}
         /\ \A j \in Items :
              /\ analyzer_queue'[j].state = analyzer_queue[j].state
              /\ analyzer_queue'[j].count = analyzer_queue[j].count
              /\ analyzer_queue'[j].failed = analyzer_queue[j].failed
              /\ dispatch_queue'[j].state = dispatch_queue[j].state
              /\ \A w \in Analyzers : analyzer_queue'[j].owner = w
                   => analyzer_queue[j].owner = w /\ analyzer'[w] = analyzer[w]
              /\ \A d \in Dispatchers : dispatch_queue'[j].owner = d
                   => dispatch_queue[j].owner = d /\ dispatcher'[d] = dispatcher[d]
<1>0. /\ TypeOK' /\ Busy'
      /\ analyzer_queue \in [Items -> Row] /\ dispatch_queue \in [Items -> Row]
      /\ analyzer \in [Analyzers -> AnalyzerLocals]
      /\ dispatcher \in [Dispatchers -> DispatcherLocals]
      /\ \A w \in Analyzers \cup Dispatchers : w # Gone
      /\ crashes \in Nat
  BY CrashType, OwnersAssumption, WorkersAssumption
     DEF TypeOK, StoreTypeOK, AnalyzerTypeOK, DispatcherTypeOK
<1>1. CASE \E w \in Analyzers :
             CrashAnalyzer(w) /\ UNCHANGED <<dispatcher, reader, admin, requeues>>
  BY <1>0, <1>1, OrphanRows DEF CrashAnalyzer, Crash, Finish, history
<1>2. CASE \E d \in Dispatchers :
             CrashDispatcher(d) /\ UNCHANGED <<analyzer, reader, admin, requeues>>
  BY <1>0, <1>2, OrphanRows DEF CrashDispatcher, Crash, Rest, history
<1>3. CASE CrashReader /\ UNCHANGED <<analyzer, dispatcher, admin, requeues>>
  <2>1. reader \in [pc : ReaderPc, item : Items \cup {NoEntry}, abandoned : SUBSET Items]
    BY DEF TypeOK, ReaderTypeOK
  <2>2. ReaderFell
    BY <1>3, <2>1 DEF CrashReader, IdleReader, ReaderFell
  <2>3. QED
    BY <1>0, <1>3, <2>2 DEF CrashReader, Crash, history, tables
<1>4. CASE CrashAdmin /\ UNCHANGED <<analyzer, dispatcher, reader>>
  BY <1>0, <1>4 DEF CrashAdmin, Crash, history, tables
<1>5. QED
  BY <1>1, <1>2, <1>3, <1>4 DEF SomeoneCrashes

-----------------------------------------------------------------------------
(* Leases and the workers at work on them. *)

(* Only a leased row has an owner, and an idle worker has nothing in hand. *)
Leases == \A i \in Items :
  /\ analyzer_queue[i].owner # NoOwner => analyzer_queue[i].state = "LEASED"
  /\ dispatch_queue[i].owner # NoOwner => dispatch_queue[i].state = "LEASED"
EmptyHands ==
  /\ \A w \in Analyzers : analyzer[w].pc = "idle" => analyzer[w].item = NoJob
  /\ \A d \in Dispatchers : dispatcher[d].pc = "idle" => dispatcher[d].item = NoMessage

WorkInv == Leases /\ EmptyHands /\ LeaseHolderAtWork

(* A statement of the reader or of a request takes a row from its owner or *)
(* leaves it alone.                                                        *)
LEMMA OthersWork ==
  ASSUME TypeOK, TypeOK', WorkInv, UNCHANGED <<analyzer, dispatcher>>, faults' >= faults,
         \A j \in Items : \/ Alike(analyzer_queue'[j], analyzer_queue[j])
                          \/ analyzer_queue'[j].owner = NoOwner,
         \A j \in Items : \/ Alike(dispatch_queue'[j], dispatch_queue[j])
                          \/ dispatch_queue'[j].owner = NoOwner
  PROVE  WorkInv'
<1>1. /\ \A w \in Analyzers \cup Dispatchers : w # NoOwner
      /\ faults \in Nat /\ faults' \in Nat
  BY OwnersAssumption, WorkersAssumption DEF TypeOK, StoreTypeOK
<1>2. Leases'
  BY DEF WorkInv, Leases, Alike
<1>3. EmptyHands'
  BY DEF WorkInv, EmptyHands
<1>4. LeaseHolderAtWork'
  BY <1>1 DEF WorkInv, LeaseHolderAtWork, Alike
<1>5. QED
  BY <1>2, <1>3, <1>4 DEF WorkInv

LEMMA AnalyzerWork ==
  ASSUME TypeOK, Busy, WorkInv, NEW w \in Analyzers, AnalyzerActs(w)
  PROVE  WorkInv'
<1> DEFINE i == analyzer[w].item
<1>0. /\ TypeOK' /\ UNCHANGED dispatcher /\ faults' >= faults
      /\ \A v \in Analyzers \ {w} : analyzer'[v] = analyzer[v]
      /\ Takes(w) \/ Works(w) \/ Ends(w)
      /\ At(w, "idle") \/ i \in Items
      /\ analyzer_queue \in [Items -> Row] /\ dispatch_queue \in [Items -> Row]
      /\ faults \in Nat /\ faults' \in Nat
      /\ \A v \in Analyzers \cup Dispatchers : v # NoOwner
      /\ NoOwner \notin Items
  BY AnalyzerShape, OwnersAssumption, WorkersAssumption DEF Busy, At, TypeOK, StoreTypeOK
<1>1. \A j \in Items : \/ dispatch_queue'[j] = dispatch_queue[j]
                       \/ dispatch_queue'[j].owner = NoOwner
  BY <1>0, EnqueueRows DEF Takes, Works, Ends, At
<1>2. CASE Takes(w)
  <2>1. PICK k \in Items : /\ analyzer_queue' = Claim(analyzer_queue, k, w, RawCountCap)
                           /\ analyzer'[w].item = k /\ analyzer'[w].pc = "claimed"
    BY <1>2 DEF Takes
  <2>2. i = NoJob
    BY <1>2 DEF Takes, WorkInv, EmptyHands, At
  <2>3. /\ \A j \in Items \ {k} : analyzer_queue'[j] = analyzer_queue[j]
        /\ analyzer_queue'[k].state = "LEASED" /\ analyzer_queue'[k].owner = w
    BY <1>0, <2>1, ClaimRows
  <2>4. Leases'
    BY <1>1, <2>3 DEF WorkInv, Leases
  <2>5. EmptyHands'
    BY <1>0, <2>1 DEF WorkInv, EmptyHands
  <2>6. LeaseHolderAtWork'
    BY <1>0, <1>1, <2>1, <2>2, <2>3 DEF WorkInv, LeaseHolderAtWork, NoJob
  <2>7. QED
    BY <2>4, <2>5, <2>6 DEF WorkInv
<1>3. CASE Works(w)
  <2>1. UNCHANGED analyzer_queue /\ analyzer'[w].item = i /\ analyzer'[w].pc # "idle"
    BY <1>3 DEF Works
  <2>2. Leases'
    BY <1>1, <2>1 DEF WorkInv, Leases
  <2>3. EmptyHands'
    BY <1>0, <2>1 DEF WorkInv, EmptyHands
  <2>4. LeaseHolderAtWork'
    BY <1>0, <1>1, <2>1 DEF WorkInv, LeaseHolderAtWork
  <2>5. QED
    BY <2>2, <2>3, <2>4 DEF WorkInv
<1>4. CASE Ends(w)
  <2>1. /\ i \in Items
        /\ analyzer'[w] = IdleAnalyzer
        /\ UNCHANGED dispatch_queue
    BY <1>0, <1>4 DEF Ends, At
  <2>2. \A j \in Items : \/ analyzer_queue'[j] = analyzer_queue[j]
                         \/ analyzer_queue'[j].owner = NoOwner
    BY <1>0, <1>4, <2>1 DEF Ends, Complete, Release, Fail, Settle, Row
  <2>3. faults' = 0 => analyzer_queue'[i].owner # w
    BY <1>0, <1>4, <2>1, SettleRows DEF Ends, Fault
  <2>4. Leases'
    BY <1>1, <2>2 DEF WorkInv, Leases
  <2>5. EmptyHands'
    BY <1>0, <2>1 DEF WorkInv, EmptyHands, IdleAnalyzer
  <2>6. LeaseHolderAtWork'
    BY <1>0, <2>1, <2>2, <2>3 DEF WorkInv, LeaseHolderAtWork
  <2>7. QED
    BY <2>4, <2>5, <2>6 DEF WorkInv
<1>5. QED
  BY <1>0, <1>2, <1>3, <1>4

LEMMA DispatcherWork ==
  ASSUME TypeOK, Busy, WorkInv, NEW d \in Dispatchers, DispatcherActs(d)
  PROVE  WorkInv'
<1> DEFINE i == dispatcher[d].item
<1>0. /\ TypeOK' /\ UNCHANGED <<analyzer, analyzer_queue>> /\ faults' >= faults
      /\ \A c \in Dispatchers \ {d} : dispatcher'[c] = dispatcher[c]
      /\ TakesMessage(d) \/ Carries(d) \/ Drops(d)
      /\ Standing(d, "idle") \/ i \in Items
      /\ dispatch_queue \in [Items -> Row]
      /\ faults \in Nat /\ faults' \in Nat
      /\ \A v \in Analyzers \cup Dispatchers : v # NoOwner
      /\ NoOwner \notin Items
  BY DispatcherShape, OwnersAssumption, WorkersAssumption DEF Busy, Standing, TypeOK, StoreTypeOK
<1>1. CASE TakesMessage(d)
  <2>1. PICK k \in Items : /\ dispatch_queue' = Claim(dispatch_queue, k, d, DispatchCountCap)
                           /\ dispatcher'[d].item = k /\ dispatcher'[d].pc = "claimed"
    BY <1>1 DEF TakesMessage
  <2>2. i = NoMessage
    BY <1>1 DEF TakesMessage, WorkInv, EmptyHands, Standing
  <2>3. /\ \A j \in Items \ {k} : dispatch_queue'[j] = dispatch_queue[j]
        /\ dispatch_queue'[k].state = "LEASED" /\ dispatch_queue'[k].owner = d
    BY <1>0, <2>1, ClaimRows
  <2>4. Leases'
    BY <1>0, <2>3 DEF WorkInv, Leases
  <2>5. EmptyHands'
    BY <1>0, <2>1 DEF WorkInv, EmptyHands
  <2>6. LeaseHolderAtWork'
    BY <1>0, <2>1, <2>2, <2>3 DEF WorkInv, LeaseHolderAtWork, NoMessage
  <2>7. QED
    BY <2>4, <2>5, <2>6 DEF WorkInv
<1>2. CASE Carries(d)
  <2>1. UNCHANGED dispatch_queue /\ dispatcher'[d].item = i /\ dispatcher'[d].pc # "idle"
    BY <1>2 DEF Carries
  <2>2. Leases'
    BY <1>0, <2>1 DEF WorkInv, Leases
  <2>3. EmptyHands'
    BY <1>0, <2>1 DEF WorkInv, EmptyHands
  <2>4. LeaseHolderAtWork'
    BY <1>0, <2>1 DEF WorkInv, LeaseHolderAtWork
  <2>5. QED
    BY <2>2, <2>3, <2>4 DEF WorkInv
<1>3. CASE Drops(d)
  <2>1. i \in Items /\ dispatcher'[d] = IdleDispatcher
    BY <1>0, <1>3 DEF Drops, Standing
  <2>2. \A j \in Items : \/ dispatch_queue'[j] = dispatch_queue[j]
                         \/ dispatch_queue'[j].owner = NoOwner
    BY <1>0, <1>3, <2>1 DEF Drops, Complete, Release, Settle, Row
  <2>3. faults' = 0 => dispatch_queue'[i].owner # d
    BY <1>0, <1>3, <2>1, SettleRows DEF Drops, Fault
  <2>4. Leases'
    BY <1>0, <2>2 DEF WorkInv, Leases
  <2>5. EmptyHands'
    BY <1>0, <2>1 DEF WorkInv, EmptyHands, IdleDispatcher
  <2>6. LeaseHolderAtWork'
    BY <1>0, <2>1, <2>2, <2>3 DEF WorkInv, LeaseHolderAtWork
  <2>7. QED
    BY <2>4, <2>5, <2>6 DEF WorkInv
<1>4. QED
  BY <1>0, <1>1, <1>2, <1>3

LEMMA ReaderWorkKeeps ==
  ASSUME TypeOK, Busy, WorkInv, ReaderActs
  PROVE  WorkInv'
<1>0. /\ TypeOK' /\ UNCHANGED <<analyzer, dispatcher, dispatch_queue>>
      /\ analyzer_queue \in [Items -> Row]
      /\ reader.pc # "idle" => reader.item \in Items
  BY ReaderType
     DEF ReaderActs, ReaderStep, ReaderWork, InsertItemIfNew, EnqueueAnalyzerJob,
         MarkRawEnqueued, MarkEnqueueFailed, Cleanup, Busy, TypeOK, StoreTypeOK
<1>1. faults' >= faults
  BY FaultGrows
     DEF ReaderActs, ReaderStep, ReaderWork, InsertItemIfNew, EnqueueAnalyzerJob,
         MarkRawEnqueued, MarkEnqueueFailed, Cleanup, NoFault
<1>2. \/ UNCHANGED analyzer_queue
      \/ reader.item \in Items /\ analyzer_queue' = Enqueue(analyzer_queue, reader.item)
  BY <1>0
     DEF ReaderActs, ReaderStep, ReaderWork, InsertItemIfNew, EnqueueAnalyzerJob,
         MarkRawEnqueued, MarkEnqueueFailed, Cleanup
<1>3. QED
  BY <1>0, <1>1, <1>2, EnqueueRows, OthersWork DEF Alike

LEMMA AdminWorkKeeps ==
  ASSUME TypeOK, Busy, WorkInv, AdminActs
  PROVE  WorkInv'
<1>0. /\ TypeOK' /\ UNCHANGED <<analyzer, dispatcher>>
      /\ analyzer_queue \in [Items -> Row] /\ dispatch_queue \in [Items -> Row]
      /\ \A a \in Admins : admin[a].pc # "idle" => admin[a].item \in Items
  BY AdminType DEF AdminActs, Busy, TypeOK, StoreTypeOK
<1>1. faults' >= faults
  BY FaultGrows
     DEF AdminActs, AdminStep, AdminWork, RequeueRead, RequeueRaw, RequeueAnalyzed,
         ResetToNew, ResetToAnalyzed, ResetItem, HandleItemDelete, NoFault
<1>2. /\ \/ UNCHANGED analyzer_queue
         \/ \E i \in Items : analyzer_queue' \in {Enqueue(analyzer_queue, i), DeleteRow(analyzer_queue, i)}
      /\ \/ UNCHANGED dispatch_queue
         \/ \E i \in Items : dispatch_queue' \in {Enqueue(dispatch_queue, i), DeleteRow(dispatch_queue, i)}
  BY <1>0
     DEF AdminActs, AdminStep, AdminWork, RequeueRead, RequeueRaw, RequeueAnalyzed,
         ResetToNew, ResetToAnalyzed, ResetItem, HandleItemDelete, tables, Serving
<1>3. NoRow.owner = NoOwner
  BY DEF NoRow
<1>4. QED
  BY <1>0, <1>1, <1>2, <1>3, EnqueueRows, DeleteRows, OthersWork DEF Alike

LEMMA LeaseWork ==
  ASSUME TypeOK, Busy, WorkInv, NEW i \in Items, LeaseExpires(i)
  PROVE  WorkInv'
<1>1. faults' >= faults
  BY LeaseShape DEF TypeOK, StoreTypeOK
<1>2. QED
  BY <1>1, LeaseShape, OthersWork

LEMMA CrashWork ==
  ASSUME TypeOK, Busy, WorkInv, SomeoneCrashes
  PROVE  WorkInv'
<1>1. Leases'
  <2>1. ASSUME NEW j \in Items
        PROVE  /\ analyzer_queue'[j].owner # NoOwner => analyzer_queue[j].owner # NoOwner
               /\ dispatch_queue'[j].owner # NoOwner => dispatch_queue[j].owner # NoOwner
    BY OrphanRows, WorkersAssumption, OwnersAssumption
       DEF SomeoneCrashes, CrashAnalyzer, CrashDispatcher, CrashReader, CrashAdmin, tables,
           TypeOK, StoreTypeOK
  <2>2. QED
    BY <2>1, CrashShape DEF WorkInv, Leases
<1>2. EmptyHands'
  BY CrashShape DEF WorkInv, EmptyHands, IdleAnalyzer, IdleDispatcher
<1>3. LeaseHolderAtWork'
  BY CrashShape DEF WorkInv, LeaseHolderAtWork
<1>4. QED
  BY <1>1, <1>2, <1>3 DEF WorkInv

LEMMA InitWork == Init => WorkInv
BY OwnersAssumption, WorkersAssumption
   DEF Init, StoreInit, EmptyQueue, NoRow, AnalyzerInit, IdleAnalyzer, DispatcherInit,
       IdleDispatcher, WorkInv, Leases, EmptyHands, LeaseHolderAtWork

LEMMA StutterWork == ASSUME WorkInv, UNCHANGED vars PROVE WorkInv'
BY DEF WorkInv, Leases, EmptyHands, LeaseHolderAtWork, vars

LEMMA NextWork == ASSUME TypeOK, Busy, WorkInv, [Next]_vars PROVE WorkInv'
BY AnalyzerWork, DispatcherWork, ReaderWorkKeeps, AdminWorkKeeps, LeaseWork, CrashWork,
   StutterWork DEF Next

LEMMA WorkInvariant == Spec => []WorkInv
<1>1. Init => WorkInv
  BY InitWork
<1>2. TypeOK /\ Busy /\ WorkInv /\ [Next]_vars => WorkInv'
  BY NextWork
<1>3. QED
  BY <1>1, <1>2, TypeCorrect, PTL DEF Spec

(* As long as no statement fails, the owner of a lease is at work on that  *)
(* very item, however many workers share the queues, whatever leases run   *)
(* out and whoever dies (claimNextRawJob, completeClaim, releaseClaim,     *)
(* failClaim and the dispatcher's counterparts).                           *)
THEOREM LeasesAreWorked == Spec => []LeaseHolderAtWork
<1>1. WorkInv => LeaseHolderAtWork
  BY DEF WorkInv
<1>2. QED
  BY <1>1, WorkInvariant, PTL

-----------------------------------------------------------------------------
(* Nothing is left behind. *)

Calm     == faults = 0
Fresh(i) == items[i].present /\ cleared[i] = 0 /\ i \notin reader.abandoned

(* Worker w has handed item i on and is about to close its job; dispatcher *)
(* d is about to close its row.                                            *)
HandedOn(w, i) == /\ analyzer[w].item = i /\ analyzer[w].pc \in {"stamp", "complete"}
                  /\ analyzer_queue[i].owner = w
Shutting(d, i) == /\ dispatcher[d].item = i /\ dispatcher[d].pc = "complete"
                  /\ dispatch_queue[i].owner = d

(* Something still holds item i, and whoever is about to let go of it is   *)
(* not the last to hold it.                                                *)
Safe(i) ==
  /\ Settled(i) \/ Entering(i) \/ Open(analyzer_queue[i]) \/ Open(dispatch_queue[i])
  /\ (\E w \in Analyzers : HandedOn(w, i)) =>
       items[i].dispatched \/ Entering(i) \/ Open(dispatch_queue[i])
  /\ (\E d \in Dispatchers : Shutting(d, i)) =>
       \/ Settled(i) \/ Entering(i)
       \/ Open(analyzer_queue[i]) /\ \A w \in Analyzers : ~HandedOn(w, i)

SafeInv == Calm => \A i \in Items : Fresh(i) => Safe(i)

LEMMA AnalyzerSafe ==
  ASSUME TypeOK, Busy, WorkInv, SafeInv, NEW w \in Analyzers, AnalyzerActs(w)
  PROVE  SafeInv'
<1> DEFINE i == analyzer[w].item
<1> SUFFICES ASSUME Calm', NEW j \in Items, Fresh(j)'
             PROVE  Safe(j)'
  BY DEF SafeInv
<1>0. /\ UNCHANGED <<cleared, crashes, dispatcher, reader>> /\ faults = 0 /\ faults' = 0
      /\ \A v \in Analyzers \ {w} : analyzer'[v] = analyzer[v]
      /\ Takes(w) \/ Works(w) \/ Ends(w)
      /\ At(w, "idle") \/ i \in Items
      /\ analyzer_queue \in [Items -> Row] /\ dispatch_queue \in [Items -> Row]
      /\ \A v \in Analyzers \cup Dispatchers : v # NoOwner
      /\ NoOwner \notin Items
  BY AnalyzerShape, OwnersAssumption, WorkersAssumption DEF Busy, At, TypeOK, StoreTypeOK, Calm
<1>1. /\ items'[j].present <=> items[j].present
      /\ items'[j].dispatched <=> items[j].dispatched
  BY <1>0, MarkEffects DEF TypeOK, Takes, Works, Ends, At
<1>2. Safe(j)
  BY <1>0, <1>1 DEF SafeInv, Calm, Fresh
<1>3. CASE Takes(w)
  <2>1. PICK k \in Items : /\ Claimable(analyzer_queue[k])
                           /\ analyzer_queue' = Claim(analyzer_queue, k, w, RawCountCap)
                           /\ analyzer'[w].item = k /\ analyzer'[w].pc = "claimed"
    BY <1>3 DEF Takes, IsNext
  <2>2. /\ j # k => analyzer_queue'[j] = analyzer_queue[j]
        /\ j = k => /\ Open(analyzer_queue[j]) /\ Open(analyzer_queue[j])'
                    /\ ~Quarantined(j) /\ analyzer_queue'[j].owner = w
    BY <1>0, <2>1, ClaimRows DEF Claimable, Open, Quarantined
  <2>3. Settled(j) => Settled(j)'
    BY <1>1, <2>2 DEF Settled, Quarantined
  <2>4. \A v \in Analyzers : HandedOn(v, j)' => HandedOn(v, j)
    BY <1>0, <2>1, <2>2 DEF HandedOn
  <2>5. UNCHANGED dispatch_queue
    BY <1>3 DEF Takes
  <2>6. QED
    BY <1>0, <1>1, <1>2, <2>2, <2>3, <2>4, <2>5 DEF Safe, Entering, Shutting, Open
<1>4. CASE Works(w)
  <2>1. /\ i \in Items /\ UNCHANGED analyzer_queue
        /\ Settled(j) => Settled(j)'
    BY <1>0, <1>1, <1>4 DEF Works, Settled, Quarantined
  <2>2. CASE j = i /\ dispatch_queue' = Enqueue(dispatch_queue, i)
    <3>1. Open(dispatch_queue[j])' /\ \A d \in Dispatchers : ~Shutting(d, j)'
      BY <1>0, <2>2, EnqueueRows DEF Open, Shutting
    <3>2. QED
      BY <3>1 DEF Safe
  <2>3. CASE ~(j = i /\ dispatch_queue' = Enqueue(dispatch_queue, i))
    <3>1. dispatch_queue'[j] = dispatch_queue[j]
      BY <1>0, <1>4, <2>1, <2>3, EnqueueRows DEF Works
    <3>2. \A v \in Analyzers : HandedOn(v, j)' => HandedOn(v, j)
      BY <1>0, <1>4, <2>1, <2>3 DEF Works, HandedOn, At
    <3>3. \A d \in Dispatchers : Shutting(d, j)' <=> Shutting(d, j)
      BY <1>0, <3>1 DEF Shutting
    <3>4. QED
      BY <1>0, <1>1, <1>2, <2>1, <3>1, <3>2, <3>3 DEF Safe, Entering, Open
  <2>4. QED
    BY <2>2, <2>3
<1>5. CASE Ends(w)
  <2>1. /\ i \in Items /\ analyzer'[w] = IdleAnalyzer /\ UNCHANGED dispatch_queue
        /\ \/ At(w, "complete") /\ analyzer_queue' = Complete(analyzer_queue, i, w)
           \/ At(w, "release") /\ analyzer_queue' = Release(analyzer_queue, i, w)
           \/ At(w, "fail") /\ analyzer_queue' = Fail(analyzer_queue, i, w)
    BY <1>0, <1>5 DEF Ends, At, Fault
  <2>2. \A v \in Analyzers : HandedOn(v, j)' => HandedOn(v, j)
    BY <1>0, <2>1, SettleRows DEF HandedOn, IdleAnalyzer
  <2>3. CASE j # i \/ analyzer_queue[i].owner # w
    <3>1. analyzer_queue'[j] = analyzer_queue[j]
      BY <1>0, <2>1, <2>3, SettleRows
    <3>2. QED
      BY <1>0, <1>1, <1>2, <2>1, <2>2, <3>1
         DEF Safe, Entering, Shutting, Open, Settled, Quarantined
  <2>4. CASE j = i /\ analyzer_queue[i].owner = w
    <3>1. \A v \in Analyzers : ~HandedOn(v, j)'
      BY <1>0, <2>1, <2>4, SettleRows DEF HandedOn
    <3>2. ~Quarantined(j)
      BY <1>0, <2>4 DEF WorkInv, Leases, Quarantined
    <3>3. CASE At(w, "complete")
      <4>1. HandedOn(w, j)
        BY <2>4, <3>3 DEF HandedOn, At
      <4>2. items[j].dispatched \/ Entering(j) \/ Open(dispatch_queue[j])
        BY <1>2, <4>1 DEF Safe
      <4>3. (\E d \in Dispatchers : Shutting(d, j)) => items[j].dispatched \/ Entering(j)
        BY <1>2, <3>2, <4>1 DEF Safe, Settled
      <4>4. QED
        BY <1>0, <1>1, <2>1, <3>1, <4>2, <4>3 DEF Safe, Entering, Shutting, Open, Settled
    <3>4. CASE At(w, "release") /\ analyzer_queue' = Release(analyzer_queue, i, w)
      <4>1. Open(analyzer_queue[j])'
        BY <1>0, <2>1, <2>4, <3>4, SettleRows DEF Open
      <4>2. QED
        BY <3>1, <4>1 DEF Safe
    <3>5. CASE At(w, "fail") /\ analyzer_queue' = Fail(analyzer_queue, i, w)
      <4>1. Settled(j)'
        BY <1>0, <2>1, <2>4, <3>5 DEF Settled, Quarantined, Fail, Settle, OwnedBy
      <4>2. QED
        BY <3>1, <4>1 DEF Safe
    <3>6. QED
      BY <2>1, <3>3, <3>4, <3>5
  <2>5. QED
    BY <2>3, <2>4
<1>6. QED
  BY <1>0, <1>3, <1>4, <1>5

LEMMA DispatcherSafe ==
  ASSUME TypeOK, Busy, WorkInv, ResultBacked, SafeInv, NEW d \in Dispatchers, DispatcherActs(d)
  PROVE  SafeInv'
<1> DEFINE i == dispatcher[d].item
<1> SUFFICES ASSUME Calm', NEW j \in Items, Fresh(j)'
             PROVE  Safe(j)'
  BY DEF SafeInv
<1>0. /\ UNCHANGED <<cleared, crashes, analyzer, analyzer_queue, reader>> /\ faults = 0 /\ faults' = 0
      /\ \A c \in Dispatchers \ {d} : dispatcher'[c] = dispatcher[c]
      /\ TakesMessage(d) \/ Carries(d) \/ Drops(d)
      /\ Standing(d, "idle") \/ i \in Items
      /\ dispatch_queue \in [Items -> Row]
      /\ \A v \in Analyzers \cup Dispatchers : v # NoOwner
  BY DispatcherShape, OwnersAssumption, WorkersAssumption
     DEF Busy, Standing, TypeOK, StoreTypeOK, Calm
<1>1. /\ items'[j].present <=> items[j].present
      /\ items[j].dispatched => items'[j].dispatched
  BY DispatcherFrame
<1>2. Safe(j)
  BY <1>0, <1>1 DEF SafeInv, Calm, Fresh
<1>3. Settled(j) => Settled(j)'
  BY <1>0, <1>1 DEF Settled, Quarantined
<1>4. CASE TakesMessage(d)
  <2>1. PICK k \in Items : /\ Claimable(dispatch_queue[k])
                           /\ dispatch_queue' = Claim(dispatch_queue, k, d, DispatchCountCap)
                           /\ dispatcher'[d].pc = "claimed"
    BY <1>4 DEF TakesMessage, IsNext
  <2>2. /\ j # k => dispatch_queue'[j] = dispatch_queue[j]
        /\ j = k => Open(dispatch_queue[j])' /\ dispatch_queue'[j].owner = d
    BY <1>0, <2>1, ClaimRows DEF Open
  <2>3. \A c \in Dispatchers : Shutting(c, j)' => Shutting(c, j)
    BY <1>0, <2>1, <2>2 DEF Shutting
  <2>4. QED
    BY <1>0, <1>1, <1>2, <1>3, <2>2, <2>3 DEF Safe, Entering, HandedOn, Open
<1>5. CASE Carries(d)
  <2>1. i \in Items /\ UNCHANGED dispatch_queue
    BY <1>0, <1>5 DEF Carries
  <2>2. ASSUME NEW c \in Dispatchers, Shutting(c, j)', ~items'[j].dispatched
        PROVE  Shutting(c, j)
    <3>1. CASE c # d
      BY <1>0, <2>1, <2>2, <3>1 DEF Shutting
    <3>2. CASE c = d
      <4>1. j = i /\ ((IsAlreadyDispatched(i) /\ UNCHANGED items) \/ items' = MarkDispatched(i))
        BY <1>0, <1>5, <2>2, <3>2 DEF Carries, Shutting, Fault
      <4>2. items'[j].dispatched
        BY <1>1, <4>1, RecordEffects DEF IsAlreadyDispatched, ResultBacked, Fresh, TypeOK
      <4>3. QED
        BY <2>2, <4>2
    <3>3. QED
      BY <3>1, <3>2
  <2>3. QED
    BY <1>0, <1>1, <1>2, <1>3, <2>1, <2>2 DEF Safe, Settled, Entering, HandedOn, Open
<1>6. CASE Drops(d)
  <2>1. /\ i \in Items /\ dispatcher'[d] = IdleDispatcher
        /\ \/ Standing(d, "complete") /\ dispatch_queue' = Complete(dispatch_queue, i, d)
           \/ Standing(d, "release") /\ dispatch_queue' = Release(dispatch_queue, i, d)
    BY <1>0, <1>6 DEF Drops, Standing, Fault
  <2>2. \A c \in Dispatchers : Shutting(c, j)' => Shutting(c, j)
    BY <1>0, <2>1, SettleRows DEF Shutting, IdleDispatcher
  <2>3. CASE j # i \/ dispatch_queue[i].owner # d
    <3>1. dispatch_queue'[j] = dispatch_queue[j]
      BY <1>0, <2>1, <2>3, SettleRows
    <3>2. QED
      BY <1>0, <1>1, <1>2, <1>3, <2>2, <3>1 DEF Safe, Entering, HandedOn, Open
  <2>4. CASE j = i /\ dispatch_queue[i].owner = d
    <3>1. \A c \in Dispatchers : ~Shutting(c, j)'
      BY <1>0, <2>1, <2>4, SettleRows DEF Shutting
    <3>2. CASE Standing(d, "complete")
      <4>1. Shutting(d, j)
        BY <2>4, <3>2 DEF Shutting, Standing
      <4>2. \A w \in Analyzers : HandedOn(w, j) => ~Quarantined(j)
        BY <1>0 DEF WorkInv, Leases, HandedOn, Quarantined
      <4>3. QED
        BY <1>0, <1>1, <1>2, <1>3, <3>1, <4>1, <4>2 DEF Safe, Settled, Entering, HandedOn, Open
    <3>3. CASE dispatch_queue' = Release(dispatch_queue, i, d)
      <4>1. Open(dispatch_queue[j])'
        BY <1>0, <2>1, <2>4, <3>3, SettleRows DEF Open
      <4>2. QED
        BY <3>1, <4>1 DEF Safe
    <3>4. QED
      BY <2>1, <3>2, <3>3
  <2>5. QED
    BY <2>3, <2>4
<1>7. QED
  BY <1>0, <1>4, <1>5, <1>6

(* A row that is queued again belongs to nobody. *)
LEMMA QueuedAgain ==
  ASSUME TypeOK, NEW j \in Items, Safe(j), UNCHANGED <<analyzer, dispatcher>>,
         items[j].dispatched => items'[j].dispatched,
         \/ /\ analyzer_queue' = Enqueue(analyzer_queue, j)
            /\ UNCHANGED dispatch_queue
         \/ /\ dispatch_queue' = Enqueue(dispatch_queue, j)
            /\ UNCHANGED <<analyzer_queue>>
  PROVE  Safe(j)'
<1>0. /\ analyzer_queue \in [Items -> Row] /\ dispatch_queue \in [Items -> Row]
      /\ \A v \in Analyzers \cup Dispatchers : v # NoOwner
  BY OwnersAssumption, WorkersAssumption DEF TypeOK, StoreTypeOK
<1>1. CASE analyzer_queue' = Enqueue(analyzer_queue, j) /\ UNCHANGED dispatch_queue
  <2>1. Open(analyzer_queue[j])' /\ \A w \in Analyzers : ~HandedOn(w, j)'
    BY <1>0, <1>1, EnqueueRows DEF Open, HandedOn
  <2>2. QED
    BY <2>1 DEF Safe
<1>2. CASE dispatch_queue' = Enqueue(dispatch_queue, j) /\ UNCHANGED analyzer_queue
  <2>1. Open(dispatch_queue[j])' /\ \A d \in Dispatchers : ~Shutting(d, j)'
    BY <1>0, <1>2, EnqueueRows DEF Open, Shutting
  <2>2. QED
    BY <2>1 DEF Safe
<1>3. QED
  BY <1>1, <1>2

(* A step that leaves an item, its rows and those who hold it alone. *)
LEMMA LeftAlone ==
  ASSUME NEW j \in Items, Safe(j), UNCHANGED <<analyzer, dispatcher>>,
         items[j].dispatched => items'[j].dispatched,
         Alike(analyzer_queue'[j], analyzer_queue[j]),
         Alike(dispatch_queue'[j], dispatch_queue[j]),
         Entering(j) => Entering(j)'
  PROVE  Safe(j)'
<1>1. /\ Settled(j) => Settled(j)'
      /\ Open(analyzer_queue[j])' <=> Open(analyzer_queue[j])
      /\ Open(dispatch_queue[j])' <=> Open(dispatch_queue[j])
      /\ \A w \in Analyzers : HandedOn(w, j)' <=> HandedOn(w, j)
      /\ \A d \in Dispatchers : Shutting(d, j)' <=> Shutting(d, j)
  BY DEF Settled, Quarantined, Open, HandedOn, Shutting, Alike
<1>2. QED
  BY <1>1 DEF Safe

LEMMA ReaderSafe ==
  ASSUME TypeOK, Busy, SafeInv, ReaderActs
  PROVE  SafeInv'
<1> SUFFICES ASSUME Calm', NEW j \in Items, Fresh(j)'
             PROVE  Safe(j)'
  BY DEF SafeInv
<1>0. /\ UNCHANGED <<cleared, crashes, analyzer, dispatcher, dispatch_queue>>
      /\ reader.pc # "idle" => reader.item \in Items
      /\ items \in [Items -> Item]
      /\ analyzer_queue \in [Items -> Row] /\ faults \in Nat
      /\ reader \in [pc : ReaderPc, item : Items \cup {NoEntry}, abandoned : SUBSET Items]
  BY DEF ReaderActs, ReaderStep, ReaderWork, InsertItemIfNew, EnqueueAnalyzerJob,
         MarkRawEnqueued, MarkEnqueueFailed, Cleanup, Busy, TypeOK, StoreTypeOK, ReaderTypeOK,
         history
<1>1. faults = 0 /\ faults' = 0 /\ ~Fault
  BY <1>0, FaultGrows
     DEF ReaderActs, ReaderStep, ReaderWork, InsertItemIfNew, EnqueueAnalyzerJob,
         MarkRawEnqueued, MarkEnqueueFailed, Cleanup, NoFault, Fault, Calm
<1>2. Calm
  BY <1>0, <1>1 DEF Calm
<1>3. ASSUME NEW k \in Items, InsertItemIfNew(k) PROVE Safe(j)'
  <2>1. CASE j = k
    BY <1>3, <2>1 DEF InsertItemIfNew, Stored, Safe, Entering
  <2>2. CASE j # k
    <3>1. /\ items'[j] = items[j] /\ ~Entering(j) /\ UNCHANGED analyzer_queue
          /\ reader'.abandoned = reader.abandoned \ {k}
      BY <1>0, <1>3, <2>2 DEF InsertItemIfNew, Stored, Entering
    <3>2. Safe(j)
      BY <1>0, <1>2, <2>2, <3>1 DEF SafeInv, Fresh
    <3>3. QED
      BY <1>0, <3>1, <3>2, LeftAlone DEF Alike
  <2>3. QED
    BY <2>1, <2>2
<1>4. CASE EnqueueAnalyzerJob
  <2>1. /\ UNCHANGED items /\ reader.item \in Items
        /\ analyzer_queue' = Enqueue(analyzer_queue, reader.item)
        /\ reader'.abandoned = reader.abandoned
        /\ Safe(j)
    BY <1>0, <1>1, <1>2, <1>4 DEF EnqueueAnalyzerJob, SafeInv, Fresh
  <2>2. CASE j = reader.item
    BY <1>0, <2>1, <2>2, QueuedAgain
  <2>3. CASE j # reader.item
    BY <1>0, <2>1, <2>3, EnqueueRows, LeftAlone DEF Entering, Alike
  <2>4. QED
    BY <2>2, <2>3
<1>5. CASE MarkRawEnqueued \/ MarkEnqueueFailed
  <2>1. /\ ~Entering(j) /\ UNCHANGED analyzer_queue
        /\ reader.item \in Items /\ reader'.abandoned = reader.abandoned
        /\ UNCHANGED items \/ items' \in {MarkQueued(reader.item), MarkUnqueued(reader.item)}
    BY <1>0, <1>5 DEF MarkRawEnqueued, MarkEnqueueFailed, Entering, IdleReader
  <2>2. /\ items'[j].present <=> items[j].present
        /\ items'[j].dispatched <=> items[j].dispatched
    BY <2>1, MarkEffects DEF TypeOK
  <2>3. Safe(j)
    BY <1>0, <1>2, <2>1, <2>2 DEF SafeInv, Fresh
  <2>4. QED
    BY <1>0, <2>1, <2>2, <2>3, LeftAlone DEF Alike
<1>6. ASSUME NEW S \in SUBSET Items, Cleanup(S) PROVE Safe(j)'
  <2>1. items'[j] = items[j] /\ UNCHANGED <<reader, analyzer_queue>>
    BY <1>6 DEF Cleanup, Fresh, NoItem
  <2>2. Safe(j)
    BY <1>0, <1>2, <2>1 DEF SafeInv, Fresh
  <2>3. QED
    BY <1>0, <2>1, <2>2, LeftAlone DEF Entering, Alike
<1>7. QED
  BY <1>3, <1>4, <1>5, <1>6 DEF ReaderActs, ReaderStep, ReaderWork

LEMMA AdminSafe ==
  ASSUME TypeOK, Busy, SafeInv, AdminActs
  PROVE  SafeInv'
<1> SUFFICES ASSUME Calm', NEW j \in Items, Fresh(j)'
             PROVE  Safe(j)'
  BY DEF SafeInv
<1>0. /\ UNCHANGED <<crashes, analyzer, dispatcher, reader>>
      /\ \A a \in Admins : admin[a].pc # "idle" => admin[a].item \in Items
      /\ items \in [Items -> Item] /\ cleared \in [Items -> Nat]
      /\ analyzer_queue \in [Items -> Row] /\ dispatch_queue \in [Items -> Row] /\ faults \in Nat
  BY DEF AdminActs, AdminStep, AdminWork, RequeueRead, RequeueRaw, RequeueAnalyzed,
         ResetToNew, ResetToAnalyzed, ResetItem, HandleItemDelete, Busy, TypeOK, StoreTypeOK
<1>1. faults = 0 /\ faults' = 0 /\ ~Fault
  BY <1>0, FaultGrows
     DEF AdminActs, AdminStep, AdminWork, RequeueRead, RequeueRaw, RequeueAnalyzed,
         ResetToNew, ResetToAnalyzed, ResetItem, HandleItemDelete, NoFault, Fault, Calm
<1>2. Calm
  BY <1>0, <1>1 DEF Calm
<1>3. ASSUME NEW a \in Admins, NEW i \in Items, RequeueRead(a, i) PROVE Safe(j)'
  <2>1. Safe(j) /\ UNCHANGED <<items, analyzer_queue, dispatch_queue>>
    BY <1>0, <1>2, <1>3 DEF RequeueRead, SafeInv, Fresh, tables, history
  <2>2. QED
    BY <1>0, <2>1, LeftAlone DEF Entering, Alike
<1>4. ASSUME NEW a \in Admins, RequeueRaw(a) \/ RequeueAnalyzed(a) PROVE Safe(j)'
  <2>1. /\ Safe(j) /\ UNCHANGED items /\ admin[a].item \in Items
        /\ \/ /\ analyzer_queue' = Enqueue(analyzer_queue, admin[a].item)
              /\ UNCHANGED dispatch_queue
           \/ /\ dispatch_queue' = Enqueue(dispatch_queue, admin[a].item)
              /\ UNCHANGED analyzer_queue
    BY <1>0, <1>1, <1>2, <1>4 DEF RequeueRaw, RequeueAnalyzed, SafeInv, Fresh, history, Serving
  <2>2. CASE j = admin[a].item
    BY <1>0, <2>1, <2>2, QueuedAgain
  <2>3. CASE j # admin[a].item
    BY <1>0, <2>1, <2>3, EnqueueRows, LeftAlone DEF Entering, Alike
  <2>4. QED
    BY <2>2, <2>3
<1>5. ASSUME NEW a \in Admins, ResetToNew(a) \/ ResetToAnalyzed(a) PROVE Safe(j)'
  <2> DEFINE i == admin[a].item
  <2>1. /\ i \in Items /\ UNCHANGED <<analyzer_queue, dispatch_queue>>
        /\ items' \in {MarkNew(i), MarkAgain(i)}
        /\ cleared' = [cleared EXCEPT ![i] = @ + 1]
    BY <1>0, <1>1, <1>5 DEF ResetToNew, ResetToAnalyzed, ResetItem, Serving
  <2>2. j # i /\ cleared'[j] = cleared[j]
    BY <1>0, <2>1 DEF Fresh
  <2>3. /\ items'[j].present <=> items[j].present
        /\ items'[j].dispatched <=> items[j].dispatched
    BY <2>1, <2>2, ResetEffects DEF TypeOK
  <2>4. Safe(j)
    BY <1>0, <1>2, <2>2, <2>3 DEF SafeInv, Fresh
  <2>5. QED
    BY <1>0, <2>1, <2>3, <2>4, LeftAlone DEF Entering, Alike
<1>6. ASSUME NEW i \in Items, HandleItemDelete(i) PROVE Safe(j)'
  <2>1. /\ j # i /\ items'[j] = items[j] /\ UNCHANGED cleared
        /\ analyzer_queue' \in {analyzer_queue, DeleteRow(analyzer_queue, i)}
        /\ dispatch_queue' \in {dispatch_queue, DeleteRow(dispatch_queue, i)}
    BY <1>0, <1>6 DEF HandleItemDelete, Fresh, NoItem, history
  <2>2. /\ Alike(analyzer_queue'[j], analyzer_queue[j])
        /\ Alike(dispatch_queue'[j], dispatch_queue[j])
    BY <1>0, <2>1, DeleteRows DEF Alike
  <2>3. Safe(j)
    BY <1>0, <1>2, <2>1 DEF SafeInv, Fresh
  <2>4. QED
    BY <1>0, <2>1, <2>2, <2>3, LeftAlone DEF Entering
<1>7. QED
  BY <1>3, <1>4, <1>5, <1>6 DEF AdminActs, AdminStep, AdminWork

LEMMA LeaseSafe ==
  ASSUME TypeOK, Busy, SafeInv, NEW i \in Items, LeaseExpires(i)
  PROVE  SafeInv'
<1>1. ASSUME NEW j \in Items, Safe(j) PROVE Safe(j)'
  BY <1>1, LeaseShape, LeftAlone DEF Entering
<1>2. QED
  BY <1>1, LeaseShape DEF SafeInv, Calm, Fresh

(* A crash takes no row away from a queue; only the reader has in its hand *)
(* an entry that no queue holds yet.                                       *)
LEMMA CrashSafe ==
  ASSUME TypeOK, Busy, SafeInv, SomeoneCrashes
  PROVE  SafeInv'
<1> SUFFICES ASSUME Calm', NEW j \in Items, Fresh(j)'
             PROVE  Safe(j)'
  BY DEF SafeInv
<1>1. /\ UNCHANGED <<items, faults, cleared>>
      /\ j \notin reader.abandoned /\ (Entering(j) => Entering(j)')
  BY CrashShape DEF Fresh, Entering, ReaderFell
<1>2. Safe(j)
  BY <1>1 DEF SafeInv, Calm, Fresh
<1>3. /\ Settled(j)' <=> Settled(j)
      /\ Open(analyzer_queue[j])' <=> Open(analyzer_queue[j])
      /\ Open(dispatch_queue[j])' <=> Open(dispatch_queue[j])
  BY <1>1, CrashShape DEF Settled, Quarantined, Open
<1>4. \A w \in Analyzers : HandedOn(w, j)' => HandedOn(w, j)
  BY CrashShape DEF HandedOn
<1>5. \A d \in Dispatchers : Shutting(d, j)' => Shutting(d, j)
  BY CrashShape DEF Shutting
<1>6. QED
  BY <1>1, <1>2, <1>3, <1>4, <1>5 DEF Safe

LEMMA InitSafe == Init => SafeInv
BY DEF Init, StoreInit, NoItem, SafeInv, Fresh

LEMMA StutterSafe == ASSUME SafeInv, UNCHANGED vars PROVE SafeInv'
BY DEF SafeInv, Calm, Fresh, Safe, Settled, Quarantined, Entering, Open, HandedOn,
       Shutting, vars

LEMMA NextSafe ==
  ASSUME TypeOK, Busy, WorkInv, ResultBacked, SafeInv, [Next]_vars
  PROVE  SafeInv'
BY AnalyzerSafe, DispatcherSafe, ReaderSafe, AdminSafe, LeaseSafe, CrashSafe, StutterSafe
   DEF Next

(* Nothing is left behind, for any number of workers and requests: as long *)
(* as no statement fails, an item that is stored and that no requeue has   *)
(* reset is dispatched, quarantined, open in a queue or about to be queued *)
(* (InsertItemIfNew, enqueueAnalyzerJob, enqueueDispatchJob and the        *)
(* statements that settle a claim), whatever service dies, unless it is    *)
(* the reader with that very item in its hand.                             *)
THEOREM NothingIsStranded == Spec => []NothingStranded
<1>1. Init => SafeInv
  BY InitSafe
<1>2. TypeOK /\ Busy /\ WorkInv /\ ResultBacked /\ SafeInv /\ [Next]_vars => SafeInv'
  BY NextSafe
<1>3. SafeInv => NothingStranded
  BY DEF SafeInv, Safe, Calm, Fresh, NothingStranded
<1>4. QED
  BY <1>1, <1>2, <1>3, TypeCorrect, WorkInvariant, ResultInvariant, PTL DEF Spec

-----------------------------------------------------------------------------
(* A dispatched item stays dispatched. *)

LEMMA MarkOthers ==
  ASSUME StoreTypeOK, NEW i \in Items, NEW j \in Items, j # i,
         NEW table \in {MarkFailed(i), MarkAnalyzed(i), MarkHandedOver(i), MarkUndelivered(i),
                        MarkDispatched(i), MarkQueued(i), MarkUnqueued(i), MarkNew(i),
                        MarkAgain(i)}
  PROVE  table[j] = items[j]
BY DEF StoreTypeOK, UpdateItem, MarkFailed, MarkAnalyzed, MarkHandedOver, MarkUndelivered,
       MarkDispatched, MarkQueued, MarkUnqueued, MarkNew, MarkAgain

LEMMA MarkGuarded ==
  ASSUME StoreTypeOK, NEW i \in Items, items[i].status = "DISPATCHED",
         NEW table \in {MarkFailed(i), MarkAnalyzed(i), MarkHandedOver(i), MarkDispatched(i)}
  PROVE  table[i].status = "DISPATCHED"
<1>1. items \in [Items -> Item] /\ items[i] \in Item
  BY DEF StoreTypeOK
<1>2. QED
  BY <1>1 DEF UpdateItem, MarkFailed, MarkAnalyzed, MarkHandedOver, MarkDispatched, Item

LEMMA AnalyzerStays ==
  ASSUME TypeOK, Busy, NEW w \in Analyzers, AnalyzerActs(w), NEW j \in Items
  PROVE  ~TakenOut(j)
<1> DEFINE i == analyzer[w].item
<1>1. \/ UNCHANGED items
      \/ i \in Items /\ items' \in {MarkFailed(i), MarkAnalyzed(i), MarkHandedOver(i)}
  BY AnalyzerShape DEF Takes, Works, Ends, Busy, At
<1>2. CASE i \in Items /\ items' \in {MarkFailed(i), MarkAnalyzed(i), MarkHandedOver(i)}
  <2>1. CASE j = i
    BY <1>2, <2>1, MarkGuarded DEF TypeOK, TakenOut
  <2>2. CASE j # i
    BY <1>2, <2>2, MarkOthers DEF TypeOK, TakenOut
  <2>3. QED
    BY <2>1, <2>2
<1>3. QED
  BY <1>1, <1>2 DEF TakenOut

(* The one dispatcher has not sent what it is about to mark as failed. *)
LEMMA DispatcherStays ==
  ASSUME TypeOK, Busy, DeliveryInv, ResultBacked, OneDispatcher,
         NEW d \in Dispatchers, DispatcherActs(d), NEW j \in Items
  PROVE  ~TakenOut(j)
<1> DEFINE i == dispatcher[d].item
<1>1. \/ UNCHANGED items
      \/ /\ i \in Items /\ Standing(d, "undelivered")
         /\ items' = MarkUndelivered(i)
      \/ i \in Items /\ items' = MarkDispatched(i)
  BY DispatcherShape DEF TakesMessage, Carries, Drops, Busy, Standing
<1>2. CASE i \in Items /\ items' = MarkUndelivered(i) /\ Standing(d, "undelivered")
  <2>1. items[i].status # "DISPATCHED"
    BY <1>2 DEF DeliveryInv, UnsentInDelivery, ResultBacked, Standing
  <2>2. QED
    BY <1>2, <2>1, MarkOthers DEF TypeOK, TakenOut
<1>3. CASE i \in Items /\ items' = MarkDispatched(i)
  <2>1. CASE j = i
    BY <1>3, <2>1, MarkGuarded DEF TypeOK, TakenOut
  <2>2. CASE j # i
    BY <1>3, <2>2, MarkOthers DEF TypeOK, TakenOut
  <2>3. QED
    BY <2>1, <2>2
<1>4. QED
  BY <1>1, <1>2, <1>3 DEF TakenOut

LEMMA ReaderStamps ==
  ASSUME TypeOK, Busy, DeliveryInv, ResultBacked, OneDispatcher, ReaderActs,
         NEW j \in Items, TakenOut(j)
  PROVE  reader.item = j /\ reader'.item # j
<1>1. ASSUME NEW k \in Items, InsertItemIfNew(k) PROVE FALSE
  <2>1. items[k].status # "DISPATCHED"
    BY <1>1 DEF InsertItemIfNew, DeliveryInv, UnsentInDelivery, ResultBacked
  <2>2. QED
    BY <1>1, <2>1 DEF InsertItemIfNew, TakenOut, TypeOK, StoreTypeOK
<1>2. CASE ReaderWork
  <2>1. /\ reader.item \in Items /\ reader'.item = NoEntry
        /\ items' \in {MarkQueued(reader.item), MarkUnqueued(reader.item)}
    BY <1>2 DEF ReaderWork, EnqueueAnalyzerJob, MarkRawEnqueued, MarkEnqueueFailed, Busy, TakenOut,
                IdleReader, TypeOK, ReaderTypeOK
  <2>2. reader.item = j
    BY <2>1, MarkOthers DEF TypeOK, TakenOut
  <2>3. QED
    BY <2>1, <2>2, OwnersAssumption DEF NoEntry
<1>3. ASSUME NEW S \in SUBSET Items, Cleanup(S) PROVE FALSE
  BY <1>3 DEF Cleanup, NoItem, TakenOut
<1>4. QED
  BY <1>1, <1>2, <1>3 DEF ReaderActs, ReaderStep

LEMMA AdminResets ==
  ASSUME TypeOK, Busy, AdminActs, NEW j \in Items, TakenOut(j)
  PROVE  \E a \in Admins : admin[a].item = j /\ admin'[a].item # j
<1>1. ASSUME NEW a \in Admins, AdminWork(a)
      PROVE  admin[a].item = j /\ admin'[a].item # j
  <2>1. /\ admin[a].item \in Items /\ admin' = [admin EXCEPT ![a] = IdleAdmin]
        /\ items' \in {MarkNew(admin[a].item), MarkAgain(admin[a].item)}
    BY <1>1 DEF AdminWork, RequeueRaw, RequeueAnalyzed, ResetToNew, ResetToAnalyzed, ResetItem,
                Answer, Serving, Busy, TakenOut
  <2>2. admin[a].item = j
    BY <2>1, MarkOthers DEF TypeOK, TakenOut
  <2>3. admin'[a] = IdleAdmin
    BY <2>1 DEF TypeOK, AdminTypeOK
  <2>4. QED
    BY <2>2, <2>3, OwnersAssumption DEF IdleAdmin, NoRequest
<1>2. ASSUME NEW i \in Items, HandleItemDelete(i) PROVE FALSE
  BY <1>2 DEF HandleItemDelete, NoItem, TakenOut, TypeOK, StoreTypeOK
<1>3. ASSUME NEW a \in Admins, NEW i \in Items, RequeueRead(a, i) PROVE FALSE
  BY <1>3 DEF RequeueRead, tables, TakenOut
<1>4. QED
  BY <1>1, <1>2, <1>3 DEF AdminActs, AdminStep

(* With one dispatcher nothing but a requeue, a removal or the reader's    *)
(* late stamp takes an item out of DISPATCHED, for any number of analyzers *)
(* and whatever fails (markItemAnalyzed and markItemStatus of both         *)
(* workers, and the duplicate check before a delivery).                    *)
THEOREM DispatchedItemsStay == Spec => DispatchedStays
<1>1. ASSUME TypeOK, Busy, DeliveryInv, ResultBacked, Next, OneDispatcher,
             NEW j \in Items, TakenOut(j)
      PROVE  \/ reader.item = j /\ reader'.item # j
             \/ \E a \in Admins : admin[a].item = j /\ admin'[a].item # j
  <2>1. \A i \in Items : ~LeaseExpires(i)
    BY <1>1, LeaseShape DEF TakenOut
  <2>2. ~SomeoneCrashes
    BY <1>1, CrashShape DEF TakenOut
  <2>3. QED
    BY <1>1, <2>1, <2>2, AnalyzerStays, DispatcherStays, ReaderStamps, AdminResets DEF Next
<1>2. TypeOK /\ Busy /\ DeliveryInv /\ ResultBacked /\ [Next]_vars =>
        [\A i \in Items :
           (OneDispatcher /\ TakenOut(i))
             => \/ reader.item = i /\ reader'.item # i
                \/ \E a \in Admins : admin[a].item = i /\ admin'[a].item # i]_vars
  BY <1>1
<1>3. QED
  BY <1>2, TypeCorrect, DeliveryInvariant, ResultInvariant, PTL DEF Spec, DispatchedStays

-----------------------------------------------------------------------------
(* What a quarantine takes away. *)

(* The one analyzer is not quarantining a job that is closed, and has no   *)
(* stored result for a job that it is still asking about.                  *)
QuarantineInv ==
  (OneAnalyzer /\ faults = 0 /\ removals = 0) =>
    /\ \A w \in Analyzers :
         /\ analyzer[w].pc # "idle" => analyzer_queue[analyzer[w].item].state # "DONE"
         /\ analyzer[w].pc \in Unanswered => ~items[analyzer[w].item].analyzed
    /\ \A i \in Items : Quarantined(i) => ~items[i].analyzed

LEMMA MarkPayload ==
  ASSUME StoreTypeOK, NEW i \in Items, NEW j \in Items,
         NEW table \in {MarkFailed(i), MarkHandedOver(i), MarkUndelivered(i), MarkDispatched(i),
                        MarkQueued(i), MarkUnqueued(i), MarkNew(i), MarkAgain(i)}
  PROVE  table[j].analyzed => items[j].analyzed
<1>1. items \in [Items -> Item] /\ items[i] \in Item
  BY DEF StoreTypeOK
<1>2. CASE j = i
  BY <1>1, <1>2 DEF UpdateItem, MarkFailed, MarkHandedOver, MarkUndelivered, MarkDispatched,
                    MarkQueued, MarkUnqueued, MarkNew, MarkAgain, Item
<1>3. CASE j # i
  BY <1>3, MarkOthers
<1>4. QED
  BY <1>2, <1>3

(* A step that stores no result, closes no job and gives no worker one. *)
LEMMA QuarantineStep ==
  ASSUME TypeOK, TypeOK', Busy, QuarantineInv, faults' >= faults, removals' >= removals,
         \A w \in Analyzers : analyzer'[w] \in {analyzer[w], IdleAnalyzer},
         (removals' = 0) =>
           \A j \in Items :
             /\ items'[j].analyzed => items[j].analyzed
             /\ analyzer_queue'[j].state = "DONE" => analyzer_queue[j].state = "DONE"
             /\ analyzer_queue'[j].failed => analyzer_queue[j].failed
  PROVE  QuarantineInv'
<1> SUFFICES ASSUME OneAnalyzer, faults' = 0, removals' = 0
             PROVE  QuarantineInv!2'
  BY DEF QuarantineInv, OneAnalyzer
<1>1. faults = 0 /\ removals = 0
  BY DEF TypeOK, StoreTypeOK
<1>2. QuarantineInv!2
  BY <1>1 DEF QuarantineInv
<1>3. ASSUME NEW w \in Analyzers, analyzer'[w].pc # "idle"
      PROVE  analyzer'[w] = analyzer[w] /\ analyzer[w].item \in Items
  BY <1>3 DEF IdleAnalyzer, Busy
<1>4. QED
  BY <1>2, <1>3 DEF Unanswered, Quarantined

LEMMA AnalyzerQuarantine ==
  ASSUME TypeOK, Busy, QuarantineInv, NEW w \in Analyzers, AnalyzerActs(w)
  PROVE  QuarantineInv'
<1> DEFINE i == analyzer[w].item
<1> SUFFICES ASSUME OneAnalyzer, faults' = 0, removals' = 0
             PROVE  QuarantineInv!2'
  BY DEF QuarantineInv, OneAnalyzer
<1>0. /\ faults = 0 /\ removals = 0 /\ ~Fault
      /\ Takes(w) \/ Works(w) \/ Ends(w)
      /\ \A v \in Analyzers : v = w
      /\ At(w, "idle") \/ i \in Items
      /\ StoreTypeOK
      /\ analyzer_queue \in [Items -> Row]
      /\ w # NoOwner
  BY AnalyzerShape, OwnersAssumption, WorkersAssumption
     DEF Busy, At, TypeOK, StoreTypeOK, OneAnalyzer, Fault
<1>1. QuarantineInv!2
  BY <1>0 DEF QuarantineInv
<1>2. CASE Takes(w)
  <2>1. PICK k \in Items : /\ analyzer_queue' = Claim(analyzer_queue, k, w, RawCountCap)
                           /\ analyzer'[w].item = k /\ analyzer'[w].pc = "claimed"
                           /\ UNCHANGED items
    BY <1>2 DEF Takes
  <2>2. /\ \A j \in Items \ {k} : analyzer_queue'[j] = analyzer_queue[j]
        /\ analyzer_queue'[k].state = "LEASED"
    BY <1>0, <2>1, ClaimRows
  <2>3. QED
    BY <1>0, <1>1, <2>1, <2>2 DEF Unanswered, Quarantined
<1>3. CASE Works(w)
  <2>1. /\ i \in Items /\ analyzer'[w].item = i /\ UNCHANGED analyzer_queue
        /\ analyzer_queue[i].state # "DONE"
    BY <1>0, <1>1, <1>3 DEF Works, At
  <2>2. CASE items' = MarkAnalyzed(i) /\ analyzer'[w].pc = "handOver"
    <3>1. \A j \in Items \ {i} : items'[j] = items[j]
      BY <1>0, <2>1, <2>2, MarkOthers
    <3>2. QED
      BY <1>0, <1>1, <2>1, <2>2, <3>1 DEF Unanswered, Quarantined
  <2>3. CASE UNCHANGED items \/ items' \in {MarkFailed(i), MarkHandedOver(i)}
    <3>1. \A j \in Items : items'[j].analyzed => items[j].analyzed
      <4>1. CASE items' \in {MarkFailed(i), MarkHandedOver(i)}
        <5>1. items' \in {MarkFailed(i), MarkHandedOver(i), MarkUndelivered(i),
                          MarkDispatched(i), MarkQueued(i), MarkUnqueued(i), MarkNew(i),
                          MarkAgain(i)}
          BY <4>1
        <5>2. QED
          BY <1>0, <2>1, <5>1, MarkPayload
      <4>2. QED
        BY <2>3, <4>1
    <3>2. analyzer'[w].pc \in Unanswered => ~items[i].analyzed
      BY <1>0, <1>1, <1>3 DEF Works
    <3>3. QED
      BY <1>0, <1>1, <2>1, <3>1, <3>2 DEF Quarantined
  <2>4. QED
    BY <1>3, <2>2, <2>3 DEF Works
<1>4. CASE Ends(w)
  <2>1. i \in Items /\ analyzer'[w].pc = "idle" /\ UNCHANGED items
    BY <1>0, <1>4 DEF Ends, At, IdleAnalyzer
  <2>2. ASSUME NEW j \in Items, Quarantined(j)'
        PROVE  Quarantined(j) \/ (j = i /\ At(w, "fail"))
    <3>1. CASE At(w, "complete") /\ analyzer_queue' = Complete(analyzer_queue, i, w)
      BY <1>0, <2>1, <2>2, <3>1, SettleRows DEF Quarantined
    <3>2. CASE At(w, "release") /\ analyzer_queue' = Release(analyzer_queue, i, w)
      BY <1>0, <2>1, <2>2, <3>2, SettleRows DEF Quarantined
    <3>3. CASE At(w, "fail") /\ analyzer_queue' = Fail(analyzer_queue, i, w)
      BY <1>0, <2>1, <2>2, <3>3, SettleRows DEF Quarantined
    <3>4. QED
      BY <1>0, <1>4, <3>1, <3>2, <3>3 DEF Ends
  <2>3. At(w, "fail") => ~items[i].analyzed
    BY <1>1 DEF At, Unanswered
  <2>4. QED
    BY <1>0, <1>1, <2>1, <2>2, <2>3 DEF Unanswered
<1>5. QED
  BY <1>0, <1>2, <1>3, <1>4

LEMMA DispatcherQuarantine ==
  ASSUME TypeOK, Busy, QuarantineInv, NEW d \in Dispatchers, DispatcherActs(d)
  PROVE  QuarantineInv'
<1> DEFINE i == dispatcher[d].item
<1>1. /\ TypeOK' /\ UNCHANGED <<analyzer, analyzer_queue, removals>> /\ faults' >= faults
      /\ removals' >= removals
      /\ \/ UNCHANGED items
         \/ i \in Items /\ items' \in {MarkUndelivered(i), MarkDispatched(i)}
  BY DispatcherShape DEF TakesMessage, Carries, Drops, Busy, Standing, TypeOK, StoreTypeOK
<1>2. \A j \in Items : items'[j].analyzed => items[j].analyzed
  <2>1. CASE i \in Items /\ items' \in {MarkUndelivered(i), MarkDispatched(i)}
    <3>1. items' \in {MarkFailed(i), MarkHandedOver(i), MarkUndelivered(i), MarkDispatched(i),
                      MarkQueued(i), MarkUnqueued(i), MarkNew(i), MarkAgain(i)}
      BY <2>1
    <3>2. QED
      BY <2>1, <3>1, MarkPayload DEF TypeOK
  <2>2. QED
    BY <1>1, <2>1
<1>3. QED
  BY <1>1, <1>2, QuarantineStep

LEMMA ReaderQuarantine ==
  ASSUME TypeOK, Busy, QuarantineInv, ReaderActs
  PROVE  QuarantineInv'
<1> DEFINE i == reader.item
<1>1. /\ TypeOK' /\ UNCHANGED analyzer
      /\ removals \in Nat
      /\ analyzer_queue \in [Items -> Row]
      /\ reader.pc # "idle" => reader.item \in Items
  BY ReaderType DEF ReaderActs, Busy, TypeOK, StoreTypeOK
<1>2. faults' >= faults
  BY FaultGrows
     DEF ReaderActs, ReaderStep, ReaderWork, InsertItemIfNew, EnqueueAnalyzerJob,
         MarkRawEnqueued, MarkEnqueueFailed, Cleanup, NoFault
<1>3. removals' >= removals
  BY <1>1 DEF ReaderActs, ReaderStep, ReaderWork, InsertItemIfNew, EnqueueAnalyzerJob,
              MarkRawEnqueued, MarkEnqueueFailed, Cleanup
<1>4. ASSUME NEW j \in Items
      PROVE  /\ analyzer_queue'[j].state = "DONE" => analyzer_queue[j].state = "DONE"
             /\ analyzer_queue'[j].failed => analyzer_queue[j].failed
  <2>1. \/ UNCHANGED analyzer_queue
        \/ i \in Items /\ analyzer_queue' = Enqueue(analyzer_queue, i)
    BY <1>1
       DEF ReaderActs, ReaderStep, ReaderWork, InsertItemIfNew, EnqueueAnalyzerJob,
           MarkRawEnqueued, MarkEnqueueFailed, Cleanup
  <2>2. QED
    BY <1>1, <2>1, EnqueueRows
<1>5. ASSUME NEW j \in Items, items'[j].analyzed PROVE items[j].analyzed
  <2>1. \/ items'[j] \in {items[j], NoItem, NewItem}
        \/ i \in Items /\ items' \in {MarkQueued(i), MarkUnqueued(i)}
    BY <1>1
       DEF ReaderActs, ReaderStep, ReaderWork, InsertItemIfNew, EnqueueAnalyzerJob,
           MarkRawEnqueued, MarkEnqueueFailed, Cleanup, TypeOK, StoreTypeOK
  <2>2. CASE items'[j] \in {items[j], NoItem, NewItem}
    BY <1>5, <2>2 DEF NoItem, NewItem
  <2>3. CASE i \in Items /\ items' \in {MarkQueued(i), MarkUnqueued(i)}
    <3>1. items' \in {MarkFailed(i), MarkHandedOver(i), MarkUndelivered(i), MarkDispatched(i),
                      MarkQueued(i), MarkUnqueued(i), MarkNew(i), MarkAgain(i)}
      BY <2>3
    <3>2. QED
      BY <1>5, <2>3, <3>1, MarkPayload DEF TypeOK
  <2>4. QED
    BY <2>1, <2>2, <2>3
<1>6. QED
  BY <1>1, <1>2, <1>3, <1>4, <1>5, QuarantineStep

LEMMA AdminQuarantine ==
  ASSUME TypeOK, Busy, QuarantineInv, AdminActs
  PROVE  QuarantineInv'
<1>1. /\ TypeOK' /\ UNCHANGED analyzer
      /\ removals \in Nat
      /\ analyzer_queue \in [Items -> Row]
      /\ \A a \in Admins : admin[a].pc # "idle" => admin[a].item \in Items
  BY AdminType DEF AdminActs, Busy, TypeOK, StoreTypeOK
<1>2. faults' >= faults
  BY FaultGrows
     DEF AdminActs, AdminStep, AdminWork, RequeueRead, RequeueRaw, RequeueAnalyzed,
         ResetToNew, ResetToAnalyzed, ResetItem, HandleItemDelete, NoFault
<1>3. /\ removals' >= removals
      /\ (\E i \in Items : HandleItemDelete(i)) => removals' # 0
  BY <1>1 DEF AdminActs, AdminStep, AdminWork, RequeueRead, RequeueRaw, RequeueAnalyzed,
              ResetToNew, ResetToAnalyzed, ResetItem, HandleItemDelete
<1>4. ASSUME NEW j \in Items, removals' = 0
      PROVE  /\ analyzer_queue'[j].state = "DONE" => analyzer_queue[j].state = "DONE"
             /\ analyzer_queue'[j].failed => analyzer_queue[j].failed
  <2>1. \/ UNCHANGED analyzer_queue
        \/ \E i \in Items : analyzer_queue' = Enqueue(analyzer_queue, i)
    BY <1>1, <1>3, <1>4
       DEF AdminActs, AdminStep, AdminWork, RequeueRead, RequeueRaw, RequeueAnalyzed,
           ResetToNew, ResetToAnalyzed, ResetItem, tables, Serving
  <2>2. QED
    BY <1>1, <2>1, EnqueueRows
<1>5. ASSUME NEW j \in Items, removals' = 0, items'[j].analyzed PROVE items[j].analyzed
  <2>1. \/ UNCHANGED items
        \/ \E i \in Items : items' \in {MarkNew(i), MarkAgain(i)}
    BY <1>1, <1>3, <1>5
       DEF AdminActs, AdminStep, AdminWork, RequeueRead, RequeueRaw, RequeueAnalyzed,
           ResetToNew, ResetToAnalyzed, ResetItem, tables, Serving
  <2>2. ASSUME NEW i \in Items, items' \in {MarkNew(i), MarkAgain(i)}
        PROVE  items[j].analyzed
    <3>1. items' \in {MarkFailed(i), MarkHandedOver(i), MarkUndelivered(i), MarkDispatched(i),
                      MarkQueued(i), MarkUnqueued(i), MarkNew(i), MarkAgain(i)}
      BY <2>2
    <3>2. QED
      BY <1>5, <3>1, MarkPayload DEF TypeOK
  <2>3. QED
    BY <1>5, <2>1, <2>2
<1>6. QED
  BY <1>1, <1>2, <1>3, <1>4, <1>5, QuarantineStep

LEMMA TimeQuarantine ==
  ASSUME TypeOK, Busy, QuarantineInv, SomeoneCrashes \/ \E i \in Items : LeaseExpires(i)
  PROVE  QuarantineInv'
<1>1. CASE SomeoneCrashes
  <2>1. faults' >= faults /\ removals' >= removals
    BY <1>1, CrashShape DEF TypeOK, StoreTypeOK
  <2>2. QED
    BY <1>1, <2>1, CrashShape, QuarantineStep
<1>2. ASSUME NEW i \in Items, LeaseExpires(i) PROVE QuarantineInv'
  <2>1. faults' >= faults /\ removals' >= removals
    BY <1>2, LeaseShape DEF TypeOK, StoreTypeOK
  <2>2. QED
    BY <1>2, <2>1, LeaseShape, QuarantineStep DEF Alike
<1>3. QED
  BY <1>1, <1>2

LEMMA InitQuarantine == Init => QuarantineInv
BY DEF Init, StoreInit, EmptyQueue, NoRow, NoItem, AnalyzerInit, IdleAnalyzer, QuarantineInv,
       Unanswered, Quarantined

LEMMA StutterQuarantine == ASSUME QuarantineInv, UNCHANGED vars PROVE QuarantineInv'
BY DEF QuarantineInv, OneAnalyzer, Quarantined, vars

(* With one analyzer and while no statement fails and nothing is removed,  *)
(* a quarantined job has no stored result and no row in dispatch_queue,    *)
(* whatever leases run out, whoever crashes and whatever is queued again   *)
(* (the lookup of a stored result before the LLM is asked, isPoison and    *)
(* failClaim).                                                             *)
THEOREM QuarantineIsHarmless == Spec => []QuarantineLosesNothing
<1>1. Init => QuarantineInv
  BY InitQuarantine
<1>2. TypeOK /\ Busy /\ QuarantineInv /\ [Next]_vars => QuarantineInv'
  BY AnalyzerQuarantine, DispatcherQuarantine, ReaderQuarantine, AdminQuarantine,
     TimeQuarantine, StutterQuarantine DEF Next
<1>3. QuarantineInv /\ ResultBacked => QuarantineLosesNothing
  BY DEF QuarantineInv, ResultBacked, OnItsWay, QuarantineLosesNothing
<1>4. QED
  BY <1>1, <1>2, <1>3, TypeCorrect, ResultInvariant, PTL DEF Spec

-----------------------------------------------------------------------------
(* How often a job is delivered. *)

(* What may still add to the count of job i: requests and the reader about *)
(* to queue it, and the job itself when it is there for the taking.        *)
Wanting(i)  == {a \in Admins : admin[a].pc = "queueRaw" /\ admin[a].item = i}
Arriving(i) == IF Entering(i) THEN 1 ELSE 0
WorkedOn(i) == \E w \in Analyzers : analyzer_queue[i].owner = w /\ analyzer[w].item = i
Ready(i)    == IF \/ analyzer_queue[i].state = "QUEUED"
                  \/ analyzer_queue[i].state = "LEASED" /\ ~WorkedOn(i)
               THEN 1 ELSE 0
Known(i)    == IF analyzer_queue[i].state = "ABSENT" THEN 0 ELSE 1

Weight(i) == analyzer_queue[i].count + Ready(i)
Coming(i) == Cardinality(Wanting(i)) + Arriving(i)
Load(i)   == Weight(i) + Coming(i)
Granted   == MaxDeliveryAttempts + requeues
Spent     == crashes + faults
Allowed   == Granted + Spent

Releasing(w, i) == At(w, "release") /\ analyzer[w].item = i /\ analyzer_queue[i].owner = w

(* The load of a job stays within what is allowed, and below it while its  *)
(* owner is about to give it back; only a requeue queues a known job.      *)
Counted(i) ==
  /\ IsFiniteSet(Wanting(i))
  /\ Load(i) <= Allowed
  /\ Coming(i) + Known(i) <= 1 + requeues
  /\ analyzer_queue[i].state = "ABSENT" => analyzer_queue[i].count = 0
  /\ \A w \in Analyzers : Releasing(w, i) => Load(i) < Allowed

LoadInv == (OneAnalyzer /\ removals = 0) => \A i \in Items : Counted(i)

LEMMA Sums == \A a, b \in Nat : a + b \in Nat
OBVIOUS

LEMMA SumsGrow == \A a, b, c, d \in Nat : a <= c /\ b <= d => a + b <= c + d
OBVIOUS

LEMMA LoadNumbers ==
  ASSUME TypeOK, TypeOK', NEW i \in Items, IsFiniteSet(Wanting(i)), IsFiniteSet(Wanting(i)')
  PROVE  /\ analyzer_queue[i].count \in Nat /\ analyzer_queue'[i].count \in Nat
         /\ Ready(i) \in {0, 1} /\ Ready(i)' \in {0, 1}
         /\ Arriving(i) \in {0, 1} /\ Arriving(i)' \in {0, 1}
         /\ Known(i) \in {0, 1} /\ Known(i)' \in {0, 1}
         /\ Cardinality(Wanting(i)) \in Nat /\ Cardinality(Wanting(i)') \in Nat
         /\ requeues \in Nat /\ crashes \in Nat /\ faults \in Nat
         /\ requeues' \in Nat /\ crashes' \in Nat /\ faults' \in Nat
         /\ MaxDeliveryAttempts \in Nat \ {0}
         /\ Weight(i) \in Nat /\ Weight(i)' \in Nat /\ Coming(i) \in Nat /\ Coming(i)' \in Nat
         /\ Load(i) \in Nat /\ Load(i)' \in Nat
         /\ Granted \in Nat /\ Granted' \in Nat /\ Spent \in Nat /\ Spent' \in Nat
         /\ Allowed \in Nat /\ Allowed' \in Nat
<1>1. /\ requeues \in Nat /\ crashes \in Nat /\ faults \in Nat
      /\ requeues' \in Nat /\ crashes' \in Nat /\ faults' \in Nat
      /\ analyzer_queue[i].count \in Nat /\ analyzer_queue'[i].count \in Nat
      /\ MaxDeliveryAttempts \in Nat \ {0}
  BY AnalyzerAssumption DEF TypeOK, StoreTypeOK, AdminTypeOK, Row
<1>2. /\ Ready(i) \in {0, 1} /\ Ready(i)' \in {0, 1}
      /\ Arriving(i) \in {0, 1} /\ Arriving(i)' \in {0, 1}
      /\ Known(i) \in {0, 1} /\ Known(i)' \in {0, 1}
  BY DEF Ready, Arriving, Known
<1>3. Cardinality(Wanting(i)) \in Nat /\ Cardinality(Wanting(i)') \in Nat
  BY FS_CardinalityType
<1>4. /\ Weight(i) \in Nat /\ Weight(i)' \in Nat /\ Coming(i) \in Nat /\ Coming(i)' \in Nat
      /\ Granted \in Nat /\ Granted' \in Nat /\ Spent \in Nat /\ Spent' \in Nat
  BY <1>1, <1>2, <1>3, Sums DEF Weight, Coming, Granted, Spent
<1>5. /\ Load(i) \in Nat /\ Load(i)' \in Nat
      /\ Allowed \in Nat /\ Allowed' \in Nat
  BY <1>4, Sums DEF Load, Allowed
<1>6. QED
  BY <1>1, <1>2, <1>3, <1>4, <1>5

(* What is enough for a job to stay accounted for. *)
LEMMA CountedAgain ==
  ASSUME TypeOK, TypeOK', NEW j \in Items, Counted(j), IsFiniteSet(Wanting(j)'),
         Coming(j)' + Known(j)' + requeues <= Coming(j) + Known(j) + requeues',
         analyzer_queue'[j].state = "ABSENT" => analyzer_queue'[j].count = 0,
         \/ Load(j)' + Allowed <= Load(j) + Allowed'
         \/ Load(j)' <= Load(j) + 1 /\ Load(j) < Allowed /\ Allowed <= Allowed',
         \A w \in Analyzers : Releasing(w, j)' =>
           \/ Load(j)' + Allowed < Load(j) + Allowed'
           \/ Load(j)' + Allowed <= Load(j) + Allowed' /\ Load(j) < Allowed
  PROVE  Counted(j)'
<1>1. /\ IsFiniteSet(Wanting(j)) /\ Load(j) <= Allowed
      /\ Coming(j) + Known(j) <= 1 + requeues
  BY DEF Counted
<1>2. /\ Coming(j) \in Nat /\ Coming(j)' \in Nat
      /\ Known(j) \in {0, 1} /\ Known(j)' \in {0, 1}
      /\ requeues \in Nat /\ requeues' \in Nat
      /\ Load(j) \in Nat /\ Load(j)' \in Nat /\ Allowed \in Nat /\ Allowed' \in Nat
  BY <1>1, LoadNumbers
<1>3. Load(j)' <= Allowed'
  <2>1. \A a, b, c, d \in Nat :
          (b <= d /\ (a + d <= b + c \/ (a <= b + 1 /\ b < d /\ d <= c))) => a <= c
    OBVIOUS
  <2>2. QED
    BY <1>1, <1>2, <2>1
<1>4. Coming(j)' + Known(j)' <= 1 + requeues'
  <2>1. \A a, b, c, d, e, f \in Nat :
          (a + b + c <= d + e + f /\ d + e <= 1 + c) => a + b <= 1 + f
    OBVIOUS
  <2>2. QED
    BY <1>1, <1>2, <2>1
<1>5. \A w \in Analyzers : Releasing(w, j)' => Load(j)' < Allowed'
  <2>1. \A a, b, c, d \in Nat :
          (b <= d /\ (a + d < b + c \/ (a + d <= b + c /\ b < d))) => a < c
    OBVIOUS
  <2>2. QED
    BY <1>1, <1>2, <2>1
<1>6. QED
  BY <1>3, <1>4, <1>5 DEF Counted

(* A step that requeues nothing and queues no job for the first time. *)
LEMMA CountedStep ==
  ASSUME TypeOK, TypeOK', NEW j \in Items, Counted(j),
         Wanting(j)' \subseteq Wanting(j), Arriving(j)' <= Arriving(j),
         analyzer_queue'[j].state = "ABSENT" <=> analyzer_queue[j].state = "ABSENT",
         analyzer_queue[j].state = "ABSENT" => analyzer_queue'[j].count = analyzer_queue[j].count,
         requeues' = requeues, Spent <= Spent',
         \/ Weight(j)' <= Weight(j)
         \/ Weight(j)' <= Weight(j) + 1 /\ (Spent < Spent' \/ Load(j) < Allowed),
         \A w \in Analyzers : Releasing(w, j)' =>
           \/ Weight(j)' <= Weight(j) /\ (Spent < Spent' \/ Load(j) < Allowed)
           \/ Weight(j)' <= Weight(j) + 1 /\ Spent < Spent' /\ Load(j) < Allowed
  PROVE  Counted(j)'
<1>1. /\ IsFiniteSet(Wanting(j)) /\ IsFiniteSet(Wanting(j)')
      /\ Cardinality(Wanting(j)') <= Cardinality(Wanting(j))
  BY FS_Subset DEF Counted
<1>2. /\ Cardinality(Wanting(j)) \in Nat /\ Cardinality(Wanting(j)') \in Nat
      /\ Arriving(j) \in {0, 1} /\ Arriving(j)' \in {0, 1} /\ Known(j) \in {0, 1}
      /\ Weight(j) \in Nat /\ Weight(j)' \in Nat /\ Coming(j) \in Nat /\ Coming(j)' \in Nat
      /\ Granted \in Nat /\ Spent \in Nat /\ Spent' \in Nat /\ requeues \in Nat
  BY <1>1, LoadNumbers
<1>3. Known(j)' = Known(j) /\ Granted' = Granted
  BY DEF Known, Granted
<1>4. Coming(j)' <= Coming(j)
  BY <1>1, <1>2, SumsGrow DEF Coming
<1>5. /\ Load(j) = Weight(j) + Coming(j) /\ Load(j)' = Weight(j)' + Coming(j)'
      /\ Allowed = Granted + Spent /\ Allowed' = Granted + Spent'
  BY <1>3 DEF Load, Allowed
<1>6. Coming(j)' + Known(j)' + requeues <= Coming(j) + Known(j) + requeues'
  <2>1. \A a, b, c, d \in Nat : a <= b => a + c + d <= b + c + d
    OBVIOUS
  <2>2. QED
    BY <1>2, <1>3, <1>4, <2>1
<1>7. /\ Weight(j)' <= Weight(j) => Load(j)' + Allowed <= Load(j) + Allowed'
      /\ Weight(j)' <= Weight(j) /\ Spent < Spent' => Load(j)' + Allowed < Load(j) + Allowed'
      /\ Weight(j)' <= Weight(j) + 1 /\ Spent < Spent'
           => Load(j)' + Allowed <= Load(j) + Allowed'
  <2>1. \A a, b, c, d, e, f, g \in Nat :
          (e <= f /\ b <= d) =>
            /\ a <= c => (a + e) + (g + b) <= (c + f) + (g + d)
            /\ a <= c /\ b < d => (a + e) + (g + b) < (c + f) + (g + d)
            /\ a <= c + 1 /\ b < d => (a + e) + (g + b) <= (c + f) + (g + d)
    OBVIOUS
  <2>2. QED
    BY <1>2, <1>4, <1>5, <2>1
<1>8. Weight(j)' <= Weight(j) + 1 => Load(j)' <= Load(j) + 1
  <2>1. \A a, b, c, d \in Nat : (a <= b + 1 /\ c <= d) => a + c <= (b + d) + 1
    OBVIOUS
  <2>2. QED
    BY <1>2, <1>4, <1>5, <2>1
<1>9. Allowed <= Allowed'
  <2>1. \A a, b, c \in Nat : b <= c => a + b <= a + c
    OBVIOUS
  <2>2. QED
    BY <1>2, <1>5, <2>1
<1>10. analyzer_queue'[j].state = "ABSENT" => analyzer_queue'[j].count = 0
  BY DEF Counted
<1>11. QED
  BY <1>1, <1>6, <1>7, <1>8, <1>9, <1>10, CountedAgain

LEMMA SpentGrows ==
  ASSUME TypeOK, TypeOK', crashes <= crashes', faults <= faults'
  PROVE  /\ Spent <= Spent'
         /\ crashes < crashes' \/ faults < faults' => Spent < Spent'
<1>1. /\ crashes \in Nat /\ faults \in Nat /\ crashes' \in Nat /\ faults' \in Nat
  BY DEF TypeOK, StoreTypeOK
<1>2. /\ \A a, b, c, d \in Nat : a < c /\ b <= d => a + b < c + d
      /\ \A a, b, c, d \in Nat : a <= c /\ b < d => a + b < c + d
  OBVIOUS
<1>3. Spent = crashes + faults /\ Spent' = crashes' + faults'
  BY DEF Spent
<1>4. crashes + faults <= crashes' + faults'
  BY <1>1, SumsGrow
<1>5. crashes < crashes' \/ faults < faults' => crashes + faults < crashes' + faults'
  BY <1>1, <1>2
<1>6. QED
  BY <1>3, <1>4, <1>5

LEMMA WeightGrows ==
  ASSUME TypeOK, TypeOK', NEW j \in Items
  PROVE  /\ (analyzer_queue'[j].count = analyzer_queue[j].count /\ Ready(j)' = Ready(j))
               => Weight(j)' <= Weight(j)
         /\ (analyzer_queue'[j].count = analyzer_queue[j].count /\ Ready(j)' = 0)
               => Weight(j)' <= Weight(j)
         /\ analyzer_queue'[j].count = analyzer_queue[j].count
               => Weight(j)' <= Weight(j) + 1
         /\ (/\ analyzer_queue'[j].count \in {analyzer_queue[j].count, analyzer_queue[j].count + 1}
             /\ Ready(j) = 1 /\ Ready(j)' = 0)
               => Weight(j)' <= Weight(j)
<1>1. /\ analyzer_queue[j].count \in Nat /\ analyzer_queue'[j].count \in Nat
      /\ Ready(j) \in 0..1 /\ Ready(j)' \in 0..1
  BY DEF TypeOK, StoreTypeOK, Row, Ready
<1>2. \A c, d \in Nat, r, t \in 0..1 :
        /\ d = c /\ t = r => d + t <= c + r
        /\ d = c /\ t = 0 => d + t <= c + r
        /\ d = c => d + t <= c + r + 1
        /\ d \in {c, c + 1} /\ r = 1 /\ t = 0 => d + t <= c + r
  OBVIOUS
<1>3. QED
  BY <1>1, <1>2 DEF Weight

(* The analyzer takes a job that is ready, gives it back while its load    *)
(* allows for it, or spends a fault.                                       *)
LEMMA AnalyzerLoad ==
  ASSUME TypeOK, Busy, WorkInv, LoadInv, NEW w \in Analyzers, AnalyzerActs(w)
  PROVE  LoadInv'
<1> DEFINE i == analyzer[w].item
<1> SUFFICES ASSUME OneAnalyzer, removals' = 0, NEW j \in Items
             PROVE  Counted(j)'
  BY DEF LoadInv, OneAnalyzer
<1>0. /\ TypeOK' /\ UNCHANGED <<crashes, removals, reader, admin, requeues>> /\ faults' >= faults
      /\ Takes(w) \/ Works(w) \/ Ends(w)
      /\ \A v \in Analyzers : v = w
      /\ At(w, "idle") \/ i \in Items
      /\ analyzer_queue \in [Items -> Row]
      /\ w # NoOwner /\ NoOwner \notin Items
      /\ crashes \in Nat /\ faults \in Nat
  BY AnalyzerShape, OwnersAssumption, WorkersAssumption
     DEF Busy, At, TypeOK, StoreTypeOK, OneAnalyzer
<1>1. Counted(j)
  BY <1>0 DEF LoadInv
<1>2. Wanting(j)' = Wanting(j) /\ Arriving(j)' = Arriving(j)
  BY <1>0 DEF Wanting, Arriving, Entering
<1>3. Arriving(j)' <= Arriving(j) /\ Wanting(j)' \subseteq Wanting(j)
  BY <1>2 DEF Arriving
<1>4. Spent <= Spent' /\ (Fault => Spent < Spent')
  BY <1>0, SpentGrows DEF Fault, TypeOK, StoreTypeOK
<1>5. WorkedOn(j) <=> analyzer_queue[j].owner = w /\ i = j
  BY <1>0 DEF WorkedOn
<1>6. WorkedOn(j)' <=> analyzer_queue'[j].owner = w /\ analyzer'[w].item = j
  BY <1>0 DEF WorkedOn
<1>7. \A v \in Analyzers : Releasing(v, j)' =>
        analyzer'[w].pc = "release" /\ analyzer'[w].item = j /\ analyzer_queue'[j].owner = w
  BY <1>0 DEF Releasing, At
<1>8. CASE Takes(w)
  <2>1. PICK k \in Items : /\ IsNext(analyzer_queue, k)
                           /\ analyzer_queue' = Claim(analyzer_queue, k, w, RawCountCap)
                           /\ analyzer'[w].item = k /\ analyzer'[w].pc = "claimed"
    BY <1>8 DEF Takes
  <2>2. i = NoJob /\ ~WorkedOn(j)
    BY <1>0, <1>5, <1>8 DEF Takes, WorkInv, EmptyHands, At, NoJob
  <2>3. CASE j # k
    <3>1. analyzer_queue'[j] = analyzer_queue[j] /\ ~WorkedOn(j)'
      BY <1>0, <1>6, <2>1, <2>3, ClaimRows
    <3>2. Ready(j)' = Ready(j)
      BY <2>2, <3>1 DEF Ready
    <3>3. Weight(j)' <= Weight(j)
      BY <1>0, <3>1, <3>2, WeightGrows
    <3>4. QED
      BY <1>0, <1>1, <1>3, <1>4, <1>7, <2>1, <3>1, <3>3, CountedStep
  <2>4. CASE j = k
    <3>1. /\ analyzer_queue[j].state \in {"QUEUED", "LEASED"}
          /\ analyzer_queue'[j].state = "LEASED" /\ analyzer_queue'[j].owner = w
          /\ analyzer_queue'[j].count \in {analyzer_queue[j].count, analyzer_queue[j].count + 1}
      BY <1>0, <2>1, <2>4, ClaimRows DEF IsNext, Claimable
    <3>2. Ready(j) = 1 /\ Ready(j)' = 0
      BY <1>6, <2>1, <2>2, <2>4, <3>1 DEF Ready
    <3>3. Weight(j)' <= Weight(j)
      BY <1>0, <3>1, <3>2, WeightGrows
    <3>4. QED
      BY <1>0, <1>1, <1>3, <1>4, <1>7, <2>1, <3>1, <3>3, CountedStep
  <2>5. QED
    BY <2>3, <2>4
<1>9. CASE Works(w)
  <2>1. /\ analyzer_queue'[j] = analyzer_queue[j] /\ analyzer'[w].item = i
        /\ i \in Items
        /\ analyzer'[w].pc = "release" => ~TooManyDeliveries(w) \/ Fault
    BY <1>0, <1>9 DEF Works, At
  <2>2. Ready(j)' = Ready(j)
    BY <1>5, <1>6, <2>1 DEF Ready
  <2>3. Weight(j)' <= Weight(j)
    BY <1>0, <2>1, <2>2, WeightGrows
  <2>4. ASSUME NEW v \in Analyzers, Releasing(v, j)'
        PROVE  Spent < Spent' \/ Load(j) < Allowed
    <3>1. /\ i = j /\ analyzer_queue[j].owner = w /\ analyzer_queue[j].state = "LEASED"
          /\ ~TooManyDeliveries(w) \/ Fault
      BY <1>0, <1>7, <2>1, <2>4 DEF WorkInv, Leases
    <3>2. CASE Fault
      BY <1>4, <3>2
    <3>3. CASE ~TooManyDeliveries(w)
      <4>1. Ready(j) = 0 /\ Known(j) = 1
        BY <1>5, <3>1 DEF Ready, Known
      <4>2. /\ analyzer_queue[j].count \in Nat /\ MaxDeliveryAttempts \in Nat
            /\ requeues \in Nat /\ Coming(j) \in Nat /\ Spent \in Nat
        BY <1>0, <1>1, <1>2, LoadNumbers DEF Counted
      <4>3. analyzer_queue[j].count < MaxDeliveryAttempts
        BY <3>1, <3>3, <4>2 DEF TooManyDeliveries, OwnedBy
      <4>4. Coming(j) <= requeues
        BY <1>1, <4>1, <4>2 DEF Counted
      <4>5. QED
        BY <4>1, <4>2, <4>3, <4>4 DEF Load, Weight, Allowed, Granted
    <3>4. QED
      BY <3>1, <3>2, <3>3
  <2>5. QED
    BY <1>0, <1>1, <1>3, <1>4, <2>1, <2>3, <2>4, CountedStep
<1>10. CASE Ends(w)
  <2>1. /\ i \in Items /\ analyzer'[w].pc = "idle" /\ analyzer'[w].item = NoJob
        /\ ~WorkedOn(j)' /\ \A v \in Analyzers : ~Releasing(v, j)'
    BY <1>0, <1>6, <1>7, <1>10 DEF Ends, At, IdleAnalyzer, NoJob
  <2>2. CASE UNCHANGED analyzer_queue /\ Fault
    <3>1. Weight(j)' <= Weight(j) + 1
      BY <1>0, <2>2, WeightGrows
    <3>2. QED
      BY <1>0, <1>1, <1>3, <1>4, <2>1, <2>2, <3>1, CountedStep
  <2>3. CASE i # j \/ analyzer_queue[i].owner # w
    <3>1. CASE analyzer_queue' \in {Complete(analyzer_queue, i, w), Release(analyzer_queue, i, w),
                                    Fail(analyzer_queue, i, w)}
      <4>1. analyzer_queue'[j] = analyzer_queue[j]
        BY <1>0, <2>1, <2>3, <3>1, SettleRows
      <4>2. Ready(j)' = Ready(j)
        BY <1>5, <2>1, <2>3, <4>1 DEF Ready
      <4>3. Weight(j)' <= Weight(j)
        BY <1>0, <4>1, <4>2, WeightGrows
      <4>4. QED
        BY <1>0, <1>1, <1>3, <1>4, <2>1, <4>1, <4>3, CountedStep
    <3>2. QED
      BY <1>10, <2>2, <3>1 DEF Ends
  <2>4. CASE i = j /\ analyzer_queue[i].owner = w
    <3>1. analyzer_queue[j].state = "LEASED"
      BY <1>0, <2>4 DEF WorkInv, Leases
    <3>2. CASE analyzer_queue' \in {Complete(analyzer_queue, i, w), Fail(analyzer_queue, i, w)}
      <4>1. analyzer_queue'[j].state = "DONE" /\ analyzer_queue'[j].count = analyzer_queue[j].count
        BY <1>0, <2>1, <2>4, <3>2 DEF Complete, Fail, Settle, OwnedBy
      <4>2. Ready(j)' = 0
        BY <4>1 DEF Ready
      <4>3. Weight(j)' <= Weight(j)
        BY <1>0, <4>1, <4>2, WeightGrows
      <4>4. QED
        BY <1>0, <1>1, <1>3, <1>4, <2>1, <3>1, <4>1, <4>3, CountedStep
    <3>3. CASE At(w, "release") /\ analyzer_queue' = Release(analyzer_queue, i, w)
      <4>1. analyzer_queue'[j].state = "QUEUED" /\ analyzer_queue'[j].count = analyzer_queue[j].count
        BY <1>0, <2>1, <2>4, <3>3 DEF Release, Settle, OwnedBy
      <4>2. Load(j) < Allowed
        BY <1>1, <2>4, <3>3 DEF Counted, Releasing
      <4>3. Weight(j)' <= Weight(j) + 1
        BY <1>0, <4>1, WeightGrows
      <4>4. QED
        BY <1>0, <1>1, <1>3, <1>4, <2>1, <3>1, <4>1, <4>2, <4>3, CountedStep
    <3>4. QED
      BY <1>10, <2>2, <3>2, <3>3 DEF Ends
  <2>5. QED
    BY <2>3, <2>4
<1>11. QED
  BY <1>0, <1>8, <1>9, <1>10

(* The reader queues a job once, right after it stored the item. *)
LEMMA ReaderLoad ==
  ASSUME TypeOK, Busy, WorkInv, DeliveryInv, LoadInv, ReaderActs
  PROVE  LoadInv'
<1> DEFINE i == reader.item
<1> SUFFICES ASSUME OneAnalyzer, removals' = 0, NEW j \in Items
             PROVE  Counted(j)'
  BY DEF LoadInv, OneAnalyzer
<1>0. /\ TypeOK' /\ UNCHANGED <<analyzer, crashes, admin, requeues>>
      /\ analyzer_queue \in [Items -> Row]
      /\ reader.pc # "idle" => i \in Items
      /\ crashes \in Nat /\ removals \in Nat /\ NoOwner \notin Items
  BY ReaderType, OwnersAssumption DEF ReaderActs, ReaderStep, Busy, TypeOK, StoreTypeOK
<1>1. faults' >= faults
  BY FaultGrows
     DEF ReaderActs, ReaderStep, ReaderWork, InsertItemIfNew, EnqueueAnalyzerJob,
         MarkRawEnqueued, MarkEnqueueFailed, Cleanup, NoFault
<1>2. \A S \in SUBSET Items : ~Cleanup(S)
  BY <1>0 DEF Cleanup
<1>3. removals = 0 /\ Counted(j)
  BY <1>0, <1>2 DEF LoadInv, ReaderActs, ReaderStep, ReaderWork, InsertItemIfNew,
                    EnqueueAnalyzerJob, MarkRawEnqueued, MarkEnqueueFailed
<1>4. Wanting(j)' = Wanting(j)
  BY <1>0 DEF Wanting
<1>5. Spent <= Spent'
  BY <1>0, <1>1, SpentGrows
<1>6. CASE UNCHANGED analyzer_queue /\ ~Entering(j)'
  <2>1. Ready(j)' = Ready(j) /\ \A w \in Analyzers : Releasing(w, j)' => Releasing(w, j)
    BY <1>0, <1>6 DEF Ready, WorkedOn, Releasing, At
  <2>2. Weight(j)' <= Weight(j) /\ \A w \in Analyzers : Releasing(w, j)' => Load(j) < Allowed
    BY <1>0, <1>3, <1>6, <2>1, WeightGrows DEF Counted
  <2>3. Arriving(j)' <= Arriving(j)
    BY <1>6 DEF Arriving
  <2>4. QED
    BY <1>0, <1>3, <1>4, <1>5, <1>6, <2>2, <2>3, CountedStep
<1>7. ASSUME NEW k \in Items, InsertItemIfNew(k) PROVE Counted(j)'
  <2>1. UNCHANGED analyzer_queue /\ reader' = Stored(k) /\ ~items[k].present
    BY <1>7 DEF InsertItemIfNew
  <2>2. CASE j # k
    BY <1>6, <2>1, <2>2 DEF Entering, Stored
  <2>3. CASE j = k
    <3>1. ~Held(j)
      BY <1>3, <2>1, <2>3 DEF DeliveryInv, HeldIsPresent
    <3>2. /\ Wanting(j)' = {} /\ analyzer_queue'[j].state = "ABSENT"
          /\ \A w \in Analyzers : ~Releasing(w, j)'
      BY <1>0, <2>1, <3>1 DEF Held, Wanting, Releasing
    <3>3. /\ IsFiniteSet(Wanting(j)') /\ Cardinality(Wanting(j)') = 0
          /\ Arriving(j)' \in {0, 1} /\ Ready(j)' = 0 /\ Known(j)' = 0
          /\ analyzer_queue'[j].count = 0
      BY <1>3, <2>1, <3>2, FS_EmptySet DEF Arriving, Ready, Known, Counted
    <3>4. Load(j)' \in {0, 1} /\ Coming(j)' \in {0, 1}
      <4>1. Weight(j)' = 0
        BY <3>3 DEF Weight
      <4>2. Coming(j)' \in {0, 1}
        BY <3>3 DEF Coming
      <4>3. QED
        BY <4>1, <4>2 DEF Load
    <3>5. /\ Allowed' \in Nat /\ Granted' \in Nat /\ Spent' \in Nat /\ requeues' \in Nat
          /\ MaxDeliveryAttempts \in Nat \ {0}
      BY <1>0, <1>3, <3>3, LoadNumbers DEF Counted
    <3>6. Allowed' >= 1
      <4>1. \A a \in Nat \ {0}, b, c \in Nat : (a + b) + c >= 1
        OBVIOUS
      <4>2. Allowed' = (MaxDeliveryAttempts + requeues') + Spent'
        BY DEF Allowed, Granted
      <4>3. QED
        BY <3>5, <4>1, <4>2
    <3>7. Load(j)' <= Allowed' /\ Coming(j)' + Known(j)' <= 1 + requeues'
      <4>1. \A a \in {0, 1}, b \in Nat : a + 0 <= 1 + b
        OBVIOUS
      <4>2. QED
        BY <3>3, <3>4, <3>5, <3>6, <4>1
    <3>8. QED
      BY <3>2, <3>3, <3>7 DEF Counted
  <2>4. QED
    BY <2>2, <2>3
<1>8. CASE EnqueueAnalyzerJob
  <2>1. CASE UNCHANGED analyzer_queue /\ reader' = [reader EXCEPT !.pc = "giveUp"]
    BY <1>6, <2>1 DEF Entering, TypeOK, ReaderTypeOK
  <2>2. CASE /\ analyzer_queue' = Enqueue(analyzer_queue, i)
             /\ reader' = [reader EXCEPT !.pc = "stampRaw"] /\ NoFault
    <3>1. ~Entering(j)' /\ i \in Items /\ (Entering(j) <=> i = j)
      BY <1>0, <1>8, <2>2 DEF EnqueueAnalyzerJob, Entering, TypeOK, ReaderTypeOK
    <3>2. CASE i # j
      <4>1. analyzer_queue'[j] = analyzer_queue[j]
        BY <1>0, <2>2, <3>1, <3>2, EnqueueRows
      <4>2. Ready(j)' = Ready(j) /\ \A w \in Analyzers : Releasing(w, j)' => Releasing(w, j)
        BY <1>0, <4>1 DEF Ready, WorkedOn, Releasing, At
      <4>3. Weight(j)' <= Weight(j) /\ \A w \in Analyzers : Releasing(w, j)' => Load(j) < Allowed
        BY <1>0, <1>3, <4>1, <4>2, WeightGrows DEF Counted
      <4>4. Arriving(j)' <= Arriving(j)
        BY <3>1 DEF Arriving
      <4>5. QED
        BY <1>0, <1>3, <1>4, <1>5, <4>1, <4>3, <4>4, CountedStep
    <3>3. CASE i = j
      <4>1. /\ analyzer_queue'[j].state = "QUEUED" /\ analyzer_queue'[j].owner = NoOwner
            /\ analyzer_queue'[j].count = analyzer_queue[j].count
        BY <1>0, <2>2, <3>1, <3>3, EnqueueRows
      <4>2. /\ Arriving(j) = 1 /\ Arriving(j)' = 0 /\ Known(j)' = 1
            /\ \A w \in Analyzers : ~Releasing(w, j)'
            /\ Weight(j)' <= Weight(j) + 1
        BY <1>0, <3>1, <3>3, <4>1, WeightGrows, OwnersAssumption, WorkersAssumption
           DEF Arriving, Known, Releasing
      <4>3. IsFiniteSet(Wanting(j)) /\ IsFiniteSet(Wanting(j)')
        BY <1>3, <1>4 DEF Counted
      <4>4. /\ Weight(j) \in Nat /\ Weight(j)' \in Nat /\ Coming(j) \in Nat /\ Coming(j)' \in Nat
            /\ Known(j) \in {0, 1} /\ requeues \in Nat /\ Cardinality(Wanting(j)) \in Nat
            /\ Load(j) \in Nat /\ Allowed \in Nat
        BY <1>0, <4>3, LoadNumbers
      <4>5. Coming(j) = Coming(j)' + 1
        <5>1. Coming(j)' = Cardinality(Wanting(j)) + 0
          BY <1>4, <4>2 DEF Coming
        <5>2. QED
          BY <4>2, <4>4, <5>1 DEF Coming
      <4>6. Load(j)' <= Load(j)
        <5>1. \A a, b, c \in Nat : a <= b + 1 => a + c <= b + (c + 1)
          OBVIOUS
        <5>2. QED
          BY <4>2, <4>4, <4>5, <5>1 DEF Load
      <4>7. Coming(j)' + Known(j)' + requeues <= Coming(j) + Known(j) + requeues'
        <5>1. \A a, c \in Nat, b \in {0, 1} : a + 1 + c <= (a + 1) + b + c
          OBVIOUS
        <5>2. QED
          BY <1>0, <4>2, <4>4, <4>5, <5>1
      <4>8. Allowed' = Allowed
        BY <1>0, <2>2 DEF Allowed, Granted, Spent, NoFault
      <4>9. Load(j)' + Allowed <= Load(j) + Allowed'
        <5>1. Load(j)' \in Nat
          BY <1>0, <4>3, LoadNumbers
        <5>2. QED
          BY <4>4, <4>6, <4>8, <5>1, SumsGrow
      <4>10. QED
        BY <1>0, <1>3, <4>1, <4>2, <4>3, <4>7, <4>9, CountedAgain
    <3>4. QED
      BY <3>2, <3>3
  <2>3. QED
    BY <1>8, <2>1, <2>2 DEF EnqueueAnalyzerJob
<1>9. CASE MarkRawEnqueued \/ MarkEnqueueFailed
  <2>1. UNCHANGED analyzer_queue /\ reader'.pc # "queueRaw"
    BY <1>9 DEF MarkRawEnqueued, MarkEnqueueFailed, IdleReader, TypeOK, ReaderTypeOK
  <2>2. QED
    BY <1>6, <2>1 DEF Entering
<1>10. QED
  BY <1>2, <1>7, <1>8, <1>9 DEF ReaderActs, ReaderStep, ReaderWork

(* A requeue is allowed for when it is asked for, and adds to the load     *)
(* what it is allowed.                                                     *)
LEMMA AdminLoad ==
  ASSUME TypeOK, Busy, WorkInv, LoadInv, AdminActs
  PROVE  LoadInv'
<1> SUFFICES ASSUME OneAnalyzer, removals' = 0, NEW j \in Items
             PROVE  Counted(j)'
  BY DEF LoadInv, OneAnalyzer
<1>0. /\ TypeOK' /\ UNCHANGED <<analyzer, crashes, reader>>
      /\ analyzer_queue \in [Items -> Row]
      /\ \A a \in Admins : admin[a].pc # "idle" => admin[a].item \in Items
      /\ crashes \in Nat /\ removals \in Nat /\ requeues \in Nat
      /\ admin \in [Admins -> [pc : AdminPc, item : Items \cup {NoRequest}]]
  BY AdminType DEF AdminActs, AdminStep, Busy, TypeOK, StoreTypeOK, AdminTypeOK
<1>1. faults' >= faults
  BY FaultGrows
     DEF AdminActs, AdminStep, AdminWork, RequeueRead, RequeueRaw, RequeueAnalyzed,
         ResetToNew, ResetToAnalyzed, ResetItem, HandleItemDelete, NoFault
<1>2. \A i \in Items : ~HandleItemDelete(i)
  BY <1>0 DEF HandleItemDelete
<1>3. removals = 0 /\ Counted(j) /\ IsFiniteSet(Wanting(j))
  BY <1>0, <1>2 DEF LoadInv, AdminActs, AdminStep, AdminWork, RequeueRead, RequeueRaw,
                    RequeueAnalyzed, ResetToNew, ResetToAnalyzed, ResetItem, Counted
<1>4. Spent <= Spent'
  BY <1>0, <1>1, SpentGrows
<1>5. Arriving(j)' = Arriving(j) /\ Arriving(j)' <= Arriving(j)
  BY <1>0 DEF Arriving, Entering
<1>6. CASE /\ analyzer_queue'[j] = analyzer_queue[j] /\ UNCHANGED requeues
           /\ Wanting(j)' \subseteq Wanting(j)
  <2>1. Ready(j)' = Ready(j) /\ \A w \in Analyzers : Releasing(w, j)' => Releasing(w, j)
    BY <1>0, <1>6 DEF Ready, WorkedOn, Releasing, At
  <2>2. Weight(j)' <= Weight(j) /\ \A w \in Analyzers : Releasing(w, j)' => Load(j) < Allowed
    BY <1>0, <1>3, <1>6, <2>1, WeightGrows DEF Counted
  <2>3. QED
    BY <1>0, <1>3, <1>4, <1>5, <1>6, <2>2, CountedStep
<1>7. ASSUME NEW a \in Admins, NEW i \in Items, RequeueRead(a, i) PROVE Counted(j)'
  <2>1. /\ UNCHANGED <<analyzer_queue, faults>> /\ requeues' = requeues + 1
        /\ Wanting(j)' \subseteq Wanting(j) \cup {a}
    BY <1>0, <1>7 DEF RequeueRead, tables, Wanting
  <2>2. /\ IsFiniteSet(Wanting(j)')
        /\ Cardinality(Wanting(j)') <= Cardinality(Wanting(j)) + 1
    <3>1. /\ IsFiniteSet(Wanting(j) \cup {a})
          /\ Cardinality(Wanting(j) \cup {a}) \in {Cardinality(Wanting(j)), Cardinality(Wanting(j)) + 1}
      BY <1>3, FS_AddElement
    <3>2. Cardinality(Wanting(j)') <= Cardinality(Wanting(j) \cup {a}) /\ IsFiniteSet(Wanting(j)')
      BY <2>1, <3>1, FS_Subset
    <3>3. Cardinality(Wanting(j)') \in Nat /\ Cardinality(Wanting(j)) \in Nat
      BY <1>3, <3>2, FS_CardinalityType
    <3>4. QED
      BY <3>1, <3>2, <3>3
  <2>3. /\ Cardinality(Wanting(j)) \in Nat /\ Cardinality(Wanting(j)') \in Nat
        /\ Arriving(j) \in {0, 1} /\ Known(j) \in {0, 1}
        /\ Weight(j) \in Nat /\ Coming(j) \in Nat /\ Coming(j)' \in Nat
        /\ Granted \in Nat /\ Spent \in Nat /\ Load(j) \in Nat /\ Allowed \in Nat
        /\ Load(j)' \in Nat /\ MaxDeliveryAttempts \in Nat
    BY <1>0, <1>3, <2>2, LoadNumbers
  <2>4. Coming(j)' <= Coming(j) + 1
    <3>1. Coming(j) = Cardinality(Wanting(j)) + Arriving(j)
      BY DEF Coming
    <3>2. Coming(j)' = Cardinality(Wanting(j)') + Arriving(j)
      BY <1>5 DEF Coming
    <3>3. \A x, y \in Nat, b \in {0, 1} : x <= y + 1 => x + b <= (y + b) + 1
      OBVIOUS
    <3>4. QED
      BY <2>2, <2>3, <3>1, <3>2, <3>3
  <2>5. Known(j)' = Known(j) /\ Weight(j)' = Weight(j)
        /\ \A w \in Analyzers : Releasing(w, j)' => Releasing(w, j)
    BY <1>0, <2>1 DEF Known, Weight, Ready, WorkedOn, Releasing, At
  <2>6. Load(j)' <= Load(j) + 1
    <3>1. \A x, y, z \in Nat : x <= y + 1 => z + x <= (z + y) + 1
      OBVIOUS
    <3>2. Load(j)' = Weight(j) + Coming(j)'
      BY <2>5 DEF Load
    <3>3. QED
      BY <2>3, <2>4, <3>1, <3>2 DEF Load
  <2>7. Allowed' = Allowed + 1
    <3>1. Allowed' = (MaxDeliveryAttempts + (requeues + 1)) + Spent
      BY <1>0, <2>1 DEF Allowed, Granted, Spent
    <3>2. QED
      BY <1>0, <2>3, <3>1 DEF Allowed, Granted
  <2>8. Load(j)' + Allowed <= Load(j) + Allowed'
    <3>1. \A x, y, z \in Nat : x <= y + 1 => x + z <= y + (z + 1)
      OBVIOUS
    <3>2. QED
      BY <2>3, <2>6, <2>7, <3>1
  <2>9. Coming(j)' + Known(j)' + requeues <= Coming(j) + Known(j) + requeues'
    <3>1. \A x, y, z \in Nat, b \in {0, 1} : x <= y + 1 => x + b + z <= y + b + (z + 1)
      OBVIOUS
    <3>2. QED
      BY <1>0, <2>1, <2>3, <2>4, <2>5, <3>1
  <2>10. analyzer_queue'[j].state = "ABSENT" => analyzer_queue'[j].count = 0
    BY <1>3, <2>1 DEF Counted
  <2>11. \A w \in Analyzers : Releasing(w, j)' => Load(j) < Allowed
    BY <1>3, <2>5 DEF Counted
  <2>12. QED
    BY <1>0, <1>3, <2>2, <2>8, <2>9, <2>10, <2>11, CountedAgain
<1>8. ASSUME NEW a \in Admins, RequeueRaw(a) PROVE Counted(j)'
  <2> DEFINE i == admin[a].item
  <2>1. i \in Items /\ admin[a].pc = "queueRaw" /\ UNCHANGED requeues
    BY <1>0, <1>8 DEF RequeueRaw, Serving
  <2>2. Wanting(j)' = Wanting(j) \ {a}
    BY <1>0, <1>8 DEF RequeueRaw, Serve, Answer, IdleAdmin, Wanting
  <2>3. CASE UNCHANGED analyzer_queue
    BY <1>6, <2>1, <2>2, <2>3
  <2>4. CASE analyzer_queue' = Enqueue(analyzer_queue, i) /\ NoFault
    <3>1. CASE i # j
      <4>1. analyzer_queue'[j] = analyzer_queue[j]
        BY <1>0, <2>1, <2>4, <3>1, EnqueueRows
      <4>2. QED
        BY <1>6, <2>1, <2>2, <4>1
    <3>2. CASE i = j
      <4>1. /\ analyzer_queue'[j].state = "QUEUED" /\ analyzer_queue'[j].owner = NoOwner
            /\ analyzer_queue'[j].count = analyzer_queue[j].count
        BY <1>0, <2>1, <2>4, <3>2, EnqueueRows
      <4>2. /\ Known(j)' = 1 /\ Weight(j)' <= Weight(j) + 1
            /\ \A w \in Analyzers : ~Releasing(w, j)'
        BY <1>0, <4>1, WeightGrows, OwnersAssumption, WorkersAssumption DEF Known, Releasing
      <4>3. IsFiniteSet(Wanting(j)') /\ Cardinality(Wanting(j)') = Cardinality(Wanting(j)) - 1
        BY <1>3, <2>1, <2>2, <3>2, FS_RemoveElement DEF Wanting
      <4>4. /\ Cardinality(Wanting(j)) \in Nat /\ Cardinality(Wanting(j)') \in Nat
            /\ Arriving(j) \in {0, 1} /\ Known(j) \in {0, 1}
            /\ Weight(j) \in Nat /\ Weight(j)' \in Nat /\ Coming(j) \in Nat /\ Coming(j)' \in Nat
            /\ Load(j) \in Nat /\ Load(j)' \in Nat /\ Allowed \in Nat
        BY <1>0, <1>3, <4>3, LoadNumbers
      <4>5. Coming(j) = Coming(j)' + 1
        <5>1. Coming(j) = Cardinality(Wanting(j)) + Arriving(j)
          BY DEF Coming
        <5>2. Coming(j)' = (Cardinality(Wanting(j)) - 1) + Arriving(j)
          BY <1>5, <4>3 DEF Coming
        <5>3. QED
          BY <4>4, <5>1, <5>2
      <4>6. Load(j)' <= Load(j)
        <5>1. \A x, y, z \in Nat : x <= y + 1 => x + z <= y + (z + 1)
          OBVIOUS
        <5>2. QED
          BY <4>2, <4>4, <4>5, <5>1 DEF Load
      <4>7. Coming(j)' + Known(j)' + requeues <= Coming(j) + Known(j) + requeues'
        <5>1. \A x, y \in Nat, b \in {0, 1} : x + 1 + y <= (x + 1) + b + y
          OBVIOUS
        <5>2. QED
          BY <1>0, <2>1, <4>2, <4>4, <4>5, <5>1
      <4>8. Allowed' = Allowed
        BY <1>0, <2>1, <2>4 DEF Allowed, Granted, Spent, NoFault
      <4>9. Load(j)' + Allowed <= Load(j) + Allowed'
        BY <4>4, <4>6, <4>8, SumsGrow
      <4>10. QED
        BY <1>0, <1>3, <4>1, <4>2, <4>3, <4>7, <4>9, CountedAgain
    <3>3. QED
      BY <3>1, <3>2
  <2>5. QED
    BY <1>8, <2>3, <2>4 DEF RequeueRaw
<1>9. ASSUME NEW a \in Admins, RequeueAnalyzed(a) \/ ResetToNew(a) \/ ResetToAnalyzed(a)
      PROVE  Counted(j)'
  <2>1. UNCHANGED <<analyzer_queue, requeues>>
    BY <1>9 DEF RequeueAnalyzed, ResetToNew, ResetToAnalyzed, ResetItem
  <2>2. Wanting(j)' \subseteq Wanting(j)
    BY <1>0, <1>9 DEF RequeueAnalyzed, ResetToNew, ResetToAnalyzed, ResetItem, Serve, Answer,
                      IdleAdmin, Wanting
  <2>3. QED
    BY <1>6, <2>1, <2>2
<1>10. QED
  BY <1>2, <1>7, <1>8, <1>9 DEF AdminActs, AdminStep, AdminWork

LEMMA DispatcherLoad ==
  ASSUME TypeOK, Busy, LoadInv, NEW d \in Dispatchers, DispatcherActs(d)
  PROVE  LoadInv'
<1>1. /\ TypeOK' /\ faults' >= faults
      /\ UNCHANGED <<analyzer_queue, crashes, removals, analyzer, reader, admin, requeues>>
      /\ crashes \in Nat
  BY DispatcherShape DEF TypeOK, StoreTypeOK
<1> SUFFICES ASSUME OneAnalyzer, removals = 0, NEW j \in Items
             PROVE  Counted(j)'
  BY <1>1 DEF LoadInv, OneAnalyzer
<1>2. Counted(j)
  BY DEF LoadInv
<1>3. /\ Wanting(j)' = Wanting(j) /\ Arriving(j)' = Arriving(j) /\ Arriving(j)' <= Arriving(j)
      /\ Ready(j)' = Ready(j) /\ \A w \in Analyzers : Releasing(w, j)' => Releasing(w, j)
  BY <1>1 DEF Wanting, Arriving, Entering, Ready, WorkedOn, Releasing, At
<1>4. /\ Weight(j)' <= Weight(j) /\ Spent <= Spent'
      /\ \A w \in Analyzers : Releasing(w, j)' => Load(j) < Allowed
  BY <1>1, <1>2, <1>3, WeightGrows, SpentGrows DEF Counted
<1>5. QED
  BY <1>1, <1>2, <1>3, <1>4, CountedStep

LEMMA TimeLoad ==
  ASSUME TypeOK, Busy, LoadInv, SomeoneCrashes \/ \E i \in Items : LeaseExpires(i)
  PROVE  LoadInv'
<1>0. /\ TypeOK' /\ UNCHANGED <<removals, faults, requeues>>
      /\ crashes \in Nat /\ crashes' \in Nat /\ faults \in Nat
  BY LeaseShape, CrashShape DEF TypeOK, StoreTypeOK
<1> SUFFICES ASSUME OneAnalyzer, removals = 0, NEW j \in Items
             PROVE  Counted(j)'
  BY <1>0 DEF LoadInv, OneAnalyzer
<1>1. Counted(j)
  BY DEF LoadInv
<1>2. ASSUME NEW i \in Items, LeaseExpires(i) PROVE Counted(j)'
  <2>1. /\ Alike(analyzer_queue'[j], analyzer_queue[j])
        /\ UNCHANGED <<crashes, analyzer, reader, admin>>
    BY <1>2, LeaseShape
  <2>2. /\ Wanting(j)' = Wanting(j) /\ Arriving(j)' = Arriving(j) /\ Arriving(j)' <= Arriving(j)
        /\ Ready(j)' = Ready(j) /\ \A w \in Analyzers : Releasing(w, j)' => Releasing(w, j)
    BY <2>1 DEF Wanting, Arriving, Entering, Ready, WorkedOn, Releasing, At, Alike
  <2>3. /\ Weight(j)' <= Weight(j) /\ Spent <= Spent'
        /\ \A w \in Analyzers : Releasing(w, j)' => Load(j) < Allowed
    BY <1>0, <1>1, <2>1, <2>2, WeightGrows, SpentGrows DEF Counted, Alike
  <2>4. QED
    BY <1>0, <1>1, <2>1, <2>2, <2>3, CountedStep DEF Alike
<1>3. CASE SomeoneCrashes
  <2>1. /\ crashes < crashes' /\ crashes <= crashes' /\ faults <= faults'
        /\ analyzer_queue'[j].state = analyzer_queue[j].state
        /\ analyzer_queue'[j].count = analyzer_queue[j].count
    BY <1>0, <1>3, CrashShape
  <2>2. Wanting(j)' \subseteq Wanting(j)
    BY <1>3, CrashShape DEF Wanting, IdleAdmin
  <2>3. Arriving(j)' <= Arriving(j)
    BY <1>3, CrashShape DEF Arriving, Entering, ReaderFell
  <2>4. \A w \in Analyzers : Releasing(w, j)' => Releasing(w, j)
    BY <1>3, CrashShape DEF Releasing, At
  <2>5. /\ Weight(j)' <= Weight(j) + 1 /\ Spent <= Spent' /\ Spent < Spent'
        /\ \A w \in Analyzers : Releasing(w, j)' => Load(j) < Allowed
    BY <1>0, <1>1, <2>1, <2>4, WeightGrows, SpentGrows DEF Counted
  <2>6. QED
    BY <1>0, <1>1, <2>1, <2>2, <2>3, <2>5, CountedStep
<1>4. QED
  BY <1>2, <1>3

LEMMA InitLoad == Init => LoadInv
<1> SUFFICES ASSUME Init, NEW j \in Items PROVE Counted(j)
  BY DEF LoadInv
<1>1. /\ Wanting(j) = {} /\ analyzer_queue[j].count = 0 /\ analyzer_queue[j].state = "ABSENT"
      /\ requeues = 0 /\ crashes = 0 /\ faults = 0
      /\ \A w \in Analyzers : ~Releasing(w, j)
  BY DEF Init, StoreInit, EmptyQueue, NoRow, AnalyzerInit, IdleAnalyzer, AdminInit, IdleAdmin,
         Wanting, Releasing, At
<1>2. Arriving(j) = 0 /\ Ready(j) = 0 /\ Known(j) = 0
  BY <1>1 DEF Init, ReaderInit, Arriving, Entering, Ready, Known
<1>3. IsFiniteSet(Wanting(j)) /\ Cardinality(Wanting(j)) = 0
  BY <1>1, FS_EmptySet
<1>4. Load(j) = 0 /\ Coming(j) = 0
  BY <1>1, <1>2, <1>3 DEF Load, Weight, Coming
<1>5. Allowed \in Nat
  BY <1>1, AnalyzerAssumption DEF Allowed, Granted, Spent
<1>6. QED
  BY <1>1, <1>2, <1>3, <1>4, <1>5 DEF Counted

LEMMA StutterLoad == ASSUME LoadInv, UNCHANGED vars PROVE LoadInv'
<1> SUFFICES ASSUME OneAnalyzer, removals = 0, NEW j \in Items
             PROVE  Counted(j)'
  BY DEF LoadInv, OneAnalyzer, vars
<1>1. /\ Wanting(j)' = Wanting(j) /\ Arriving(j)' = Arriving(j) /\ Ready(j)' = Ready(j)
      /\ Known(j)' = Known(j) /\ Allowed' = Allowed
      /\ UNCHANGED <<analyzer_queue, requeues>>
      /\ \A w \in Analyzers : Releasing(w, j)' => Releasing(w, j)
  BY DEF vars, Wanting, Arriving, Entering, Ready, WorkedOn, Known, Allowed, Granted, Spent,
         Releasing, At
<1>2. Load(j)' = Load(j) /\ Coming(j)' = Coming(j)
  BY <1>1 DEF Load, Weight, Coming
<1>3. QED
  BY <1>1, <1>2 DEF LoadInv, Counted

(* With one analyzer, and while nothing is removed, no job is delivered    *)
(* more often than the poison threshold, the requeues, the crashes and the *)
(* failed statements account for (delivery_count in claimNextRawJob, and   *)
(* the threshold in shouldQuarantineClaim).                                *)
THEOREM DeliveriesAreAccounted == Spec => []DeliveriesAccounted
<1>1. Init => LoadInv
  BY InitLoad
<1>2. TypeOK /\ Busy /\ WorkInv /\ DeliveryInv /\ LoadInv /\ [Next]_vars => LoadInv'
  BY AnalyzerLoad, DispatcherLoad, ReaderLoad, AdminLoad, TimeLoad, StutterLoad DEF Next
<1>3. TypeOK /\ LoadInv => DeliveriesAccounted
  <2> SUFFICES ASSUME TypeOK, LoadInv, OneAnalyzer, removals = 0, NEW i \in Items
               PROVE  analyzer_queue[i].count <= MaxDeliveryAttempts + requeues + crashes + faults
    BY DEF DeliveriesAccounted
  <2>1. Counted(i)
    BY DEF LoadInv
  <2>2. /\ analyzer_queue[i].count \in Nat /\ requeues \in Nat /\ crashes \in Nat /\ faults \in Nat
        /\ MaxDeliveryAttempts \in Nat /\ Ready(i) \in {0, 1} /\ Arriving(i) \in {0, 1}
        /\ Cardinality(Wanting(i)) \in Nat
    BY <2>1, FS_CardinalityType, AnalyzerAssumption
       DEF TypeOK, StoreTypeOK, AdminTypeOK, Row, Ready, Arriving, Counted
  <2>3. QED
    BY <2>1, <2>2 DEF Counted, Load, Weight, Coming, Allowed, Granted, Spent
<1>4. QED
  BY <1>1, <1>2, <1>3, TypeCorrect, WorkInvariant, DeliveryInvariant, PTL DEF Spec
=============================================================================
