----------------------------- MODULE Pipeline -----------------------------
(***************************************************************************)
(* The four services over the shared database: rss-reader, job-analyzer,   *)
(* message-dispatcher and web-admin, interleaved statement by statement.   *)
(***************************************************************************)
EXTENDS Analyzer, Dispatcher, Reader, WebAdmin

CONSTANT MaxTrouble  \* bound: faults, crashes, removals and requeues together

ASSUME TroubleAssumption == MaxTrouble \in Nat

vars == <<items, analyzer_queue, dispatch_queue, sent, cleared, faults, crashes,
          removals, analyzer, dispatcher, reader, admin, requeues>>

Init ==
  /\ StoreInit
  /\ AnalyzerInit
  /\ DispatcherInit
  /\ ReaderInit
  /\ AdminInit

AnalyzerActs(w) == AnalyzerStep(w) /\ UNCHANGED <<dispatcher, reader, admin, requeues>>

DispatcherActs(d) == DispatcherStep(d) /\ UNCHANGED <<analyzer, reader, admin, requeues>>

ReaderActs == ReaderStep /\ UNCHANGED <<analyzer, dispatcher, admin, requeues>>

AdminActs == AdminStep /\ UNCHANGED <<analyzer, dispatcher, reader>>

LeaseExpires(i) ==
  /\ RawLeaseExpires(i) \/ DispatchLeaseExpires(i)
  /\ UNCHANGED <<analyzer, dispatcher, reader, admin, requeues>>

SomeoneCrashes ==
  \/ \E w \in Analyzers : CrashAnalyzer(w) /\ UNCHANGED <<dispatcher, reader, admin, requeues>>
  \/ \E d \in Dispatchers : CrashDispatcher(d) /\ UNCHANGED <<analyzer, reader, admin, requeues>>
  \/ CrashReader /\ UNCHANGED <<analyzer, dispatcher, admin, requeues>>
  \/ CrashAdmin /\ UNCHANGED <<analyzer, dispatcher, reader>>

Next ==
  /\ \/ \E w \in Analyzers : AnalyzerActs(w)
     \/ \E d \in Dispatchers : DispatcherActs(d)
     \/ ReaderActs
     \/ AdminActs
     \/ \E i \in Items : LeaseExpires(i)
     \/ SomeoneCrashes
  /\ faults' + crashes' + removals' + requeues' <= MaxTrouble

Spec == Init /\ [][Next]_vars

(* The services are loops that never stop polling, a request in service is *)
(* carried through, and every lease runs out.  The destination is a system *)
(* of its own: an item it can accept at all gets through when it is tried  *)
(* again and again.                                                        *)
Fairness ==
  /\ \A w \in Analyzers : WF_vars(AnalyzerActs(w))
  /\ \A d \in Dispatchers :
       /\ WF_vars(DispatcherActs(d))
       /\ \A i \in Items : SF_vars(dispatcher[d].item = i /\ DeliverOk(d) /\ DispatcherActs(d))
  /\ WF_vars(ReaderWork /\ ReaderActs)
  /\ \A a \in Admins : WF_vars(AdminWork(a) /\ AdminActs)
  /\ \A i \in Items : WF_vars(RawLeaseExpires(i) /\ LeaseExpires(i))
                      /\ WF_vars(DispatchLeaseExpires(i) /\ LeaseExpires(i))

FairSpec == Spec /\ Fairness

-----------------------------------------------------------------------------

TypeOK ==
  /\ StoreTypeOK
  /\ AnalyzerTypeOK
  /\ DispatcherTypeOK
  /\ ReaderTypeOK
  /\ AdminTypeOK

Open(row)      == row.state \in {"QUEUED", "LEASED"}
Quarantined(i) == analyzer_queue[i].state = "DONE" /\ analyzer_queue[i].failed
Settled(i)     == items[i].dispatched \/ Quarantined(i)

(* As long as no statement fails, a leased row belongs to a process that   *)
(* is working on that very item: a worker never forgets a claim and never  *)
(* holds two.  (claimNextRawJob, completeClaim, releaseClaim, failClaim    *)
(* and the dispatcher's counterparts.)                                     *)
LeaseHolderAtWork ==
  faults = 0 =>
    \A i \in Items :
      /\ \A w \in Analyzers : analyzer_queue[i].owner = w => analyzer[w].item = i
      /\ \A d \in Dispatchers : dispatch_queue[i].owner = d => dispatcher[d].item = i

(* A job that analyzer_queue records as done without an error was handed   *)
(* over: dispatch_queue has a row for it, whatever leases expired, workers *)
(* died and statements failed on the way; or items were deleted, as long   *)
(* as no deletion fails half-way.                                          *)
HandedOver ==
  (faults = 0 \/ removals = 0) =>
    \A i \in Items :
      (analyzer_queue[i].state = "DONE" /\ ~analyzer_queue[i].failed)
        => dispatch_queue[i].state # "ABSENT"

(* dispatch_queue closes a row only for a message that reached the         *)
(* destination, now or before; and dispatched_at is set only then.         *)
DoneMeansSent ==
  \A i \in Items :
    (dispatch_queue[i].state = "DONE" \/ items[i].dispatched) => sent[i] > 0

OneDispatcher == \A c, d \in Dispatchers : c = d
OneAnalyzer   == \A v, w \in Analyzers : v = w

(* With one dispatcher, an item that is never removed is sent once, and    *)
(* once more for every requeue that reset dispatched_at, plus the cases no *)
(* statement order can exclude: a crash between the send and its record,   *)
(* a lost record, an ambiguous answer of the destination.                  *)
SentAtMostOnce ==
  (OneDispatcher /\ removals = 0) =>
    \A i \in Items : sent[i] <= 1 + cleared[i] + crashes + faults

(* Why SentAtMostOnce holds, in a form every step keeps.  While nothing is *)
(* removed, whatever a queue or a process holds is stored: a record of a   *)
(* delivery finds its row.  An item that is being sent has no dispatched_at*)
(* (the check before the send stays true with one dispatcher), and an item *)
(* that may be sent again, because no dispatched_at is set and none is     *)
(* about to be, has a reset, a crash or a fault for each of its messages.  *)
Held(i) == \/ analyzer_queue[i].state # "ABSENT"
           \/ dispatch_queue[i].state # "ABSENT"
           \/ \E w \in Analyzers : analyzer[w].item = i
           \/ \E d \in Dispatchers : dispatcher[d].item = i
           \/ reader.item = i
           \/ \E a \in Admins : admin[a].item = i

HeldIsPresent == \A i \in Items : Held(i) => items[i].present

UnsentInDelivery ==
  /\ \A i \in Items : ~items[i].present => ~items[i].dispatched
  /\ \A d \in Dispatchers : dispatcher[d].pc \in {"deliver", "undelivered", "delivered"}
                            => ~items[dispatcher[d].item].dispatched

Carried == {i \in Items : \E d \in Dispatchers : /\ dispatcher[d].item = i
                                                /\ dispatcher[d].pc = "delivered"}

Accounted ==
  \A i \in Items :
    sent[i] <= (IF items[i].dispatched \/ i \in Carried THEN 1 ELSE 0)
               + cleared[i] + crashes + faults

(* The inductive invariant behind SentAtMostOnce and ImplementsContract:   *)
(* the three parts above, each under the condition that it needs.          *)
DeliveryInv ==
  /\ OneDispatcher => UnsentInDelivery
  /\ removals = 0 => HeldIsPresent
  /\ OneDispatcher /\ removals = 0 => Accounted

(* An item that is stored, and that no requeue has reset, is dispatched or *)
(* quarantined, or it is on its way: a queue holds it open, or the reader  *)
(* is about to queue it.  It takes a failed statement to leave an item     *)
(* behind, or the death of the reader with that very item between its two  *)
(* statements: no other crash of any service, no lease that runs out, no   *)
(* deletion and no sweep does.                                             *)
Entering(i) == reader.pc = "queueRaw" /\ reader.item = i

NothingStranded ==
  faults = 0 =>
    \A i \in Items :
      (items[i].present /\ cleared[i] = 0 /\ i \notin reader.abandoned) =>
        \/ Settled(i) \/ Entering(i)
        \/ Open(analyzer_queue[i]) \/ Open(dispatch_queue[i])

(* With one analyzer, a quarantined job was not analyzed and has nothing   *)
(* to dispatch: the quarantine never takes away a result that was stored,  *)
(* as long as no statement fails and nothing is removed.                   *)
QuarantineLosesNothing ==
  (OneAnalyzer /\ faults = 0 /\ removals = 0) =>
    \A i \in Items :
      Quarantined(i) => ~items[i].analyzed /\ dispatch_queue[i].state = "ABSENT"

(* With one analyzer, a job that is never removed is delivered to it as    *)
(* often as the poison threshold allows, and once more for every requeue,  *)
(* for every crash, which ends a delivery before the count is looked at,   *)
(* and for every failed statement.                                         *)
DeliveriesAccounted ==
  (OneAnalyzer /\ removals = 0) =>
    \A i \in Items :
      analyzer_queue[i].count <= MaxDeliveryAttempts + requeues + crashes + faults

(* A status tells the truth about the columns that back it: DISPATCHED     *)
(* items have a dispatched_at; and as long as no statement fails and       *)
(* nothing is removed, ANALYZED items have a payload, and so has an item   *)
(* with a dispatched_at.                                                   *)
StatusBacked ==
  \A i \in Items :
    /\ items[i].status = "DISPATCHED" => items[i].dispatched
    /\ (faults = 0 /\ removals = 0) =>
         /\ items[i].status = "ANALYZED" => items[i].analyzed
         /\ items[i].dispatched => items[i].analyzed

(* With one dispatcher, only a requeue, a removal or the reader's own late *)
(* stamp takes an item out of DISPATCHED: no analyzer that wakes up late   *)
(* and no second delivery attempt does.                                    *)
TakenOut(i) ==
  items[i].status = "DISPATCHED" /\ items'[i].present /\ items'[i].status # "DISPATCHED"

DispatchedStays ==
  [][\A i \in Items :
       (OneDispatcher /\ TakenOut(i))
         => \/ reader.item = i /\ reader'.item # i
            \/ \E a \in Admins : admin[a].item = i /\ admin'[a].item # i]_vars

(* The pipeline with one dispatcher implements the courier of              *)
(* DeliveryContract: what is on record is dispatched_at, and what is being *)
(* carried is what a dispatcher delivered and did not record yet.          *)
OnRecord == {i \in Items : items[i].dispatched}
Carrying == IF Carried = {} THEN NoMessage ELSE CHOOSE i \in Carried : TRUE

Courier == INSTANCE DeliveryContract WITH
  Nothing <- NoMessage, onRecord <- OnRecord, carrying <- Carrying

ImplementsContract == Courier!Spec

(* Every stored item is dispatched or quarantined in the end. *)
EveryItemSettles == \A i \in Items : items[i].present ~> Settled(i)

-----------------------------------------------------------------------------
(* What the documents say of the program and the code does not keep.       *)

(* docs/lifecycle-state-machines.md, "rss_items.status lifecycle":         *)
(* DISPATCHED turns into NEW only by a requeue with mode=raw.              *)
OnlyRequeueMakesNew ==
  [][\A i \in Items :
       (items[i].status = "DISPATCHED" /\ items'[i].present /\ items'[i].status = "NEW")
         => \E a \in Admins : admin[a].item = i /\ admin[a].pc = "resetRaw"]_vars

(* docs/lifecycle-state-machines.md, "Requeue lifecycle": once a requeue   *)
(* has reset the item to ANALYZED, the dispatcher delivers it.             *)
RequeueIsDelivered ==
  \A i \in Items :
    (cleared[i] > 0 /\ items[i].status = "ANALYZED" /\ ~items[i].dispatched)
      ~> items[i].dispatched

(* specs/001-rwct-rss-telegram/spec.md, "Acceptance Scenarios": a new item *)
(* is queued, analyzed and delivered, here when the destination can take   *)
(* that item, whatever it thinks of others.                                *)
DeliverableItemsSettle ==
  \A i \in Items \ Undeliverable : items[i].present ~> Settled(i)
=============================================================================
