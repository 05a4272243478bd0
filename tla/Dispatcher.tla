---------------------------- MODULE Dispatcher ----------------------------
(***************************************************************************)
(* message-dispatcher: claims the oldest row of dispatch_queue, skips it   *)
(* when the item was dispatched before, otherwise renders and delivers the *)
(* message, marks the item DISPATCHED and completes the claim.  A delivery *)
(* that keeps failing is released, whatever its delivery_count.            *)
(***************************************************************************)
EXTENDS Store

CONSTANTS
  DispatcherRetries,  \* cfg.RetryAttempts
  DispatchCountCap,   \* bound of dispatch_queue.delivery_count, which nothing reads
  Undeliverable       \* items the destination rejects every time

ASSUME DispatcherAssumption ==
  /\ DispatcherRetries \in Nat \ {0}
  /\ DispatchCountCap \in Nat
  /\ Undeliverable \subseteq Items

VARIABLE dispatcher  \* per process: where its handler is, and its locals

DispatcherPc == {"idle", "claimed", "deliver", "undelivered", "delivered",
                 "complete", "release"}

NoMessage == NoOwner   \* the item of an idle worker

DispatcherLocals == [pc    : DispatcherPc,
                     item  : Items \cup {NoMessage},
                     tries : 1..DispatcherRetries]

IdleDispatcher == [pc |-> "idle", item |-> NoMessage, tries |-> 1]

DispatcherInit   == dispatcher = [d \in Dispatchers |-> IdleDispatcher]
DispatcherTypeOK == dispatcher \in [Dispatchers -> DispatcherLocals]

Standing(d, pc) == dispatcher[d].pc = pc
Proceed(d, pc)  == dispatcher' = [dispatcher EXCEPT ![d].pc = pc]
Rest(d)         == dispatcher' = [dispatcher EXCEPT ![d] = IdleDispatcher]

(* Slips: only the status is looked at, or the wrong column. *)
IsStatusDispatched(i) == items[i].status = "DISPATCHED"
IsHandedOver(i)       == items[i].status = "DISPATCHED" \/ items[i].analyzedEnqueued

(* status = DISPATCHED, or dispatched_at is set; a missing item was not. *)
IsAlreadyDispatched(i) == items[i].status = "DISPATCHED" \/ items[i].dispatched

(* Slip: dispatched_at is not set. *)
MarkStatusOnly(i) == UpdateItem(i, [items[i] EXCEPT !.status = "DISPATCHED"])

(* Unlike job-analyzer's, these statements have no guard on the status. *)
MarkUndelivered(i) == UpdateItem(i, [items[i] EXCEPT !.status = "FAILED"])

MarkDispatched(i) ==
  UpdateItem(i, [items[i] EXCEPT !.status = "DISPATCHED", !.dispatched = TRUE])

ClaimDispatch(d) ==
  /\ Standing(d, "idle")
  /\ \E i \in Items :
       /\ IsNext(dispatch_queue, i)
       /\ dispatch_queue' = Claim(dispatch_queue, i, d, DispatchCountCap)
       /\ dispatcher' = [dispatcher EXCEPT ![d] = [pc |-> "claimed", item |-> i, tries |-> 1]]
  /\ UNCHANGED <<items, analyzer_queue, sent, faults>>

(* The rate limiter's wait is cut short, or the template fails to render. *)
InterruptDispatch(d) ==
  /\ Standing(d, "claimed") /\ Fault
  /\ Proceed(d, "release")
  /\ UNCHANGED <<tables, sent>>

(* The duplicate check.  Its error ends the handler without giving the     *)
(* claim back: the row stays leased until the lease expires.               *)
CheckDispatched(d) ==
  /\ Standing(d, "claimed")
  /\ \/ /\ Proceed(d, IF IsAlreadyDispatched(dispatcher[d].item) THEN "complete" ELSE "deliver")
        /\ NoFault
     \/ Rest(d) /\ Fault
  /\ UNCHANGED <<tables, sent>>

(* Slip: the message without parse_mode goes out after the first as well. *)
DeliverTwice(d) ==
  LET i == dispatcher[d].item IN
  /\ Standing(d, "deliver") /\ i \notin Undeliverable
  /\ sent' = [sent EXCEPT ![i] = @ + 2]
  /\ Proceed(d, "delivered")
  /\ UNCHANGED <<tables, faults>>

DeliverOk(d) ==
  LET i == dispatcher[d].item IN
  /\ Standing(d, "deliver") /\ i \notin Undeliverable
  /\ sent' = [sent EXCEPT ![i] = @ + 1]
  /\ Proceed(d, "delivered")
  /\ UNCHANGED <<tables, faults>>

(* Nothing reached the destination. *)
DeliverFails(d) ==
  /\ Standing(d, "deliver")
  /\ Proceed(d, "undelivered")
  /\ UNCHANGED <<tables, sent, faults>>

(* The destination took the message but the call reports an error: a time- *)
(* out waiting for the answer, or an answer that does not decode.          *)
DeliverAmbiguously(d) ==
  LET i == dispatcher[d].item IN
  /\ Standing(d, "deliver") /\ i \notin Undeliverable /\ Fault
  /\ sent' = [sent EXCEPT ![i] = @ + 1]
  /\ Proceed(d, "undelivered")
  /\ UNCHANGED tables

(* Slip: a message that could not be delivered is completed. *)
GiveUpDelivery(d) ==
  /\ Standing(d, "undelivered")
  /\ \/ items' = MarkUndelivered(dispatcher[d].item) /\ NoFault
     \/ UNCHANGED items /\ Fault
  /\ \/ /\ dispatcher[d].tries < DispatcherRetries
        /\ dispatcher' = [dispatcher EXCEPT ![d].pc = "deliver", ![d].tries = @ + 1]
     \/ dispatcher[d].tries = DispatcherRetries /\ Proceed(d, "complete")
  /\ UNCHANGED <<analyzer_queue, dispatch_queue, sent>>

(* Every failed attempt marks the item FAILED; then the next attempt, or   *)
(* the claim is given back.  A shutdown ends the attempts early.           *)
RetryDelivery(d) ==
  /\ Standing(d, "undelivered")
  /\ \/ items' = MarkUndelivered(dispatcher[d].item) /\ NoFault
     \/ UNCHANGED items /\ Fault
  /\ \/ /\ dispatcher[d].tries < DispatcherRetries
        /\ dispatcher' = [dispatcher EXCEPT ![d].pc = "deliver", ![d].tries = @ + 1]
     \/ dispatcher[d].tries = DispatcherRetries /\ Proceed(d, "release")
  /\ UNCHANGED <<analyzer_queue, dispatch_queue, sent>>

InterruptDelivery(d) ==
  /\ Standing(d, "deliver") /\ dispatcher[d].tries > 1 /\ Fault
  /\ Proceed(d, "release")
  /\ UNCHANGED <<tables, sent>>

(* An error of this statement is ignored: the claim is completed anyway. *)
RecordDispatched(d) ==
  /\ Standing(d, "delivered")
  /\ \/ items' = MarkDispatched(dispatcher[d].item) /\ NoFault
     \/ UNCHANGED items /\ Fault
  /\ Proceed(d, "complete")
  /\ UNCHANGED <<analyzer_queue, dispatch_queue, sent>>

CompleteDispatchClaim(d) ==
  /\ Standing(d, "complete")
  /\ \/ dispatch_queue' = Complete(dispatch_queue, dispatcher[d].item, d) /\ NoFault
     \/ UNCHANGED dispatch_queue /\ Fault
  /\ Rest(d)
  /\ UNCHANGED <<items, analyzer_queue, sent>>

ReleaseDispatchClaim(d) ==
  /\ Standing(d, "release")
  /\ \/ dispatch_queue' = Release(dispatch_queue, dispatcher[d].item, d) /\ NoFault
     \/ UNCHANGED dispatch_queue /\ Fault
  /\ Rest(d)
  /\ UNCHANGED <<items, analyzer_queue, sent>>

(* The process dies and is started again under a new worker id. *)
CrashDispatcher(d) ==
  /\ Crash("message-dispatcher")
  /\ dispatch_queue' = Orphan(dispatch_queue, d)
  /\ Rest(d)
  /\ UNCHANGED <<items, analyzer_queue>>

DispatcherStep(d) ==
  /\ \/ ClaimDispatch(d)  \/ InterruptDispatch(d)  \/ CheckDispatched(d)
     \/ DeliverOk(d)      \/ DeliverFails(d)       \/ DeliverAmbiguously(d)
     \/ RetryDelivery(d)  \/ InterruptDelivery(d)  \/ RecordDispatched(d)
     \/ CompleteDispatchClaim(d) \/ ReleaseDispatchClaim(d)
  /\ UNCHANGED <<cleared, crashes, removals>>
=============================================================================
