----------------------------- MODULE WebAdmin -----------------------------
(***************************************************************************)
(* web-admin's requests that change the pipeline: the requeue of an item   *)
(* (a read, then two statements that no transaction holds together) and    *)
(* its deletion (one transaction).  Requests are served concurrently.      *)
(***************************************************************************)
EXTENDS Store

CONSTANTS
  Admins,       \* requests in service at the same time
  MaxRequeues   \* bound: requeue requests

ASSUME AdminAssumption == MaxRequeues \in Nat

VARIABLES
  admin,     \* per request: where its handler is, and its item
  requeues   \* requeue requests spent

NoRequest == NoOwner

AdminPc     == {"idle", "queueRaw", "resetRaw", "queueAnalyzed", "resetAnalyzed"}
IdleAdmin   == [pc |-> "idle", item |-> NoRequest]
AdminInit   == admin = [a \in Admins |-> IdleAdmin] /\ requeues = 0
AdminTypeOK == /\ admin \in [Admins -> [pc : AdminPc, item : Items \cup {NoRequest}]]
               /\ requeues \in 0..MaxRequeues

Answer(a)     == admin' = [admin EXCEPT ![a] = IdleAdmin]
Serve(a, pc)  == admin' = [admin EXCEPT ![a].pc = pc]
Serving(a, pc) == admin[a].pc = pc

(* The handler reads the stored payload, which decides the queue. *)
RequeueRead(a, i) ==
  /\ Serving(a, "idle") /\ items[i].present /\ requeues < MaxRequeues
  /\ admin' = [admin EXCEPT ![a] =
       [pc |-> IF items[i].analyzed THEN "queueAnalyzed" ELSE "queueRaw", item |-> i]]
  /\ requeues' = requeues + 1
  /\ UNCHANGED <<tables, history, faults, removals>>

(* mode=raw: the raw event is rebuilt from the item and queued again; an   *)
(* error answers 500.                                                      *)
RequeueRaw(a) ==
  /\ Serving(a, "queueRaw")
  /\ \/ /\ analyzer_queue' = Enqueue(analyzer_queue, admin[a].item)
        /\ Serve(a, "resetRaw") /\ NoFault
     \/ UNCHANGED analyzer_queue /\ Answer(a) /\ Fault
  /\ UNCHANGED <<items, dispatch_queue, history, removals, requeues>>

(* mode=analyzed: the stored payload is queued again. *)
RequeueAnalyzed(a) ==
  /\ Serving(a, "queueAnalyzed")
  /\ \/ /\ dispatch_queue' = Enqueue(dispatch_queue, admin[a].item)
        /\ Serve(a, "resetAnalyzed") /\ NoFault
     \/ UNCHANGED dispatch_queue /\ Answer(a) /\ Fault
  /\ UNCHANGED <<items, analyzer_queue, history, removals, requeues>>

MarkNew(i) ==
  UpdateItem(i, [items[i] EXCEPT !.status = "NEW", !.dispatched = FALSE, !.rawEnqueued = TRUE])

(* Slip: the status stays. *)
MarkAgainPartly(i) ==
  UpdateItem(i, [items[i] EXCEPT !.dispatched = FALSE, !.analyzedEnqueued = TRUE])

MarkAgain(i) ==
  UpdateItem(i, [items[i] EXCEPT !.status = "ANALYZED", !.dispatched = FALSE,
                                 !.analyzedEnqueued = TRUE])

(* The second statement of each mode: dispatched_at = NULL, the status and *)
(* the enqueue stamp.  Its error is ignored and the answer is 200.         *)
ResetItem(a, rows) ==
  /\ \/ /\ items' = rows
        /\ cleared' = [cleared EXCEPT ![admin[a].item] = @ + 1] /\ NoFault
     \/ UNCHANGED <<items, cleared>> /\ Fault
  /\ Answer(a)
  /\ UNCHANGED <<analyzer_queue, dispatch_queue, sent, removals, requeues>>

ResetToNew(a)      == Serving(a, "resetRaw") /\ ResetItem(a, MarkNew(admin[a].item))
ResetToAnalyzed(a) == Serving(a, "resetAnalyzed") /\ ResetItem(a, MarkAgain(admin[a].item))

(* One transaction: the item and its rows in both queues.  An error of     *)
(* either queue's statement is ignored and the rest is committed.          *)
HandleItemDelete(i) ==
  /\ items[i].present /\ removals < MaxRemovals
  /\ items' = [items EXCEPT ![i] = NoItem]
  /\ \/ /\ analyzer_queue' = DeleteRow(analyzer_queue, i)
        /\ dispatch_queue' = DeleteRow(dispatch_queue, i) /\ NoFault
     \/ /\ analyzer_queue' \in {analyzer_queue, DeleteRow(analyzer_queue, i)}
        /\ dispatch_queue' \in {dispatch_queue, DeleteRow(dispatch_queue, i)} /\ Fault
  /\ removals' = removals + 1
  /\ UNCHANGED <<history, admin, requeues>>

(* The process dies: every request in service is cut short. *)
CrashAdmin ==
  /\ Crash("web-admin")
  /\ admin' = [a \in Admins |-> IdleAdmin]
  /\ UNCHANGED <<tables, requeues>>

AdminWork(a) == RequeueRaw(a) \/ RequeueAnalyzed(a) \/ ResetToNew(a) \/ ResetToAnalyzed(a)

AdminStep ==
  /\ \/ \E a \in Admins, i \in Items : RequeueRead(a, i)
     \/ \E a \in Admins : AdminWork(a)
     \/ \E i \in Items : HandleItemDelete(i)
  /\ UNCHANGED crashes
=============================================================================
