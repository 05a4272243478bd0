------------------------------- MODULE Store -------------------------------
(***************************************************************************)
(* The SQLite database that the four services share, and what surrounds    *)
(* it: the destination the dispatcher delivers to, and the budgets for the *)
(* faults a run allows.  Each service opens the file for itself; there is  *)
(* no transaction around a handler, so every statement is a step of its    *)
(* own (web-admin's item deletion is the one transaction).                 *)
(***************************************************************************)
EXTENDS LeaseQueue

CONSTANTS
  Analyzers,    \* job-analyzer processes
  Dispatchers,  \* message-dispatcher processes
  MaxFaults,    \* bound: failed statements, ambiguous deliveries, interruptions
  MaxCrashes,   \* bound: process exits
  MaxRemovals,  \* bound: item deletions and retention sweeps
  MayCrash      \* the services a run lets crash

Services == {"rss-reader", "job-analyzer", "message-dispatcher", "web-admin"}

ASSUME WorkersAssumption == Workers = Analyzers \cup Dispatchers
                            /\ Analyzers \cap Dispatchers = {}
ASSUME BudgetAssumption  == /\ MaxFaults \in Nat /\ MaxCrashes \in Nat /\ MaxRemovals \in Nat
                            /\ MayCrash \subseteq Services

VARIABLES
  items,           \* table rss_items
  analyzer_queue,  \* table analyzer_queue
  dispatch_queue,  \* table dispatch_queue
  sent,            \* history: messages that reached the destination, per item
  cleared,         \* history: times a requeue reset dispatched_at, per item
  faults,          \* faults spent
  crashes,         \* crashes spent
  removals         \* removals spent

tables  == <<items, analyzer_queue, dispatch_queue>>
history == <<sent, cleared>>

Status == {"NEW", "ANALYZED", "DISPATCHED", "FAILED"}

(* The columns of rss_items that decide anything.  A nullable column is    *)
(* the Boolean "it is set"; texts and hashes are left out.                 *)
Item == [present          : BOOLEAN,              \* the row exists
         status           : Status,
         analyzed         : BOOLEAN,              \* analyzed_payload_json
         dispatched       : BOOLEAN,              \* dispatched_at
         rawEnqueued      : BOOLEAN,              \* raw_enqueued_at
         analyzedEnqueued : BOOLEAN]              \* analyzed_enqueued_at

NoItem == [present |-> FALSE, status |-> "NEW", analyzed |-> FALSE, dispatched |-> FALSE,
           rawEnqueued |-> FALSE, analyzedEnqueued |-> FALSE]

NewItem == [NoItem EXCEPT !.present = TRUE]

(* UPDATE rss_items ... WHERE id = i: no effect when the row is gone. *)
UpdateItem(i, row) == IF items[i].present THEN [items EXCEPT ![i] = row] ELSE items

(* A statement, or the call it stands for, returns an error. *)
Fault   == faults < MaxFaults /\ faults' = faults + 1
NoFault == UNCHANGED faults

Crash(service) ==
  /\ service \in MayCrash
  /\ crashes < MaxCrashes
  /\ crashes' = crashes + 1
  /\ UNCHANGED <<history, faults, removals>>

(* Time passes until lease_until of a leased row. *)
RawLeaseExpires(i) ==
  /\ analyzer_queue[i].state = "LEASED" /\ ~analyzer_queue[i].expired
  /\ analyzer_queue' = Expire(analyzer_queue, i)
  /\ UNCHANGED <<items, dispatch_queue, history, faults, crashes, removals>>

DispatchLeaseExpires(i) ==
  /\ dispatch_queue[i].state = "LEASED" /\ ~dispatch_queue[i].expired
  /\ dispatch_queue' = Expire(dispatch_queue, i)
  /\ UNCHANGED <<items, analyzer_queue, history, faults, crashes, removals>>

StoreInit ==
  /\ items = [i \in Items |-> NoItem]
  /\ analyzer_queue = EmptyQueue
  /\ dispatch_queue = EmptyQueue
  /\ sent = [i \in Items |-> 0]
  /\ cleared = [i \in Items |-> 0]
  /\ faults = 0 /\ crashes = 0 /\ removals = 0

StoreTypeOK ==
  /\ items \in [Items -> Item]
  /\ analyzer_queue \in [Items -> Row]
  /\ dispatch_queue \in [Items -> Row]
  /\ sent \in [Items -> Nat]
  /\ cleared \in [Items -> Nat]
  /\ faults \in 0..MaxFaults
  /\ crashes \in 0..MaxCrashes
  /\ removals \in 0..MaxRemovals
=============================================================================
