---------------------------- MODULE LeaseQueue ----------------------------
(***************************************************************************)
(* The SQL statements that job-analyzer, message-dispatcher, rss-reader    *)
(* and web-admin run against a queue table.  analyzer_queue and            *)
(* dispatch_queue have the same columns and the services repeat the same   *)
(* statements for both, so one set of operators stands for both tables.    *)
(*                                                                         *)
(* A table is a function from item ids to rows.  Every operator returns    *)
(* the table after one statement: SQLite executes a statement atomically.  *)
(*   enqueued_at   becomes the rank of the row among the rows of the table *)
(*                 (it is only ever compared, by ORDER BY enqueued_at);    *)
(*   lease_until   becomes the Boolean "lease_until is in the past";       *)
(*   last_error    becomes the Boolean "last_error is not empty";          *)
(*   payload_json, updated_at and done_at are not read by any decision.    *)
(***************************************************************************)
EXTENDS Naturals, FiniteSets

CONSTANTS
  Items,    \* item ids: rss_items.id = item_hash, also the item_id of a queue row
  Workers,  \* processes that may hold a lease
  NoOwner,  \* lease_owner IS NULL
  Gone      \* lease_owner of a process that has exited: worker ids are never reused

ASSUME ItemsAssumption  == IsFiniteSet(Items)
ASSUME OwnersAssumption == /\ NoOwner \notin Workers \cup Items
                           /\ Gone \notin Workers /\ NoOwner # Gone

RowState == {"ABSENT", "QUEUED", "LEASED", "DONE"}

Row == [state   : RowState,
        owner   : Workers \cup {NoOwner, Gone},
        expired : BOOLEAN,
        count   : Nat,
        failed  : BOOLEAN,
        rank    : Nat]

NoRow == [state |-> "ABSENT", owner |-> NoOwner, expired |-> FALSE,
          count |-> 0, failed |-> FALSE, rank |-> 0]

EmptyQueue == [i \in Items |-> NoRow]

Rows(q) == {i \in Items : q[i].state # "ABSENT"}

(* INSERT ... ON CONFLICT(item_id) DO UPDATE: a new row goes last; an      *)
(* existing one is forced back to QUEUED, whoever holds it, and keeps its  *)
(* enqueued_at and its delivery_count.                                     *)
Enqueue(q, i) ==
  [q EXCEPT ![i] = [state |-> "QUEUED", owner |-> NoOwner, expired |-> FALSE,
                    count |-> q[i].count, failed |-> FALSE,
                    rank  |-> IF q[i].state = "ABSENT"
                              THEN Cardinality(Rows(q)) + 1 ELSE q[i].rank]]

(* Slip: a row whose lease ran out is never taken again. *)
QueuedOnly(row) == row.state = "QUEUED"

Claimable(row) == row.state = "QUEUED" \/ (row.state = "LEASED" /\ row.expired)

(* i is the row that ORDER BY enqueued_at LIMIT 1 selects. *)
IsNext(q, i) ==
  /\ Claimable(q[i])
  /\ \A j \in Items : Claimable(q[j]) => q[i].rank <= q[j].rank

(* UPDATE ... SET state='LEASED', delivery_count = delivery_count + 1.     *)
(* The counter is kept up to cap: nothing distinguishes larger values.     *)
Claim(q, i, w, cap) ==
  [q EXCEPT ![i] = [state |-> "LEASED", owner |-> w, expired |-> FALSE,
                    count |-> IF q[i].count < cap THEN q[i].count + 1 ELSE q[i].count,
                    failed |-> FALSE, rank |-> q[i].rank]]

OwnedBy(q, i, w) == q[i].owner = w

(* UPDATE ... WHERE item_id = ? AND lease_owner = ?: no effect unless the  *)
(* caller still owns the lease.                                            *)
Settle(q, i, w, state, failed) ==
  IF OwnedBy(q, i, w)
  THEN [q EXCEPT ![i] = [state |-> state, owner |-> NoOwner, expired |-> FALSE,
                         count |-> q[i].count, failed |-> failed, rank |-> q[i].rank]]
  ELSE q

Complete(q, i, w) == Settle(q, i, w, "DONE", FALSE)
Release(q, i, w)  == Settle(q, i, w, "QUEUED", TRUE)

(* Slip: a state that the tables do not know. *)
FailUnknown(q, i, w) == Settle(q, i, w, "FAILED", TRUE)

Fail(q, i, w)     == Settle(q, i, w, "DONE", TRUE)

(* DELETE ... WHERE item_id = ?: the rows behind it move up one rank. *)
DeleteRow(q, i) ==
  [j \in Items |-> CASE j = i -> NoRow
                     [] j # i /\ q[i].state # "ABSENT" /\ q[j].rank > q[i].rank ->
                          [q[j] EXCEPT !.rank = @ - 1]
                     [] OTHER -> q[j]]

(* lease_until of a leased row passes. *)
Expire(q, i) == [q EXCEPT ![i].expired = TRUE]

(* Slip: the restarted process draws the same worker id. *)
SameOwner(q, w) == q

(* Process w exits; the one that replaces it draws a new worker id, so     *)
(* nobody can settle the rows w leased: they can only expire.              *)
Orphan(q, w) ==
  [i \in Items |-> IF q[i].owner = w THEN [q[i] EXCEPT !.owner = Gone] ELSE q[i]]
=============================================================================
