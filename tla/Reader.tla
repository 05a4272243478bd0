------------------------------ MODULE Reader ------------------------------
(***************************************************************************)
(* rss-reader, from the point where a poll has parsed a feed: every entry  *)
(* that rss_items does not hold yet is stored as NEW and put in            *)
(* analyzer_queue.  The retention sweep runs in the same loop, so never in *)
(* the middle of a poll.                                                   *)
(***************************************************************************)
EXTENDS Store

VARIABLE reader  \* the one rss-reader process: where it is, which entry it handles, and as
                 \* history the entries it had stored and not yet queued when it was killed

NoEntry == NoOwner

ReaderPc     == {"idle", "queueRaw", "stampRaw", "giveUp"}
ReaderInit   == reader = [pc |-> "idle", item |-> NoEntry, abandoned |-> {}]
ReaderTypeOK == reader \in [pc : ReaderPc, item : Items \cup {NoEntry}, abandoned : SUBSET Items]

(* An entry that is stored anew has a new chance. *)
Stored(i)  == [pc |-> "queueRaw", item |-> i, abandoned |-> reader.abandoned \ {i}]
IdleReader == [reader EXCEPT !.pc = "idle", !.item = NoEntry]

MarkQueued(i)   == UpdateItem(i, [items[i] EXCEPT !.status = "NEW", !.rawEnqueued = TRUE])
MarkUnqueued(i) == UpdateItem(i, [items[i] EXCEPT !.status = "FAILED"])

(* Slip: the conflict counts as an insertion. *)
InsertAnyway(i) ==
  /\ reader.pc = "idle"
  /\ items' = [items EXCEPT ![i] = IF items[i].present THEN @ ELSE NewItem]
  /\ reader' = Stored(i)
  /\ UNCHANGED <<analyzer_queue, dispatch_queue, faults, removals>>

(* INSERT ... ON CONFLICT(item_hash) DO NOTHING: an entry seen before is   *)
(* skipped, so only a missing row leads on to the queue.                   *)
InsertItemIfNew(i) ==
  /\ reader.pc = "idle" /\ ~items[i].present
  /\ items' = [items EXCEPT ![i] = NewItem]
  /\ reader' = Stored(i)
  /\ UNCHANGED <<analyzer_queue, dispatch_queue, faults, removals>>

(* enqueueAnalyzerJob, first statement. *)
EnqueueAnalyzerJob ==
  /\ reader.pc = "queueRaw"
  /\ \/ /\ analyzer_queue' = Enqueue(analyzer_queue, reader.item)
        /\ reader' = [reader EXCEPT !.pc = "stampRaw"] /\ NoFault
     \/ UNCHANGED analyzer_queue /\ reader' = [reader EXCEPT !.pc = "giveUp"] /\ Fault
  /\ UNCHANGED <<items, dispatch_queue, removals>>

(* enqueueAnalyzerJob, second statement: the status becomes NEW again,     *)
(* whatever it is by now.                                                  *)
MarkRawEnqueued ==
  /\ reader.pc = "stampRaw"
  /\ \/ /\ items' = MarkQueued(reader.item)
        /\ reader' = IdleReader /\ NoFault
     \/ UNCHANGED items /\ reader' = [reader EXCEPT !.pc = "giveUp"] /\ Fault
  /\ UNCHANGED <<analyzer_queue, dispatch_queue, removals>>

(* Either error of enqueueAnalyzerJob marks the item FAILED. *)
MarkEnqueueFailed ==
  /\ reader.pc = "giveUp"
  /\ \/ items' = MarkUnqueued(reader.item) /\ NoFault
     \/ UNCHANGED items /\ Fault
  /\ reader' = IdleReader
  /\ UNCHANGED <<analyzer_queue, dispatch_queue, removals>>

(* The retention sweep deletes the items created before a cutoff, and no   *)
(* queue rows.                                                             *)
Cleanup(S) ==
  /\ reader.pc = "idle" /\ removals < MaxRemovals
  /\ \E i \in S : items[i].present
  /\ items' = [i \in Items |-> IF i \in S THEN NoItem ELSE items[i]]
  /\ removals' = removals + 1
  /\ UNCHANGED <<reader, analyzer_queue, dispatch_queue, faults>>

CrashReader ==
  /\ Crash("rss-reader")
  /\ reader' = [IdleReader EXCEPT
                  !.abandoned = @ \cup (IF reader.pc = "queueRaw" THEN {reader.item} ELSE {})]
  /\ UNCHANGED tables

ReaderWork == EnqueueAnalyzerJob \/ MarkRawEnqueued \/ MarkEnqueueFailed

ReaderStep ==
  /\ \/ \E i \in Items : InsertItemIfNew(i)
     \/ ReaderWork
     \/ \E S \in SUBSET Items : Cleanup(S)
  /\ UNCHANGED <<history, crashes>>
=============================================================================
