----------------------------- MODULE Analyzer -----------------------------
(***************************************************************************)
(* job-analyzer: claims the oldest job of analyzer_queue, asks the LLM for *)
(* the structured advert, stores it, hands it over to dispatch_queue and   *)
(* completes the claim.  A job that keeps failing is quarantined: DONE     *)
(* with an error.  A process runs one job at a time (MaxConcurrency is     *)
(* forced to 1); several processes may share the queue.                    *)
(***************************************************************************)
EXTENDS Store

CONSTANTS
  AnalyzerRetries,      \* cfg.RetryAttempts
  MaxDeliveryAttempts,  \* ANALYZER_MAX_DELIVERY_ATTEMPTS
  RawCountCap           \* bound of analyzer_queue.delivery_count

ASSUME AnalyzerAssumption ==
  /\ AnalyzerRetries \in Nat \ {0}
  /\ MaxDeliveryAttempts \in Nat \ {0}
  /\ RawCountCap \in Nat /\ RawCountCap > MaxDeliveryAttempts

VARIABLE analyzer  \* per process: where its handler is, and its locals

AnalyzerPc == {"idle", "claimed", "analyze", "judge", "poison", "fail",
               "handOver", "stamp", "complete", "release"}

NoJob == NoOwner   \* the item of an idle worker

AnalyzerLocals == [pc    : AnalyzerPc,
                   item  : Items \cup {NoJob},
                   tries : 1..AnalyzerRetries,
                   fatal : BOOLEAN]   \* the last error is non-retryable

IdleAnalyzer == [pc |-> "idle", item |-> NoJob, tries |-> 1, fatal |-> FALSE]

AnalyzerInit   == analyzer = [w \in Analyzers |-> IdleAnalyzer]
AnalyzerTypeOK == analyzer \in [Analyzers -> AnalyzerLocals]

At(w, pc)   == analyzer[w].pc = pc
GoTo(w, pc) == analyzer' = [analyzer EXCEPT ![w].pc = pc]
Finish(w)   == analyzer' = [analyzer EXCEPT ![w] = IdleAnalyzer]

(* Slip: the guard on the status is gone. *)
MarkAnyFailed(i) == UpdateItem(i, [items[i] EXCEPT !.status = "FAILED"])

(* UPDATE rss_items SET status = ... WHERE id = ? AND status <> DISPATCHED *)
MarkFailed(i) ==
  IF items[i].status = "DISPATCHED" THEN items
  ELSE UpdateItem(i, [items[i] EXCEPT !.status = "FAILED"])

MarkAnalyzed(i) ==
  IF items[i].status = "DISPATCHED" THEN items
  ELSE UpdateItem(i, [items[i] EXCEPT !.status = "ANALYZED", !.analyzed = TRUE])

MarkHandedOver(i) == UpdateItem(i, [items[i] EXCEPT !.analyzedEnqueued = TRUE])

(* Run: take the oldest claimable job under a fresh lease. *)
ClaimRaw(w) ==
  /\ At(w, "idle")
  /\ \E i \in Items :
       /\ IsNext(analyzer_queue, i)
       /\ analyzer_queue' = Claim(analyzer_queue, i, w, RawCountCap)
       /\ analyzer' = [analyzer EXCEPT ![w] = [pc |-> "claimed", item |-> i,
                                               tries |-> 1, fatal |-> FALSE]]
  /\ UNCHANGED <<items, dispatch_queue, faults>>

(* The rate limiter's wait is cut short by the shutdown: give the job back. *)
InterruptRaw(w) ==
  /\ At(w, "claimed") /\ Fault
  /\ GoTo(w, "release")
  /\ UNCHANGED tables

(* Slip: the stored result is not looked up. *)
FindNothing(w) ==
  At(w, "claimed") /\ GoTo(w, "analyze") /\ UNCHANGED tables /\ NoFault

(* Slip: a stored result is taken for one that was handed over. *)
TrustStored(w) ==
  /\ At(w, "claimed")
  /\ \/ GoTo(w, IF items[analyzer[w].item].analyzed THEN "complete" ELSE "analyze") /\ NoFault
     \/ GoTo(w, "analyze") /\ Fault
  /\ UNCHANGED tables

(* A stored result is reused; an error of the lookup counts as none. *)
FindStored(w) ==
  /\ At(w, "claimed")
  /\ \/ GoTo(w, IF items[analyzer[w].item].analyzed THEN "handOver" ELSE "analyze") /\ NoFault
     \/ GoTo(w, "analyze") /\ Fault
  /\ UNCHANGED tables

(* The LLM answers with a valid advert; the item is marked ANALYZED and an *)
(* error of that statement is ignored.                                     *)
AnalyzeOk(w) ==
  /\ At(w, "analyze")
  /\ \/ items' = MarkAnalyzed(analyzer[w].item) /\ NoFault
     \/ UNCHANGED items /\ Fault
  /\ GoTo(w, "handOver")
  /\ UNCHANGED <<analyzer_queue, dispatch_queue>>

(* An attempt fails and the item is marked FAILED at once; the handler     *)
(* tries again until the attempts are used up.                             *)
AnalyzeFails(w) ==
  /\ At(w, "analyze")
  /\ \/ items' = MarkFailed(analyzer[w].item) /\ NoFault
     \/ UNCHANGED items /\ Fault
  /\ \/ /\ analyzer[w].tries < AnalyzerRetries
        /\ analyzer' = [analyzer EXCEPT ![w].tries = @ + 1]
     \/ /\ analyzer[w].tries = AnalyzerRetries
        /\ \E fatal \in BOOLEAN :
             analyzer' = [analyzer EXCEPT ![w].pc = "judge", ![w].fatal = fatal]
  /\ UNCHANGED <<analyzer_queue, dispatch_queue>>

(* A shutdown during the pause between two attempts ends them early, with  *)
(* an error that is not the non-retryable one.                             *)
InterruptAnalysis(w) ==
  /\ At(w, "analyze") /\ analyzer[w].tries > 1 /\ Fault
  /\ GoTo(w, "judge")
  /\ UNCHANGED tables

(* Slip: one delivery more than the threshold. *)
TooManyLater(w) ==
  LET i == analyzer[w].item IN
  /\ OwnedBy(analyzer_queue, i, w)
  /\ analyzer_queue[i].count > MaxDeliveryAttempts

(* Quarantine a job whose error is non-retryable, or that was delivered    *)
(* often enough; the count is readable only while the lease is still ours. *)
TooManyDeliveries(w) ==
  LET i == analyzer[w].item IN
  /\ OwnedBy(analyzer_queue, i, w)
  /\ analyzer_queue[i].count >= MaxDeliveryAttempts

Judge(w) ==
  /\ At(w, "judge")
  /\ \/ /\ GoTo(w, IF analyzer[w].fatal \/ TooManyDeliveries(w) THEN "poison" ELSE "release")
        /\ NoFault
     \/ ~analyzer[w].fatal /\ GoTo(w, "release") /\ Fault
  /\ UNCHANGED tables

MarkPoison(w) ==
  /\ At(w, "poison")
  /\ \/ items' = MarkFailed(analyzer[w].item) /\ NoFault
     \/ UNCHANGED items /\ Fault
  /\ GoTo(w, "fail")
  /\ UNCHANGED <<analyzer_queue, dispatch_queue>>

FailClaim(w) ==
  /\ At(w, "fail")
  /\ \/ analyzer_queue' = Fail(analyzer_queue, analyzer[w].item, w) /\ NoFault
     \/ UNCHANGED analyzer_queue /\ Fault
  /\ Finish(w)
  /\ UNCHANGED <<items, dispatch_queue>>

(* Slip: the error of the statement is ignored. *)
HandOverBlindly(w) ==
  /\ At(w, "handOver")
  /\ \/ dispatch_queue' = Enqueue(dispatch_queue, analyzer[w].item) /\ NoFault
     \/ UNCHANGED dispatch_queue /\ Fault
  /\ GoTo(w, "stamp")
  /\ UNCHANGED <<items, analyzer_queue>>

(* enqueueDispatchJob, first statement; its error gives the claim back. *)
HandOver(w) ==
  /\ At(w, "handOver")
  /\ \/ /\ dispatch_queue' = Enqueue(dispatch_queue, analyzer[w].item)
        /\ GoTo(w, "stamp") /\ NoFault
     \/ UNCHANGED dispatch_queue /\ GoTo(w, "release") /\ Fault
  /\ UNCHANGED <<items, analyzer_queue>>

(* enqueueDispatchJob, second statement; its error is ignored. *)
StampHandOver(w) ==
  /\ At(w, "stamp")
  /\ \/ items' = MarkHandedOver(analyzer[w].item) /\ NoFault
     \/ UNCHANGED items /\ Fault
  /\ GoTo(w, "complete")
  /\ UNCHANGED <<analyzer_queue, dispatch_queue>>

CompleteClaim(w) ==
  /\ At(w, "complete")
  /\ \/ analyzer_queue' = Complete(analyzer_queue, analyzer[w].item, w) /\ NoFault
     \/ UNCHANGED analyzer_queue /\ Fault
  /\ Finish(w)
  /\ UNCHANGED <<items, dispatch_queue>>

ReleaseClaim(w) ==
  /\ At(w, "release")
  /\ \/ analyzer_queue' = Release(analyzer_queue, analyzer[w].item, w) /\ NoFault
     \/ UNCHANGED analyzer_queue /\ Fault
  /\ Finish(w)
  /\ UNCHANGED <<items, dispatch_queue>>

(* The process dies and is started again under a new worker id. *)
CrashAnalyzer(w) ==
  /\ Crash("job-analyzer")
  /\ analyzer_queue' = Orphan(analyzer_queue, w)
  /\ Finish(w)
  /\ UNCHANGED <<items, dispatch_queue>>

AnalyzerStep(w) ==
  /\ \/ ClaimRaw(w)     \/ InterruptRaw(w)  \/ FindStored(w)
     \/ AnalyzeOk(w)    \/ AnalyzeFails(w)  \/ InterruptAnalysis(w)
     \/ Judge(w)        \/ MarkPoison(w)    \/ FailClaim(w)
     \/ HandOver(w)     \/ StampHandOver(w)
     \/ CompleteClaim(w) \/ ReleaseClaim(w)
  /\ UNCHANGED <<history, crashes, removals>>
=============================================================================
