------------------------------ MODULE Monitor ------------------------------
(***************************************************************************)
(* What web-admin tells its users about the pipeline: the lanes of the     *)
(* board and the queue states of the feed view, each read by one SELECT,   *)
(* and the queue monitor and the metrics, which are put together from      *)
(* several SELECTs while the services go on.  A count is kept as the set   *)
(* of the items it counts.                                                 *)
(***************************************************************************)
EXTENDS Pipeline, Sequences

VARIABLES
  report,  \* the request or metrics callback in service
  steady   \* history: the items it found in the pipeline and that nothing set back since

monitorVars == <<vars, report, steady>>

-----------------------------------------------------------------------------
(* The board: every item is in the lane of its first open queue row, or    *)
(* else in one that its status tells; "" is not shown.                     *)

(* Slip: a closed dispatch row is taken for a delivery. *)
NeverQueued(i) ==
  \/ items[i].status = "NEW" /\ analyzer_queue[i].state \in {"ABSENT", "DONE"}
  \/ items[i].status = "ANALYZED" /\ dispatch_queue[i].state = "ABSENT"

Anomalous(i) ==
  \/ items[i].status = "NEW" /\ analyzer_queue[i].state \in {"ABSENT", "DONE"}
  \/ items[i].status = "ANALYZED" /\ dispatch_queue[i].state \in {"ABSENT", "DONE"}

Lane(i) ==
  CASE analyzer_queue[i].state = "LEASED" -> "raw_inflight"
    [] analyzer_queue[i].state = "QUEUED" -> "raw_backlog"
    [] ~Open(analyzer_queue[i]) /\ dispatch_queue[i].state = "LEASED" -> "analyzed_inflight"
    [] ~Open(analyzer_queue[i]) /\ dispatch_queue[i].state = "QUEUED" -> "analyzed_backlog"
    [] ~Open(analyzer_queue[i]) /\ ~Open(dispatch_queue[i]) ->
         CASE items[i].status = "FAILED" -> "failed"
           [] Anomalous(i)               -> "anomalies"
           [] OTHER                      -> ""

-----------------------------------------------------------------------------
(* The feed view and the gauge of derived states: the status comes first,  *)
(* and dispatch_queue is not looked at.                                    *)

RawState == [ABSENT |-> "not_enqueued_raw", QUEUED |-> "queued_raw",
             LEASED |-> "inflight_raw",     DONE   |-> "processed_raw"]

(* Slip: a stored payload is taken for a hand-over. *)
StateByPayload(i) ==
  CASE items[i].status = "NEW" -> RawState[analyzer_queue[i].state]
    [] items[i].status = "ANALYZED" ->
         IF items[i].analyzed THEN "queued_analyzed" ELSE "not_enqueued_analyzed"
    [] items[i].status = "DISPATCHED" -> "dispatched"
    [] items[i].status = "FAILED"     -> "failed"

DerivedQueueState(i) ==
  CASE items[i].status = "NEW" -> RawState[analyzer_queue[i].state]
    [] items[i].status = "ANALYZED" ->
         IF items[i].analyzedEnqueued THEN "queued_analyzed" ELSE "not_enqueued_analyzed"
    [] items[i].status = "DISPATCHED" -> "dispatched"
    [] items[i].status = "FAILED"     -> "failed"

ShownRawEnqueued(i) ==
  analyzer_queue[i].state # "ABSENT" \/ items[i].status \in {"ANALYZED", "DISPATCHED"}
ShownAnalyzedEnqueued(i) == items[i].analyzedEnqueued \/ items[i].status = "DISPATCHED"
HasAnalyzedVersion(i)    == items[i].analyzed

-----------------------------------------------------------------------------
(* The queue monitor and the metrics.                                      *)

CountQueueStates(queue, state) == {i \in Items : queue[i].state = state}
CountItemStatuses(status)      == {i \in Items : items[i].present /\ items[i].status = status}

Gauge == [raw_backlog       |-> CountQueueStates(analyzer_queue, "QUEUED"),
          raw_inflight      |-> CountQueueStates(analyzer_queue, "LEASED"),
          analyzed_backlog  |-> CountQueueStates(dispatch_queue, "QUEUED"),
          analyzed_inflight |-> CountQueueStates(dispatch_queue, "LEASED"),
          failed            |-> CountItemStatuses("FAILED"),
          dispatched        |-> CountItemStatuses("DISPATCHED"),
          dispatched_total  |-> {i \in CountItemStatuses("DISPATCHED") : items[i].dispatched}]

(* Slip: the leased rows are counted before the queued ones. *)
LeasedFirst == <<{"raw_inflight"}, {"raw_backlog"}, {"analyzed_inflight"}, {"analyzed_backlog"},
                 {"failed"}, {"dispatched_total"}>>

(* handleQueueMonitor: one SELECT for each count. *)
QueueMonitorQueries ==
  <<{"raw_backlog"}, {"raw_inflight"}, {"analyzed_backlog"}, {"analyzed_inflight"},
    {"failed"}, {"dispatched_total"}>>

(* observePipelineMetrics: one SELECT ... GROUP BY for each table.  The    *)
(* gauges for DONE, NEW and ANALYZED say nothing about work that is open,  *)
(* and the last SELECT, by DerivedQueueState, reads one moment.            *)
MetricsQueries ==
  <<{"raw_backlog", "raw_inflight"}, {"analyzed_backlog", "analyzed_inflight"},
    {"failed", "dispatched"}>>

NoReport == [serving |-> FALSE, todo |-> <<>>, counted |-> {}]

InPipeline ==
  {i \in Items : /\ items[i].present
                 /\ \/ Open(analyzer_queue[i]) \/ Open(dispatch_queue[i])
                    \/ i \in Gauge["failed"] \cup Gauge["dispatched_total"]}

StartReport(queries) ==
  /\ ~report.serving
  /\ report' = [serving |-> TRUE, todo |-> queries, counted |-> {}]
  /\ steady' = InPipeline
  /\ UNCHANGED vars

(* queryCount: an error counts as zero; countQueueStates and               *)
(* countItemStatuses do the same.                                          *)
QueryCount ==
  /\ report.todo # <<>>
  /\ \/ /\ report' = [report EXCEPT !.todo = Tail(@),
                        !.counted = @ \cup UNION {Gauge[g] : g \in Head(report.todo)}]
        /\ NoFault
     \/ report' = [report EXCEPT !.todo = Tail(@)] /\ Fault
  /\ UNCHANGED <<tables, history, crashes, removals, analyzer, dispatcher, reader, admin,
                 requeues, steady>>

AnswerReport ==
  /\ report.serving /\ report.todo = <<>>
  /\ report' = NoReport /\ steady' = {}
  /\ UNCHANGED vars

(* The step takes i back in the pipeline: a request, a row that is given   *)
(* back or forced back, a status that is taken back; or it ends an item    *)
(* whose status the reader's late stamp has turned into NEW.               *)
SetBack(i) ==
  \/ \E a \in Admins : admin[a].item = i \/ admin'[a].item = i
  \/ analyzer_queue[i].state = "LEASED" /\ analyzer_queue'[i].state = "QUEUED"
  \/ dispatch_queue[i].state = "LEASED" /\ dispatch_queue'[i].state = "QUEUED"
  \/ items[i].status \in {"FAILED", "DISPATCHED"} /\ items'[i].status # items[i].status
  \/ Settled(i)' /\ items'[i].status = "NEW"

(* A crash of web-admin, which drops the report, is left to Next: nothing  *)
(* is said of a report that is not answered.                               *)
PipelineStep ==
  /\ Next
  /\ steady' = {i \in steady : ~SetBack(i)}
  /\ UNCHANGED report

MonitorInit == Init /\ report = NoReport /\ steady = {}

MonitorNext ==
  \/ PipelineStep
  \/ StartReport(QueueMonitorQueries) \/ StartReport(MetricsQueries)
  \/ QueryCount /\ faults' + crashes + removals + requeues <= MaxTrouble
  \/ AnswerReport

MonitorSpec == MonitorInit /\ [][MonitorNext]_monitorVars

-----------------------------------------------------------------------------

(* The board leaves out no item that still waits for its delivery: what it *)
(* does not show is on record as dispatched and was sent.  So an item that *)
(* a race, a crash or a failed statement stranded turns up in the lanes    *)
(* "anomalies" or "failed".                                                *)
BoardHidesOnlyDelivered ==
  \A i \in Items :
    (items[i].present /\ Lane(i) = "") => items[i].dispatched /\ sent[i] > 0

(* The feed view reads the status and the stamps and takes them for the    *)
(* state of the queues.  While no statement fails and nothing is removed   *)
(* that is right: an item shown as handed over has its row and its         *)
(* payload; and with one analyzer one shown as queued for dispatch is      *)
(* queued, unless a requeue has reset it, and the job of one shown as      *)
(* analyzed and not queued is still open.  (A second analyzer that has     *)
(* lost its lease marks an item ANALYZED that the first has closed.)       *)
FeedViewIsTrue ==
  (faults = 0 /\ removals = 0) =>
    \A i \in {j \in Items : items[j].present} :
      /\ ShownRawEnqueued(i) => analyzer_queue[i].state # "ABSENT"
      /\ ShownAnalyzedEnqueued(i) =>
           HasAnalyzedVersion(i) /\ dispatch_queue[i].state # "ABSENT"
      /\ (OneAnalyzer /\ DerivedQueueState(i) = "queued_analyzed" /\ cleared[i] = 0) =>
           Open(dispatch_queue[i])
      /\ (OneAnalyzer /\ DerivedQueueState(i) = "not_enqueued_analyzed") =>
           Open(analyzer_queue[i])

(* The counts of one report are read at different moments, yet with one    *)
(* analyzer an item that moves on while they are read, and that no requeue *)
(* has reset, is in at least one of them, as long as no statement fails    *)
(* and nothing is removed: the SELECTs follow the direction in which the   *)
(* items move, and on its way from one lane to the next no item is in      *)
(* neither.                                                                *)
ReportMissesNothing ==
  (OneAnalyzer /\ faults = 0 /\ removals = 0 /\ report.serving /\ report.todo = <<>>) =>
    \A i \in steady : cleared[i] = 0 => i \in report.counted
=============================================================================
