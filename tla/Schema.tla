------------------------------- MODULE Schema -------------------------------
(***************************************************************************)
(* How the four services build the schema of the one SQLite file they      *)
(* share.  Nothing orders their starts and no module owns the schema: New  *)
(* of each service runs its own script, statement by statement, against    *)
(* whatever the others have done so far.  A script is                      *)
(*   - a batch of CREATE ... IF NOT EXISTS, whose first error ends the     *)
(*     process (initDB, initStateDB, log.Fatal in main);                   *)
(*   - ALTER TABLE rss_items ADD COLUMN, one by one: "duplicate column     *)
(*     name" is ignored, any other error ends the process                  *)
(*     (migrateRSSItemsColumns);                                           *)
(*   - CREATE UNIQUE INDEX on item_hash, whose error is thrown away.       *)
(* Left out: the other indexes, and the tables that the last part creates  *)
(* again, which the batch has just made.                                   *)
(***************************************************************************)
EXTENDS Naturals, Sequences

CONSTANTS
  Databases,    \* the databases a start may meet: [tables, columns, unique]
  MaxFaults,    \* bound: statements that fail (disk, lock held over 5 s)
  MaxRestarts   \* bound: processes killed or ended that are started again

VARIABLES
  tables,     \* the tables there are
  columns,    \* the columns of rss_items
  unique,     \* rss_items.item_hash is UNIQUE, inline or by the index
  at,         \* service -> the statement of its script it runs next
  skipped,    \* service -> it ignored a failed CREATE UNIQUE INDEX
  found,      \* the database the first start met
  faults, restarts

schema == <<tables, columns, unique>>
vars == <<schema, at, skipped, found, faults, restarts>>

Services == {"rss-reader", "job-analyzer", "message-dispatcher", "web-admin"}

-----------------------------------------------------------------------------
(* The tables and the columns of rss_items. *)

\* The columns of rss_items, in the order of the ALTER statements.
Columns ==
  <<"id", "source_feed_url", "guid", "url", "title", "title_norm", "item_hash",
    "description", "links_json", "image_urls_json", "published_at",
    "fetched_at", "raw_enqueued_at", "raw_enqueue_count",
    "analyzed_enqueued_at", "analyzed_enqueue_count", "status", "analyzed_at",
    "analyzed_payload_json", "dispatched_at", "last_error", "created_at",
    "updated_at">>

AllColumns == {Columns[i] : i \in 1 .. Len(Columns)}

\* The columns no migration of the reader adds: the table has always had them.
FirstColumns == {"id", "status", "analyzed_at", "updated_at"}

\* A database is new, or has an older rss_items that a migration can complete.
ASSUME DatabasesAssumption ==
  \A db \in Databases :
    /\ "rss_items" \in db.tables => FirstColumns \subseteq db.columns
    /\ db.columns \subseteq AllColumns
    /\ db.unique \in BOOLEAN
    /\ db.unique => "rss_items" \in db.tables
ASSUME BoundsAssumption == MaxFaults \in Nat /\ MaxRestarts \in Nat

-----------------------------------------------------------------------------
(* The scripts. *)

Make(table) == [do |-> "make", name |-> table]
IndexOn(column) == [do |-> "index", name |-> column]
AddColumns == [do |-> "add", name |-> "rss_items"]
TryUnique == [do |-> "try", name |-> "item_hash"]

ReaderScript ==
  <<Make("processed_items"), Make("pending_items"), Make("feed_state"),
    Make("feed_poll_requests"), Make("rss_feeds"), Make("rss_items"),
    Make("analyzer_queue"), AddColumns, TryUnique>>

AnalyzerScript ==
  <<Make("rss_items"), Make("analyzer_queue"), Make("dispatch_queue"),
    Make("analyzer_runtime"), AddColumns, TryUnique>>

DispatcherScript ==
  <<Make("rss_items"), Make("dispatch_queue"), AddColumns, TryUnique>>

\* web-admin indexes columns of rss_items before it adds the missing ones.
AdminScript ==
  <<Make("rss_feeds"), Make("feed_state"), Make("feed_poll_requests"),
    Make("analyzed_items"), Make("rss_items"), IndexOn("item_hash"),
    IndexOn("source_feed_url"), IndexOn("status"), Make("analyzer_queue"),
    Make("dispatch_queue"), Make("analyzer_runtime"), AddColumns, TryUnique>>

Script(s) == CASE s = "rss-reader" -> ReaderScript
               [] s = "job-analyzer" -> AnalyzerScript
               [] s = "message-dispatcher" -> DispatcherScript
               [] s = "web-admin" -> AdminScript

(* Slip: a column that web-admin indexes is left out of the reader's list. *)
MigratesWithoutFeed == AllColumns \ (FirstColumns \cup {"source_feed_url"})

\* The columns each service's ALTER statements add.
ReaderMigrates == AllColumns \ FirstColumns
AnalyzerMigrates == AllColumns \ {"id"}
DispatcherMigrates == AllColumns \ {"id"}
AdminMigrates == AllColumns \ {"id"}

Migrates(s) == CASE s = "rss-reader" -> ReaderMigrates
                 [] s = "job-analyzer" -> AnalyzerMigrates
                 [] s = "message-dispatcher" -> DispatcherMigrates
                 [] s = "web-admin" -> AdminMigrates

Stopped == 0
Running(s) == at[s] \in 1 .. Len(Script(s))
Ready(s) == at[s] = Len(Script(s)) + 1
Statement(s) == Script(s)[at[s]]

-----------------------------------------------------------------------------
(* The statements. *)

GoTo(s, position) == at' = [at EXCEPT ![s] = position]

\* CREATE TABLE IF NOT EXISTS.  Whoever comes first shapes rss_items: all
\* make every column, only the reader declares item_hash UNIQUE in it.
CreateTable(s) ==
  /\ Running(s) /\ Statement(s).do = "make"
  /\ LET table == Statement(s).name
         first == table = "rss_items" /\ table \notin tables
     IN  /\ tables' = tables \cup {table}
         /\ columns' = IF first THEN AllColumns ELSE columns
         /\ unique' = IF first THEN s = "rss-reader" ELSE unique
  /\ GoTo(s, at[s] + 1)
  /\ UNCHANGED <<skipped, found, faults, restarts>>

\* CREATE INDEX in the checked batch: without its column the service ends.
CreateIndex(s) ==
  /\ Running(s) /\ Statement(s).do = "index"
  /\ IF Statement(s).name \in columns
     THEN /\ unique' = (unique \/ Statement(s).name = "item_hash")
          /\ GoTo(s, at[s] + 1)
     ELSE UNCHANGED unique /\ GoTo(s, Stopped)
  /\ UNCHANGED <<tables, columns, skipped, found, faults, restarts>>

\* The columns a service has still to add; those that are there already, it
\* passes ("duplicate column name").
Missing(s) == Migrates(s) \ columns

(* Slip: the loop ends at the first column it added. *)
AddOneColumn(s) ==
  /\ Running(s) /\ Statement(s).do = "add"
  /\ IF Missing(s) = {}
     THEN UNCHANGED columns
     ELSE \E i \in 1 .. Len(Columns) :
            /\ Columns[i] \in Missing(s)
            /\ \A j \in 1 .. i - 1 : Columns[j] \notin Missing(s)
            /\ columns' = columns \cup {Columns[i]}
  /\ GoTo(s, at[s] + 1)
  /\ UNCHANGED <<tables, unique, skipped, found, faults, restarts>>

AddColumn(s) ==
  /\ Running(s) /\ Statement(s).do = "add"
  /\ IF Missing(s) = {}
     THEN UNCHANGED columns /\ GoTo(s, at[s] + 1)
     ELSE /\ \E i \in 1 .. Len(Columns) :
               /\ Columns[i] \in Missing(s)
               /\ \A j \in 1 .. i - 1 : Columns[j] \notin Missing(s)
               /\ columns' = columns \cup {Columns[i]}
          /\ UNCHANGED at
  /\ UNCHANGED <<tables, unique, skipped, found, faults, restarts>>

(* Slip: the reader relies on the UNIQUE of its own CREATE TABLE. *)
TrustInlineUnique(s) ==
  /\ Running(s) /\ Statement(s).do = "try"
  /\ unique' = (unique \/ s # "rss-reader")
  /\ GoTo(s, at[s] + 1)
  /\ UNCHANGED <<tables, columns, skipped, found, faults, restarts>>

\* CREATE UNIQUE INDEX IF NOT EXISTS after the migration.
CreateUnique(s) ==
  /\ Running(s) /\ Statement(s).do = "try"
  /\ unique' = TRUE
  /\ GoTo(s, at[s] + 1)
  /\ UNCHANGED <<tables, columns, skipped, found, faults, restarts>>

\* A statement fails: the last part ignores it, the others end the process.
Fault(s) ==
  /\ Running(s)
  /\ faults < MaxFaults
  /\ faults' = faults + 1
  /\ IF Statement(s).do = "try"
     THEN skipped' = [skipped EXCEPT ![s] = TRUE] /\ GoTo(s, at[s] + 1)
     ELSE UNCHANGED skipped /\ GoTo(s, Stopped)
  /\ UNCHANGED <<schema, found, restarts>>

\* A service ends, or has ended, and is started again: its script from the
\* beginning, on what the earlier start left.
Restart(s) ==
  /\ at[s] # 1
  /\ restarts < MaxRestarts
  /\ restarts' = restarts + 1
  /\ GoTo(s, 1)
  /\ skipped' = [skipped EXCEPT ![s] = FALSE]
  /\ UNCHANGED <<schema, found, faults>>

-----------------------------------------------------------------------------
SchemaInit ==
  /\ found \in Databases
  /\ tables = found.tables
  /\ columns = found.columns
  /\ unique = found.unique
  /\ at = [s \in Services |-> 1]
  /\ skipped = [s \in Services |-> FALSE]
  /\ faults = 0
  /\ restarts = 0

SchemaNext ==
  \E s \in Services :
    \/ CreateTable(s)
    \/ CreateIndex(s)
    \/ AddColumn(s)
    \/ CreateUnique(s)
    \/ Fault(s)
    \/ Restart(s)

SchemaSpec == SchemaInit /\ [][SchemaNext]_vars

-----------------------------------------------------------------------------
(* What the services' own statements name, once they run. *)

ReaderUses ==
  [tables  |-> {"processed_items", "pending_items", "feed_state",
                "feed_poll_requests", "rss_feeds", "rss_items",
                "analyzer_queue"},
   columns |-> AllColumns \ {"analyzed_enqueued_at", "analyzed_enqueue_count",
                             "analyzed_payload_json"}]

AnalyzerUses ==
  [tables  |-> {"rss_items", "analyzer_queue", "dispatch_queue",
                "analyzer_runtime"},
   columns |-> {"id", "analyzed_enqueued_at", "analyzed_enqueue_count",
                "status", "analyzed_at", "analyzed_payload_json",
                "last_error", "updated_at"}]

DispatcherUses ==
  [tables  |-> {"rss_items", "dispatch_queue"},
   columns |-> {"id", "status", "dispatched_at", "last_error", "updated_at"}]

AdminUses ==
  [tables  |-> {"rss_feeds", "feed_state", "feed_poll_requests",
                "analyzed_items", "rss_items", "analyzer_queue",
                "dispatch_queue", "analyzer_runtime"},
   columns |-> AllColumns \ {"title_norm"}]

Uses(s) == CASE s = "rss-reader" -> ReaderUses
             [] s = "job-analyzer" -> AnalyzerUses
             [] s = "message-dispatcher" -> DispatcherUses
             [] s = "web-admin" -> AdminUses

-----------------------------------------------------------------------------
(* Properties. *)

\* What a statement leaves behind, for good.
Lasts(s, statement) ==
  /\ statement.do = "make" => statement.name \in tables
  /\ statement.do = "index" => statement.name \in columns
  /\ statement.do = "add" => Migrates(s) \subseteq columns
  /\ statement.do = "try" => unique \/ skipped[s]

\* Every statement a service has passed still has its effect, whatever the
\* others did since (the reader's UNIQUE included, which no later CREATE TABLE
\* takes back); and rss_items never lacks the columns it always had, all of
\* them when one of the scripts made it.
SchemaInv ==
  /\ columns \subseteq AllColumns
  /\ unique \in BOOLEAN
  /\ at \in [Services -> Nat]
  /\ skipped \in [Services -> BOOLEAN]
  /\ found \in Databases
  /\ faults \in Nat
  /\ \A s \in Services :
       /\ at[s] <= Len(Script(s)) + 1
       /\ \A i \in 1 .. at[s] - 1 : Lasts(s, Script(s)[i])
  /\ "rss_items" \in tables => FirstColumns \subseteq columns
  /\ unique => "rss_items" \in tables
  /\ "rss_items" \in tables \ found.tables => columns = AllColumns

\* Whatever the order of the starts, the database they met, the statements
\* that failed and the services that were started again, a service whose New
\* returned finds every table and column its statements name; and the reader,
\* whose INSERT has ON CONFLICT(item_hash), finds the unique constraint
\* unless it ignored the failure of its own CREATE UNIQUE INDEX.
ReadyFindsSchema ==
  \A s \in Services :
    Ready(s) =>
      /\ Uses(s).tables \subseteq tables
      /\ Uses(s).columns \subseteq columns
      /\ s = "rss-reader" => unique \/ skipped[s]

\* With no failing statement only web-admin can end at its start, only on a
\* database with an older rss_items, and only as long as no service is up:
\* the migration of any other service, the reader's shorter one included,
\* lets web-admin start.
OnlyAdminEndsAndOnlyFirst ==
  [][\A s \in Services :
       Running(s) /\ at'[s] = Stopped /\ faults' = faults =>
         /\ s = "web-admin"
         /\ "rss_items" \in found.tables
         /\ \A other \in Services : ~Ready(other)]_vars
=============================================================================
