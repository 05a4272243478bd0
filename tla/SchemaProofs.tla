---------------------------- MODULE SchemaProofs ----------------------------
(***************************************************************************)
(* Theorems about Schema for every set of databases a start may meet and   *)
(* for every number of failing statements and restarts.                    *)
(***************************************************************************)
EXTENDS Schema, TLAPS

-----------------------------------------------------------------------------
(* The scripts, statement by statement. *)

LEMMA ReaderStatements ==
  /\ Len(ReaderScript) = 9
  /\ ReaderScript[1] = Make("processed_items")
  /\ ReaderScript[2] = Make("pending_items")
  /\ ReaderScript[3] = Make("feed_state")
  /\ ReaderScript[4] = Make("feed_poll_requests")
  /\ ReaderScript[5] = Make("rss_feeds")
  /\ ReaderScript[6] = Make("rss_items")
  /\ ReaderScript[7] = Make("analyzer_queue")
  /\ ReaderScript[8] = AddColumns
  /\ ReaderScript[9] = TryUnique
BY DEF ReaderScript

LEMMA AnalyzerStatements ==
  /\ Len(AnalyzerScript) = 6
  /\ AnalyzerScript[1] = Make("rss_items")
  /\ AnalyzerScript[2] = Make("analyzer_queue")
  /\ AnalyzerScript[3] = Make("dispatch_queue")
  /\ AnalyzerScript[4] = Make("analyzer_runtime")
  /\ AnalyzerScript[5] = AddColumns
  /\ AnalyzerScript[6] = TryUnique
BY DEF AnalyzerScript

LEMMA DispatcherStatements ==
  /\ Len(DispatcherScript) = 4
  /\ DispatcherScript[1] = Make("rss_items")
  /\ DispatcherScript[2] = Make("dispatch_queue")
  /\ DispatcherScript[3] = AddColumns
  /\ DispatcherScript[4] = TryUnique
BY DEF DispatcherScript

LEMMA AdminStatements ==
  /\ Len(AdminScript) = 13
  /\ AdminScript[1] = Make("rss_feeds")
  /\ AdminScript[2] = Make("feed_state")
  /\ AdminScript[3] = Make("feed_poll_requests")
  /\ AdminScript[4] = Make("analyzed_items")
  /\ AdminScript[5] = Make("rss_items")
  /\ AdminScript[6] = IndexOn("item_hash")
  /\ AdminScript[7] = IndexOn("source_feed_url")
  /\ AdminScript[8] = IndexOn("status")
  /\ AdminScript[9] = Make("analyzer_queue")
  /\ AdminScript[10] = Make("dispatch_queue")
  /\ AdminScript[11] = Make("analyzer_runtime")
  /\ AdminScript[12] = AddColumns
  /\ AdminScript[13] = TryUnique
BY DEF AdminScript

LEMMA Scripts ==
  /\ Script("rss-reader") = ReaderScript
  /\ Script("job-analyzer") = AnalyzerScript
  /\ Script("message-dispatcher") = DispatcherScript
  /\ Script("web-admin") = AdminScript
BY DEF Script

LEMMA UsesOfEach ==
  /\ Uses("rss-reader") = ReaderUses
  /\ Uses("job-analyzer") = AnalyzerUses
  /\ Uses("message-dispatcher") = DispatcherUses
  /\ Uses("web-admin") = AdminUses
BY DEF Uses

LEMMA ScriptLengths ==
  \A s \in Services : Len(Script(s)) \in Nat \ {0}
BY Scripts, ReaderStatements, AnalyzerStatements, DispatcherStatements,
   AdminStatements DEF Services

(* Only web-admin has checked indexes, and it makes rss_items before them;   *)
(* every script makes rss_items before it adds columns, and adds them before *)
(* it tries the unique index.                                                *)
LEMMA StatementOrder ==
  ASSUME NEW s \in Services, NEW i \in 1 .. Len(Script(s))
  PROVE  /\ Script(s)[i].do \in {"make", "index", "add", "try"}
         /\ Script(s)[i].do = "index" =>
              /\ s = "web-admin"
              /\ Script(s)[i].name \in {"item_hash", "source_feed_url", "status"}
         /\ Script(s)[i].do \in {"index", "add", "try"} =>
              \E j \in 1 .. i - 1 : Script(s)[j] = Make("rss_items")
         /\ Script(s)[i].do = "try" =>
              \E j \in 1 .. i - 1 : Script(s)[j] = AddColumns
<1>1. CASE s = "rss-reader"
  <2>1. Script(s) = ReaderScript
    BY <1>1, Scripts
  <2>2. i \in {1, 2, 3, 4, 5, 6, 7, 8, 9}
    BY <2>1, ReaderStatements
  <2>3. QED
    BY <1>1, <2>1, <2>2, ReaderStatements DEF Make, AddColumns, TryUnique
<1>2. CASE s = "job-analyzer"
  <2>1. Script(s) = AnalyzerScript
    BY <1>2, Scripts
  <2>2. i \in {1, 2, 3, 4, 5, 6}
    BY <2>1, AnalyzerStatements
  <2>3. QED
    BY <1>2, <2>1, <2>2, AnalyzerStatements DEF Make, AddColumns, TryUnique
<1>3. CASE s = "message-dispatcher"
  <2>1. Script(s) = DispatcherScript
    BY <1>3, Scripts
  <2>2. i \in {1, 2, 3, 4}
    BY <2>1, DispatcherStatements
  <2>3. QED
    BY <1>3, <2>1, <2>2, DispatcherStatements DEF Make, AddColumns, TryUnique
<1>4. CASE s = "web-admin"
  <2>1. Script(s) = AdminScript
    BY <1>4, Scripts
  <2>2. i \in {1, 2, 3, 4, 5, 6, 7, 8, 9, 10, 11, 12, 13}
    BY <2>1, AdminStatements
  <2>3. QED
    BY <1>4, <2>1, <2>2, AdminStatements DEF Make, IndexOn, AddColumns, TryUnique
<1>5. QED
  BY <1>1, <1>2, <1>3, <1>4 DEF Services

(* A script makes every table its service uses, adds the missing columns, and *)
(* tries the unique index.                                                    *)
LEMMA ScriptComplete ==
  ASSUME NEW s \in Services
  PROVE  /\ \A t \in Uses(s).tables :
              \E i \in 1 .. Len(Script(s)) : Script(s)[i] = Make(t)
         /\ \E i \in 1 .. Len(Script(s)) : Script(s)[i] = AddColumns
         /\ \E i \in 1 .. Len(Script(s)) : Script(s)[i] = TryUnique
<1>1. CASE s = "rss-reader"
  <2>1. Script(s) = ReaderScript
    BY <1>1, Scripts
  <2>2. \A t \in ReaderUses.tables :
          \E i \in 1 .. Len(ReaderScript) : ReaderScript[i] = Make(t)
    BY ReaderStatements DEF ReaderUses
  <2>3. QED
    BY <1>1, <2>1, <2>2, UsesOfEach, ReaderStatements
<1>2. CASE s = "job-analyzer"
  <2>1. Script(s) = AnalyzerScript
    BY <1>2, Scripts
  <2>2. \A t \in AnalyzerUses.tables :
          \E i \in 1 .. Len(AnalyzerScript) : AnalyzerScript[i] = Make(t)
    BY AnalyzerStatements DEF AnalyzerUses
  <2>3. QED
    BY <1>2, <2>1, <2>2, UsesOfEach, AnalyzerStatements
<1>3. CASE s = "message-dispatcher"
  <2>1. Script(s) = DispatcherScript
    BY <1>3, Scripts
  <2>2. \A t \in DispatcherUses.tables :
          \E i \in 1 .. Len(DispatcherScript) : DispatcherScript[i] = Make(t)
    BY DispatcherStatements DEF DispatcherUses
  <2>3. QED
    BY <1>3, <2>1, <2>2, UsesOfEach, DispatcherStatements
<1>4. CASE s = "web-admin"
  <2>1. Script(s) = AdminScript
    BY <1>4, Scripts
  <2>2. \A t \in AdminUses.tables :
          \E i \in 1 .. Len(AdminScript) : AdminScript[i] = Make(t)
    BY AdminStatements DEF AdminUses
  <2>3. QED
    BY <1>4, <2>1, <2>2, UsesOfEach, AdminStatements
<1>5. QED
  BY <1>1, <1>2, <1>3, <1>4 DEF Services

LEMMA MigratesEnough ==
  ASSUME NEW s \in Services
  PROVE  /\ Migrates(s) \subseteq AllColumns
         /\ AllColumns \subseteq Migrates(s) \cup FirstColumns
         /\ Uses(s).columns \subseteq AllColumns
BY DEF Services, Migrates, ReaderMigrates, AnalyzerMigrates,
       DispatcherMigrates, AdminMigrates, FirstColumns, Uses, ReaderUses,
       AnalyzerUses, DispatcherUses, AdminUses, AllColumns, Columns

LEMMA KnownColumns ==
  /\ FirstColumns \subseteq AllColumns
  /\ {"item_hash", "source_feed_url", "status"} \subseteq AllColumns
BY DEF FirstColumns, AllColumns, Columns

(* The statement of a running service. *)
LEMMA RunningStatement ==
  ASSUME SchemaInv, NEW s \in Services, Running(s)
  PROVE  /\ at[s] \in 1 .. Len(Script(s))
         /\ Statement(s).do \in {"make", "index", "add", "try"}
         /\ Statement(s).do \in {"index", "add", "try"} => "rss_items" \in tables
         /\ Statement(s).do = "try" => Migrates(s) \subseteq columns
<1>1. at[s] \in 1 .. Len(Script(s))
  BY DEF Running
<1>2. \A i \in 1 .. at[s] - 1 : Lasts(s, Script(s)[i])
  BY DEF SchemaInv
<1>3. ASSUME NEW j \in 1 .. at[s] - 1, Script(s)[j] = Make("rss_items")
      PROVE  "rss_items" \in tables
  BY <1>2, <1>3 DEF Lasts, Make
<1>4. ASSUME NEW j \in 1 .. at[s] - 1, Script(s)[j] = AddColumns
      PROVE  Migrates(s) \subseteq columns
  BY <1>2, <1>4 DEF Lasts, AddColumns
<1>5. QED
  BY <1>1, <1>3, <1>4, StatementOrder DEF Statement

-----------------------------------------------------------------------------
(* The inductive invariant. *)

(* A step that takes nothing away and moves one service by one statement, to  *)
(* its end or back to its beginning keeps what the statements have left.      *)
LEMMA EffectsLast ==
  ASSUME SchemaInv, NEW s \in Services, NEW p \in Nat, NEW k \in Nat, k = at[s],
         tables \subseteq tables', columns \subseteq columns',
         unique => unique', skipped' \in [Services -> BOOLEAN],
         \A t \in Services : t # s => skipped'[t] = skipped[t],
         p > 1 => (skipped[s] => skipped'[s]),
         at' = [at EXCEPT ![s] = p], p <= Len(Script(s)) + 1,
         \/ p \in {0, 1}
         \/ p <= k
         \/ p = k + 1 /\ Lasts(s, Script(s)[k])'
  PROVE  (\A t \in Services :
            /\ at[t] <= Len(Script(t)) + 1
            /\ \A i \in 1 .. at[t] - 1 : Lasts(t, Script(t)[i]))'
<1>1. ASSUME NEW t \in Services, t # s
      PROVE  (/\ at[t] <= Len(Script(t)) + 1
              /\ \A i \in 1 .. at[t] - 1 : Lasts(t, Script(t)[i]))'
  <2>1. at'[t] = at[t]
    BY <1>1 DEF SchemaInv
  <2>2. ASSUME NEW i \in 1 .. at[t] - 1
        PROVE  Lasts(t, Script(t)[i])'
    <3>1. Lasts(t, Script(t)[i]) /\ i \in 1 .. Len(Script(t))
      BY ScriptLengths DEF SchemaInv
    <3>2. Script(t)[i].do \in {"make", "index", "add", "try"}
      BY <3>1, StatementOrder
    <3>3. QED
      BY <1>1, <3>1, <3>2 DEF Lasts
  <2>3. QED
    BY <2>1, <2>2 DEF SchemaInv
<1>2. (/\ at[s] <= Len(Script(s)) + 1
       /\ \A i \in 1 .. at[s] - 1 : Lasts(s, Script(s)[i]))'
  <2>1. at'[s] = p
    BY DEF SchemaInv
  <2>2. ASSUME NEW i \in 1 .. p - 1
        PROVE  Lasts(s, Script(s)[i])'
    <3>1. CASE i \in 1 .. at[s] - 1
      <4>1. Lasts(s, Script(s)[i]) /\ i \in 1 .. Len(Script(s))
        BY <3>1, ScriptLengths DEF SchemaInv
      <4>2. Script(s)[i].do \in {"make", "index", "add", "try"}
        BY <4>1, StatementOrder
      <4>3. QED
        BY <2>2, <4>1, <4>2 DEF Lasts
    <3>2. CASE i \notin 1 .. at[s] - 1
      <4>1. i = k /\ p = k + 1
        BY <2>2, <3>2 DEF SchemaInv
      <4>2. QED
        BY <4>1
    <3>3. QED
      BY <3>1, <3>2
  <2>3. QED
    BY <2>1, <2>2
<1>3. QED
  BY <1>1, <1>2

(* CREATE TABLE: the first to make rss_items makes all its columns, and no   *)
(* index can have been there before.                                         *)
LEMMA CreateTableKeeps ==
  ASSUME SchemaInv, NEW s \in Services, CreateTable(s)
  PROVE  SchemaInv'
<1> DEFINE table == Statement(s).name
<1>1. /\ at[s] \in 1 .. Len(Script(s)) /\ Len(Script(s)) \in Nat /\ at[s] \in Nat
      /\ Statement(s).do = "make"
  BY ScriptLengths DEF CreateTable, Running
<1>2. /\ tables' = tables \cup {table}
      /\ columns' \in {columns, AllColumns} /\ columns \subseteq columns'
      /\ unique' \in BOOLEAN /\ (unique => unique')
  BY DEF CreateTable, SchemaInv
<1>3. "rss_items" \in tables' => FirstColumns \subseteq columns'
  BY KnownColumns DEF CreateTable, SchemaInv
<1>4. unique' => "rss_items" \in tables'
  BY DEF CreateTable, SchemaInv
<1>5. "rss_items" \in tables' \ found.tables => columns' = AllColumns
  BY DEF CreateTable, SchemaInv
<1>6. PICK k \in Nat : k = at[s]
  BY <1>1
<1>7. Lasts(s, Script(s)[k])'
  BY <1>1, <1>2, <1>6 DEF Lasts, Statement
<1>8. (\A t \in Services :
         /\ at[t] <= Len(Script(t)) + 1
         /\ \A i \in 1 .. at[t] - 1 : Lasts(t, Script(t)[i]))'
  <2>1. at' = [at EXCEPT ![s] = k + 1] /\ skipped' = skipped
    BY <1>6 DEF CreateTable, GoTo
  <2>2. k + 1 \in Nat /\ k + 1 <= Len(Script(s)) + 1
    BY <1>1, <1>6
  <2>3. skipped \in [Services -> BOOLEAN]
    BY DEF SchemaInv
  <2>4. QED
    BY <1>2, <1>6, <1>7, <2>1, <2>2, <2>3, EffectsLast
<1>9. QED
  BY <1>1, <1>2, <1>3, <1>4, <1>5, <1>8 DEF SchemaInv, CreateTable, GoTo

(* CREATE INDEX in the batch goes on only where its column is.                *)
LEMMA CreateIndexKeeps ==
  ASSUME SchemaInv, NEW s \in Services, CreateIndex(s)
  PROVE  SchemaInv'
<1>1. /\ at[s] \in 1 .. Len(Script(s)) /\ Len(Script(s)) \in Nat
      /\ Statement(s).do = "index" /\ "rss_items" \in tables
  BY ScriptLengths, RunningStatement DEF CreateIndex
<1>2. /\ tables' = tables /\ columns' = columns /\ skipped' = skipped
      /\ unique' \in BOOLEAN /\ (unique => unique')
      /\ skipped \in [Services -> BOOLEAN]
  BY DEF CreateIndex, SchemaInv
<1>3. PICK k \in Nat : k = at[s]
  BY <1>1
<1>4. (\A t \in Services :
         /\ at[t] <= Len(Script(t)) + 1
         /\ \A i \in 1 .. at[t] - 1 : Lasts(t, Script(t)[i]))'
  <2>1. CASE Statement(s).name \in columns
    <3>1. Lasts(s, Script(s)[k])'
      BY <1>1, <1>2, <1>3, <2>1 DEF Lasts, Statement
    <3>2. at' = [at EXCEPT ![s] = k + 1]
      BY <1>3, <2>1 DEF CreateIndex, GoTo
    <3>3. k + 1 \in Nat /\ k + 1 <= Len(Script(s)) + 1
      BY <1>1, <1>3
    <3>4. QED
      BY <1>2, <1>3, <3>1, <3>2, <3>3, EffectsLast
  <2>2. CASE Statement(s).name \notin columns
    <3>1. at' = [at EXCEPT ![s] = 0] /\ unique' = unique
      BY <2>2 DEF CreateIndex, GoTo, Stopped
    <3>2. 0 \in Nat /\ 0 <= Len(Script(s)) + 1
      BY <1>1
    <3>3. QED
      BY <1>2, <1>3, <3>1, <3>2, EffectsLast
  <2>3. QED
    BY <2>1, <2>2
<1>5. at' \in [Services -> Nat]
  BY DEF CreateIndex, GoTo, SchemaInv, Stopped
<1>6. QED
  BY <1>1, <1>2, <1>4, <1>5 DEF SchemaInv, CreateIndex

(* ALTER TABLE adds a column, or there is none left to add.                   *)
LEMMA AddColumnKeeps ==
  ASSUME SchemaInv, NEW s \in Services, AddColumn(s)
  PROVE  SchemaInv'
<1>1. /\ at[s] \in 1 .. Len(Script(s)) /\ Len(Script(s)) \in Nat
      /\ Statement(s).do = "add" /\ "rss_items" \in tables
  BY ScriptLengths, RunningStatement DEF AddColumn
<1>2. /\ tables' = tables /\ unique' = unique /\ skipped' = skipped
      /\ skipped \in [Services -> BOOLEAN]
  BY DEF AddColumn, SchemaInv
<1>3. columns \subseteq columns' /\ columns' \subseteq AllColumns
  BY MigratesEnough DEF AddColumn, Missing, SchemaInv
<1>4. PICK k \in Nat : k = at[s]
  BY <1>1
<1>5. (\A t \in Services :
         /\ at[t] <= Len(Script(t)) + 1
         /\ \A i \in 1 .. at[t] - 1 : Lasts(t, Script(t)[i]))'
  <2>1. CASE Missing(s) = {}
    <3>1. Lasts(s, Script(s)[k])'
      BY <1>1, <1>3, <1>4, <2>1 DEF Lasts, Statement, Missing
    <3>2. at' = [at EXCEPT ![s] = k + 1]
      BY <1>4, <2>1 DEF AddColumn, GoTo
    <3>3. k + 1 \in Nat /\ k + 1 <= Len(Script(s)) + 1
      BY <1>1, <1>4
    <3>4. QED
      BY <1>2, <1>3, <1>4, <3>1, <3>2, <3>3, EffectsLast
  <2>2. CASE Missing(s) # {}
    <3>1. at' = [at EXCEPT ![s] = k]
      BY <1>4, <2>2 DEF AddColumn, SchemaInv
    <3>2. k <= Len(Script(s)) + 1 /\ k <= k
      BY <1>1, <1>4
    <3>3. \A t \in Services : skipped'[t] = skipped[t]
      BY <1>2
    <3>4. skipped' \in [Services -> BOOLEAN] /\ tables \subseteq tables'
      BY <1>2
    <3>5. QED
      BY <1>2, <1>3, <1>4, <3>1, <3>2, <3>3, <3>4, EffectsLast
  <2>3. QED
    BY <2>1, <2>2
<1>6. at' \in [Services -> Nat]
  BY DEF AddColumn, GoTo, SchemaInv
<1>7. /\ "rss_items" \in tables' => FirstColumns \subseteq columns'
      /\ "rss_items" \in tables' \ found.tables => columns' = AllColumns
      /\ unique' => "rss_items" \in tables'
  BY <1>1, <1>2, <1>3 DEF SchemaInv
<1>8. found' = found /\ faults' = faults
  BY DEF AddColumn
<1>9. unique' \in BOOLEAN /\ skipped' \in [Services -> BOOLEAN]
  BY <1>2 DEF SchemaInv
<1>10. QED
  <2>1. found' \in Databases /\ faults' \in Nat
    BY <1>8 DEF SchemaInv
  <2>2. "rss_items" \in tables' \ found'.tables => columns' = AllColumns
    BY <1>7, <1>8
  <2>3. QED
    BY <1>3, <1>5, <1>6, <1>7, <1>9, <2>1, <2>2 DEF SchemaInv

(* CREATE UNIQUE INDEX after the migration.                                   *)
LEMMA CreateUniqueKeeps ==
  ASSUME SchemaInv, NEW s \in Services, CreateUnique(s)
  PROVE  SchemaInv'
<1>1. /\ at[s] \in 1 .. Len(Script(s)) /\ Len(Script(s)) \in Nat
      /\ Statement(s).do = "try" /\ "rss_items" \in tables
  BY ScriptLengths, RunningStatement DEF CreateUnique
<1>2. /\ tables' = tables /\ columns' = columns /\ skipped' = skipped
      /\ unique' = TRUE /\ skipped \in [Services -> BOOLEAN]
  BY DEF CreateUnique, SchemaInv
<1>3. PICK k \in Nat : k = at[s]
  BY <1>1
<1>4. Lasts(s, Script(s)[k])'
  BY <1>1, <1>2, <1>3 DEF Lasts, Statement
<1>5. at' = [at EXCEPT ![s] = k + 1]
  BY <1>3 DEF CreateUnique, GoTo
<1>6. k + 1 \in Nat /\ k + 1 <= Len(Script(s)) + 1
  BY <1>1, <1>3
<1>7. (\A t \in Services :
         /\ at[t] <= Len(Script(t)) + 1
         /\ \A i \in 1 .. at[t] - 1 : Lasts(t, Script(t)[i]))'
  BY <1>2, <1>3, <1>4, <1>5, <1>6, EffectsLast
<1>8. QED
  BY <1>1, <1>2, <1>5, <1>6, <1>7 DEF SchemaInv, CreateUnique

(* A failed statement ends the service, or is ignored and noted.              *)
LEMMA FaultKeeps ==
  ASSUME SchemaInv, NEW s \in Services, Fault(s)
  PROVE  SchemaInv'
<1>1. at[s] \in 1 .. Len(Script(s)) /\ Len(Script(s)) \in Nat
  BY ScriptLengths DEF Fault, Running
<1>2. /\ tables' = tables /\ columns' = columns /\ unique' = unique
      /\ skipped \in [Services -> BOOLEAN] /\ skipped' \in [Services -> BOOLEAN]
      /\ faults' \in Nat
  <2>1. tables' = tables /\ columns' = columns /\ unique' = unique
    BY DEF Fault, schema
  <2>2. skipped \in [Services -> BOOLEAN] /\ faults \in Nat
    BY DEF SchemaInv
  <2>3. skipped' = [skipped EXCEPT ![s] = TRUE] \/ skipped' = skipped
    BY DEF Fault
  <2>4. skipped' \in [Services -> BOOLEAN]
    BY <2>2, <2>3
  <2>5. QED
    BY <2>1, <2>2, <2>4 DEF Fault
<1>3. PICK k \in Nat : k = at[s]
  BY <1>1
<1>4. (\A t \in Services :
         /\ at[t] <= Len(Script(t)) + 1
         /\ \A i \in 1 .. at[t] - 1 : Lasts(t, Script(t)[i]))'
  <2>1. CASE Statement(s).do = "try"
    <3>1. skipped' = [skipped EXCEPT ![s] = TRUE]
      BY <2>1 DEF Fault
    <3>2. Lasts(s, Script(s)[k])'
      BY <1>2, <1>3, <2>1, <3>1 DEF Lasts, Statement
    <3>3. at' = [at EXCEPT ![s] = k + 1]
      BY <1>3, <2>1 DEF Fault, GoTo
    <3>4. k + 1 \in Nat /\ k + 1 <= Len(Script(s)) + 1
      BY <1>1, <1>3
    <3>5. /\ \A t \in Services : t # s => skipped'[t] = skipped[t]
          /\ skipped'[s]
      BY <1>2, <3>1
    <3>6. QED
      BY <1>2, <1>3, <3>2, <3>3, <3>4, <3>5, EffectsLast
  <2>2. CASE Statement(s).do # "try"
    <3>1. at' = [at EXCEPT ![s] = 0] /\ skipped' = skipped
      BY <2>2 DEF Fault, GoTo, Stopped
    <3>2. 0 \in Nat /\ 0 <= Len(Script(s)) + 1
      BY <1>1
    <3>3. QED
      BY <1>2, <1>3, <3>1, <3>2, EffectsLast
  <2>3. QED
    BY <2>1, <2>2
<1>5. at' \in [Services -> Nat]
  BY DEF Fault, GoTo, SchemaInv, Stopped
<1>6. QED
  BY <1>2, <1>4, <1>5 DEF SchemaInv, Fault

(* A service begins again on what is there.                                   *)
LEMMA RestartKeeps ==
  ASSUME SchemaInv, NEW s \in Services, Restart(s)
  PROVE  SchemaInv'
<1>1. /\ tables' = tables /\ columns' = columns /\ unique' = unique
      /\ skipped \in [Services -> BOOLEAN]
      /\ skipped' = [skipped EXCEPT ![s] = FALSE]
      /\ at' = [at EXCEPT ![s] = 1]
  BY DEF Restart, SchemaInv, schema, GoTo
<1>2. 1 \in Nat /\ 1 <= Len(Script(s)) + 1
  BY ScriptLengths
<1>3. /\ \A t \in Services : t # s => skipped'[t] = skipped[t]
      /\ skipped' \in [Services -> BOOLEAN]
  BY <1>1
<1>4. (\A t \in Services :
         /\ at[t] <= Len(Script(t)) + 1
         /\ \A i \in 1 .. at[t] - 1 : Lasts(t, Script(t)[i]))'
  <2>1. at'[s] = 1
    BY <1>1 DEF SchemaInv
  <2>2. ASSUME NEW t \in Services, t # s, NEW i \in 1 .. at[t] - 1
        PROVE  Lasts(t, Script(t)[i])'
    BY <1>1, <1>3, <2>2 DEF SchemaInv, Lasts
  <2>3. \A t \in Services : t # s => at'[t] = at[t]
    BY <1>1 DEF SchemaInv
  <2>4. QED
    BY <1>2, <2>1, <2>2, <2>3 DEF SchemaInv
<1>5. at' \in [Services -> Nat]
  BY <1>1 DEF SchemaInv
<1>6. QED
  BY <1>1, <1>3, <1>4, <1>5 DEF SchemaInv, Restart

LEMMA SchemaNextKeeps == SchemaInv /\ [SchemaNext]_vars => SchemaInv'
<1>1. ASSUME SchemaInv, NEW s \in Services,
             \/ CreateTable(s) \/ CreateIndex(s) \/ AddColumn(s)
             \/ CreateUnique(s) \/ Fault(s) \/ Restart(s)
      PROVE  SchemaInv'
  BY <1>1, CreateTableKeeps, CreateIndexKeeps, AddColumnKeeps,
     CreateUniqueKeeps, FaultKeeps, RestartKeeps
<1>2. ASSUME SchemaInv, UNCHANGED vars
      PROVE  SchemaInv'
  <2>1. UNCHANGED <<tables, columns, unique, at, skipped, found, faults>>
    BY <1>2 DEF vars, schema
  <2>2. ASSUME NEW t \in Services, NEW i \in 1 .. at[t] - 1
        PROVE  Lasts(t, Script(t)[i])'
    BY <1>2, <2>1 DEF SchemaInv, Lasts
  <2>3. QED
    BY <1>2, <2>1, <2>2 DEF SchemaInv
<1>3. QED
  BY <1>1, <1>2 DEF SchemaNext

LEMMA SchemaInitHolds == SchemaInit => SchemaInv
<1> SUFFICES ASSUME SchemaInit PROVE SchemaInv
  OBVIOUS
<1>1. found \in Databases
  BY DEF SchemaInit
<1>2. /\ "rss_items" \in found.tables => FirstColumns \subseteq found.columns
      /\ found.columns \subseteq AllColumns
      /\ found.unique \in BOOLEAN
      /\ found.unique => "rss_items" \in found.tables
  BY <1>1, DatabasesAssumption
<1>3. \A s \in Services :
        /\ at[s] <= Len(Script(s)) + 1
        /\ \A i \in 1 .. at[s] - 1 : Lasts(s, Script(s)[i])
  BY ScriptLengths DEF SchemaInit
<1>4. QED
  BY <1>1, <1>2, <1>3 DEF SchemaInit, SchemaInv

-----------------------------------------------------------------------------
(* Whatever the other services do, fail at or repeat, a statement of a start *)
(* script that a service has passed keeps its effect: no CREATE or ALTER of  *)
(* another service takes back a table, a column or the unique constraint.    *)
THEOREM SchemaInvariant == SchemaSpec => []SchemaInv
<1>1. SchemaInit => SchemaInv
  BY SchemaInitHolds
<1>2. SchemaInv /\ [SchemaNext]_vars => SchemaInv'
  BY SchemaNextKeeps
<1>3. QED
  BY <1>1, <1>2, PTL DEF SchemaSpec

LEMMA ReadyIsComplete == SchemaInv => ReadyFindsSchema
<1> SUFFICES ASSUME SchemaInv, NEW s \in Services, Ready(s)
             PROVE  /\ Uses(s).tables \subseteq tables
                    /\ Uses(s).columns \subseteq columns
                    /\ s = "rss-reader" => unique \/ skipped[s]
  BY DEF ReadyFindsSchema
<1>1. \A i \in 1 .. Len(Script(s)) : Lasts(s, Script(s)[i])
  BY ScriptLengths DEF SchemaInv, Ready
<1>2. Uses(s).tables \subseteq tables
  <2>1. ASSUME NEW t \in Uses(s).tables
        PROVE  t \in tables
    <3>1. PICK i \in 1 .. Len(Script(s)) : Script(s)[i] = Make(t)
      BY ScriptComplete
    <3>2. QED
      BY <1>1, <3>1 DEF Lasts, Make
  <2>2. QED
    BY <2>1
<1>3. Migrates(s) \subseteq columns /\ "rss_items" \in tables
  <2>1. PICK i \in 1 .. Len(Script(s)) : Script(s)[i] = AddColumns
    BY ScriptComplete
  <2>2. PICK j \in 1 .. i - 1 : Script(s)[j] = Make("rss_items")
    BY <2>1, StatementOrder DEF AddColumns
  <2>3. j \in 1 .. Len(Script(s))
    BY ScriptLengths
  <2>4. QED
    BY <1>1, <2>1, <2>2, <2>3 DEF Lasts, AddColumns, Make
<1>4. Uses(s).columns \subseteq columns
  BY <1>3, MigratesEnough DEF SchemaInv
<1>5. unique \/ skipped[s]
  BY <1>1, ScriptComplete DEF Lasts, TryUnique
<1>6. QED
  BY <1>2, <1>4, <1>5

(* A service whose New returned finds every table, column and constraint its *)
(* statements name, on every older database and in every order of the starts.*)
THEOREM ReadyIsSafe == SchemaSpec => []ReadyFindsSchema
<1>1. SchemaInv => ReadyFindsSchema
  BY ReadyIsComplete
<1>2. QED
  BY <1>1, SchemaInvariant, PTL

LEMMA EndsOnlyFirst ==
  ASSUME SchemaInv, [SchemaNext]_vars, NEW s \in Services,
         Running(s), at'[s] = Stopped, faults' = faults
  PROVE  /\ s = "web-admin"
         /\ "rss_items" \in found.tables
         /\ \A other \in Services : ~Ready(other)
<1>1. at[s] \in 1 .. Len(Script(s)) /\ at[s] # Stopped
  BY ScriptLengths DEF Running, Stopped
<1>2. at' # at
  BY <1>1
<1>3. PICK t \in Services :
        \/ CreateTable(t) \/ CreateIndex(t) \/ AddColumn(t)
        \/ CreateUnique(t) \/ Fault(t) \/ Restart(t)
  BY <1>2 DEF SchemaNext, vars
<1>4. ~Fault(t)
  BY DEF Fault, SchemaInv
<1>5. at[t] \in Nat
  BY DEF SchemaInv
<1>6. ASSUME at' = [at EXCEPT ![t] = at[t] + 1] \/ at' = [at EXCEPT ![t] = 1]
      PROVE  FALSE
  BY <1>1, <1>5, <1>6 DEF Stopped, SchemaInv
<1>7. CreateIndex(t) /\ Statement(t).name \notin columns /\ t = s
  BY <1>1, <1>2, <1>3, <1>4, <1>6
  DEF CreateTable, CreateIndex, AddColumn, CreateUnique, Restart, GoTo, SchemaInv
<1>8. /\ s = "web-admin" /\ "rss_items" \in tables
      /\ Statement(s).name \in AllColumns \ columns
  BY <1>7, <1>1, RunningStatement, StatementOrder, KnownColumns
  DEF CreateIndex, Statement
<1>9. "rss_items" \in found.tables
  BY <1>8 DEF SchemaInv
<1>10. ASSUME NEW other \in Services, Ready(other)
       PROVE  FALSE
  <2>1. \A i \in 1 .. Len(Script(other)) : Lasts(other, Script(other)[i])
    BY <1>10, ScriptLengths DEF SchemaInv, Ready
  <2>2. Migrates(other) \subseteq columns
    BY <2>1, ScriptComplete DEF Lasts, AddColumns
  <2>3. AllColumns \subseteq columns
    BY <1>8, <2>2, MigratesEnough DEF SchemaInv
  <2>4. QED
    BY <1>8, <2>3
<1>11. QED
  BY <1>8, <1>9, <1>10

(* Without a failing statement only web-admin can end at its start, only on  *)
(* an older rss_items, and never once another service is up.                 *)
THEOREM OnlyAdminEnds == SchemaSpec => OnlyAdminEndsAndOnlyFirst
<1>1. SchemaInv /\ [SchemaNext]_vars =>
        [\A s \in Services :
           Running(s) /\ at'[s] = Stopped /\ faults' = faults =>
             /\ s = "web-admin"
             /\ "rss_items" \in found.tables
             /\ \A other \in Services : ~Ready(other)]_vars
  BY EndsOnlyFirst
<1>2. QED
  BY <1>1, SchemaInvariant, PTL DEF SchemaSpec, OnlyAdminEndsAndOnlyFirst
=============================================================================
