---------------------------- MODULE FeedPolling ----------------------------
(***************************************************************************)
(* rss-reader's loop: it seeds and loads the feed list, polls the feeds at *)
(* every tick, serves the force-poll requests of web-admin and runs the    *)
(* retention sweep, all in one goroutine.  web-admin edits the feed list   *)
(* and asks for polls at any time.  What happens to the entries of a feed  *)
(* is module Reader.                                                       *)
(*                                                                         *)
(* rss_feeds becomes the status of each feed, feed_state the health of     *)
(* each feed (down_until is "in the future" or "in the past"), and         *)
(* feed_poll_requests the sequence of its feeds by requested_at.           *)
(***************************************************************************)
EXTENDS Reader, SequencesExt

CONSTANTS
  Feeds,
  UrlRank,          \* per feed: its place in the order of feed_url
  Configured,       \* listConfiguredFeeds: RSS_FEEDS and the feeds file
  Document,         \* per feed: the entries it publishes, in document order
  Entry,            \* per item: its guid, url and title, normalised
  NoGuid,           \* the guid of an entry that has none
  MaxItemsPerPoll,  \* cfg.MaxItemsPerPoll, 0: no limit
  ColdStartItems,   \* cfg.ColdStartItemsPerFeed
  ForcedLimit,      \* LIMIT of processForcedPolls
  MaxEdits,         \* bound: changes of the feed list
  MaxRequests,      \* bound: force-poll requests
  MaxEvents         \* bound: faults, crashes, sweeps, changes and requests together

ASSUME FeedAssumption ==
  /\ IsFiniteSet(Feeds) /\ Configured \in Seq(Feeds)
  /\ UrlRank \in [Feeds -> Nat] /\ \A f, g \in Feeds : UrlRank[f] = UrlRank[g] => f = g
  /\ Document \in [Feeds -> Seq(Items)]
  /\ DOMAIN Entry = Items
  /\ \A i, j \in Items : Entry[i] = Entry[j] => i = j
  /\ MaxItemsPerPoll \in Nat /\ ColdStartItems \in Nat /\ ForcedLimit \in Nat \ {0}
  /\ MaxEdits \in Nat /\ MaxRequests \in Nat /\ MaxEvents \in Nat

VARIABLES
  rss_feeds,      \* table rss_feeds
  feed_state,     \* table feed_state
  poll_requests,  \* table feed_poll_requests
  pending,        \* table pending_items; nothing writes processed_items
  bootstrap,      \* RSS_BOOTSTRAP_MARK_EXISTING
  poller,         \* where the loop is, and its locals
  enqueued,       \* history: times the reader queued an entry
  edits,          \* changes of the feed list spent
  requests        \* force-poll requests spent

tables_of_feeds == <<rss_feeds, feed_state, poll_requests, pending, bootstrap>>
untouched       == <<dispatch_queue, history, crashes>>
pollVars == <<items, analyzer_queue, reader, faults, removals, untouched, tables_of_feeds,
              poller, enqueued, edits, requests>>

FeedStatus == {"ABSENT", "ENABLED", "DISABLED"}
Health     == {"NONE", "UP", "COOLDOWN", "EXPIRED"}

PollerPc == {"seed", "boot", "mark", "stamp", "save", "idle", "poll", "entries", "answer",
             "exited"}

Poller == [pc       : PollerPc,
           starting : BOOLEAN,      \* before the first poll of this process
           forced   : BOOLEAN,      \* pollOneWithMode: force
           feeds    : Seq(Feeds),   \* the feeds still to seed or to poll
           loaded   : Seq(Feeds),   \* what loadFeeds returned at the start
           doc      : Seq(Items),   \* the entries still to handle
           count    : Nat]          \* new entries of this feed so far

Started == [pc |-> "seed", starting |-> TRUE, forced |-> FALSE, feeds |-> Configured,
            loaded |-> <<>>, doc |-> <<>>, count |-> 0]

Become(pc)    == poller' = [poller EXCEPT !.pc = pc]
AtMost(s, n)  == SubSeq(s, 1, IF Len(s) < n THEN Len(s) ELSE n)
Current       == Head(poller.feeds)

(* SELECT feed_url ... WHERE enabled = 1 ORDER BY feed_url: one list. *)
Enabled       == {f \in Feeds : rss_feeds[f] = "ENABLED"}
ByUrl(list)   == \A m, n \in DOMAIN list : m < n => UrlRank[list[m]] < UrlRank[list[n]]
EnabledFeeds  == {list \in [1..Cardinality(Enabled) -> Enabled] : ByUrl(list)}

PollInit ==
  /\ StoreInit /\ ReaderInit
  /\ rss_feeds = [f \in Feeds |-> "ABSENT"]
  /\ feed_state = [f \in Feeds |-> "NONE"]
  /\ poll_requests = <<>> /\ pending = {}
  /\ bootstrap \in BOOLEAN
  /\ poller = Started
  /\ enqueued = [i \in Items |-> 0]
  /\ edits = 0 /\ requests = 0

-----------------------------------------------------------------------------
(* The feed list.                                                          *)

(* Slip: seeding turns a feed on again. *)
SeededOn(f) == [rss_feeds EXCEPT ![f] = "ENABLED"]

(* INSERT ... ON CONFLICT DO UPDATE SET updated_at: a disabled feed stays. *)
Seeded(f) == IF rss_feeds[f] = "ABSENT" THEN [rss_feeds EXCEPT ![f] = "ENABLED"] ELSE rss_feeds

(* An error of loadFeeds ends the process at its start, and skips the tick *)
(* later on; so does an empty list.                                        *)
GiveUpLoading == Become(IF poller.starting THEN "exited" ELSE "idle")

SeedFeed ==
  /\ poller.pc = "seed" /\ poller.feeds # <<>>
  /\ \/ /\ rss_feeds' = Seeded(Current)
        /\ poller' = [poller EXCEPT !.feeds = Tail(@)] /\ NoFault
     \/ UNCHANGED rss_feeds /\ GiveUpLoading /\ Fault
  /\ UNCHANGED <<items, analyzer_queue, reader, removals, feed_state, poll_requests, pending,
                 bootstrap, enqueued>>

(* Slip: the setting is not looked at. *)
BootstrapAnyway == poller.starting /\ \A i \in Items : ~items[i].present

BootstrapDue == poller.starting /\ bootstrap /\ \A i \in Items : ~items[i].present

(* loadFeedsFromDB, then the first poll, which a bootstrap precedes when   *)
(* rss_items is empty.  An error of hasAnyProcessed, which only a start    *)
(* asks, ends the process as one of loadFeedsFromDB does.                  *)
LoadFeeds ==
  /\ poller.pc = "seed" /\ poller.feeds = <<>>
  /\ \/ Enabled = {} /\ GiveUpLoading /\ NoFault
     \/ /\ Enabled # {} /\ NoFault
        /\ \E list \in EnabledFeeds :
             poller' = [poller EXCEPT !.pc     = IF BootstrapDue THEN "boot" ELSE "poll",
                                      !.feeds  = list,
                                      !.loaded = IF poller.starting THEN list ELSE <<>>]
     \/ GiveUpLoading /\ Fault
  /\ UNCHANGED <<items, analyzer_queue, reader, removals, tables_of_feeds, enqueued>>

-----------------------------------------------------------------------------
(* bootstrapMarkExisting: per feed, the first entries are queued and all   *)
(* of them are put in pending_items.  None is stored in rss_items.         *)

BootFetch ==
  /\ poller.pc = "boot"
  /\ IF poller.feeds = <<>>
     THEN poller' = [poller EXCEPT !.pc = "poll", !.feeds = poller.loaded]
     ELSE \/ poller' = [poller EXCEPT !.pc = "mark", !.doc = Document[Current], !.count = 0]
          \/ poller' = [poller EXCEPT !.feeds = Tail(@)]
  /\ UNCHANGED <<items, analyzer_queue, reader, faults, removals, tables_of_feeds, enqueued>>

(* Two entries are the same on one of the three levels. *)
Alike(i, j) == \/ Entry[i].guid # NoGuid /\ Entry[i].guid = Entry[j].guid
               \/ Entry[i].url = Entry[j].url
               \/ Entry[i].title = Entry[j].title

IsDuplicate(i) == \E j \in pending : Alike(i, j)

(* isDuplicate, then for the first entries the INSERT of                   *)
(* enqueueAnalyzerJob.  An error of either skips the entry.                *)
BootEntry ==
  LET i == Head(poller.doc) IN
  /\ poller.pc = "mark" /\ poller.doc # <<>>
  /\ \/ /\ IsDuplicate(i)
        /\ poller' = [poller EXCEPT !.doc = Tail(@)]
        /\ UNCHANGED <<analyzer_queue, enqueued>> /\ NoFault
     \/ /\ ~IsDuplicate(i) /\ poller.count < ColdStartItems
        /\ analyzer_queue' = Enqueue(analyzer_queue, i)
        /\ enqueued' = [enqueued EXCEPT ![i] = @ + 1]
        /\ Become("stamp") /\ NoFault
     \/ /\ ~IsDuplicate(i) /\ poller.count >= ColdStartItems
        /\ Become("save")
        /\ UNCHANGED <<analyzer_queue, enqueued>> /\ NoFault
     \/ /\ poller' = [poller EXCEPT !.doc = Tail(@)]
        /\ UNCHANGED <<analyzer_queue, enqueued>> /\ Fault
  /\ UNCHANGED <<items, reader, removals, tables_of_feeds>>

(* markRawEnqueued, the second statement of enqueueAnalyzerJob, finds no   *)
(* row: rss_items is empty during a bootstrap.  Its error skips the entry  *)
(* too, which is queued by then, but neither counted nor put in            *)
(* pending_items.                                                          *)
BootStamp ==
  /\ poller.pc = "stamp"
  /\ \/ poller' = [poller EXCEPT !.pc = "save", !.count = @ + 1] /\ NoFault
     \/ poller' = [poller EXCEPT !.pc = "mark", !.doc = Tail(@)] /\ Fault
  /\ UNCHANGED <<items, analyzer_queue, reader, removals, tables_of_feeds, enqueued>>

SavePending ==
  /\ poller.pc = "save"
  /\ \/ pending' = pending \cup {Head(poller.doc)} /\ NoFault
     \/ UNCHANGED pending /\ Fault
  /\ poller' = [poller EXCEPT !.pc = "mark", !.doc = Tail(@)]
  /\ UNCHANGED <<items, analyzer_queue, reader, removals, rss_feeds, feed_state, poll_requests,
                 bootstrap, enqueued>>

BootFeedDone ==
  /\ poller.pc = "mark" /\ poller.doc = <<>>
  /\ poller' = [poller EXCEPT !.pc = "boot", !.feeds = Tail(@)]
  /\ UNCHANGED <<items, analyzer_queue, reader, faults, removals, tables_of_feeds, enqueued>>

-----------------------------------------------------------------------------
(* pollOneWithMode.  The fetch and the statement that records it are one   *)
(* step: nothing the loop reads can change what it does in between.        *)

MarkDown(f) == [feed_state EXCEPT ![f] = "COOLDOWN"]
MarkUp(f)   == [feed_state EXCEPT ![f] = "UP"]

(* On to the next feed; a forced poll first removes its request. *)
FeedDone(p) == IF p.forced THEN [p EXCEPT !.pc = "answer", !.doc = <<>>]
               ELSE [p EXCEPT !.pc = "poll", !.doc = <<>>, !.feeds = Tail(@)]

CanPoll(f) == feed_state[f] # "COOLDOWN"

SkipFeed ==
  /\ poller.pc = "poll" /\ poller.feeds # <<>>
  /\ \/ ~CanPoll(Current) /\ ~poller.forced /\ NoFault
     \/ Fault
  /\ poller' = FeedDone(poller)
  /\ UNCHANGED <<items, analyzer_queue, reader, removals, tables_of_feeds, enqueued>>

FetchOk(f) ==
  /\ poller.pc = "poll" /\ poller.feeds # <<>> /\ f = Current
  /\ CanPoll(f) \/ poller.forced
  /\ poller' = [poller EXCEPT !.pc = "entries", !.doc = Document[f], !.count = 0]
  /\ \/ feed_state' = MarkUp(f) /\ NoFault
     \/ UNCHANGED feed_state /\ Fault
  /\ UNCHANGED <<items, analyzer_queue, reader, removals, rss_feeds, poll_requests, pending,
                 bootstrap, enqueued>>

(* All cfg.RetryAttempts attempts failed. *)
FetchFails(f) ==
  /\ poller.pc = "poll" /\ poller.feeds # <<>> /\ f = Current
  /\ CanPoll(f) \/ poller.forced
  /\ poller' = FeedDone(poller)
  /\ \/ feed_state' = MarkDown(f) /\ NoFault
     \/ UNCHANGED feed_state /\ Fault
  /\ UNCHANGED <<items, analyzer_queue, reader, removals, rss_feeds, poll_requests, pending,
                 bootstrap, enqueued>>

Full == MaxItemsPerPoll > 0 /\ poller.count >= MaxItemsPerPoll

(* Slip: entries that were seen before count as well. *)
CountSeen == poller' = [poller EXCEPT !.doc = Tail(@), !.count = @ + 1]

PassSeen == poller' = [poller EXCEPT !.doc = Tail(@)]

TakeEntry ==
  LET i == Head(poller.doc) IN
  /\ poller.pc = "entries" /\ reader.pc = "idle" /\ poller.doc # <<>> /\ ~Full
  /\ \/ InsertItemIfNew(i) /\ UNCHANGED <<poller, removals>>
     \/ /\ items[i].present /\ PassSeen
        /\ UNCHANGED <<items, analyzer_queue, reader, removals>> /\ NoFault
     \/ /\ poller' = [poller EXCEPT !.doc = Tail(@)]
        /\ UNCHANGED <<items, analyzer_queue, reader, removals>> /\ Fault
  /\ UNCHANGED <<tables_of_feeds, enqueued, dispatch_queue>>

(* Reader's steps; an entry counts when both statements went through. *)
QueueEntry ==
  /\ poller.pc = "entries"
  /\ \/ /\ EnqueueAnalyzerJob
        /\ enqueued' = IF reader'.pc = "stampRaw"
                       THEN [enqueued EXCEPT ![reader.item] = @ + 1] ELSE enqueued
        /\ UNCHANGED poller
     \/ /\ MarkRawEnqueued
        /\ poller' = IF reader'.pc = "idle"
                     THEN [poller EXCEPT !.doc = Tail(@), !.count = @ + 1] ELSE poller
        /\ UNCHANGED enqueued
     \/ /\ MarkEnqueueFailed
        /\ poller' = [poller EXCEPT !.doc = Tail(@)]
        /\ UNCHANGED enqueued
  /\ UNCHANGED tables_of_feeds

EntriesDone ==
  /\ poller.pc = "entries" /\ reader.pc = "idle" /\ (poller.doc = <<>> \/ Full)
  /\ poller' = FeedDone(poller)
  /\ UNCHANGED <<items, analyzer_queue, reader, faults, removals, tables_of_feeds, enqueued>>

-----------------------------------------------------------------------------
(* The loop's select: one ready case at a time, chosen at random.          *)

PollsDone ==
  /\ poller.pc = "poll" /\ poller.feeds = <<>>
  /\ poller' = [poller EXCEPT !.pc = "idle", !.starting = FALSE, !.forced = FALSE,
                              !.loaded = <<>>, !.count = 0]
  /\ UNCHANGED <<items, analyzer_queue, reader, faults, removals, tables_of_feeds, enqueued>>

Tick ==
  /\ poller.pc = "idle"
  /\ poller' = [poller EXCEPT !.pc = "seed", !.feeds = Configured]
  /\ UNCHANGED <<items, analyzer_queue, reader, faults, removals, tables_of_feeds, enqueued>>

(* Slip: requests for feeds that were disabled or removed are not taken. *)
EnabledForced ==
  AtMost(SelectSeq(poll_requests, LAMBDA f : rss_feeds[f] = "ENABLED"), ForcedLimit)

ForcedFeeds == AtMost(poll_requests, ForcedLimit)

(* processForcedPolls: the oldest requests, as they are now. *)
ProcessForcedPolls ==
  /\ poller.pc = "idle" /\ poll_requests # <<>>
  /\ poller' = [poller EXCEPT !.pc = "poll", !.forced = TRUE, !.feeds = ForcedFeeds]
  /\ UNCHANGED <<items, analyzer_queue, reader, faults, removals, tables_of_feeds, enqueued>>

(* Slip: the request of a feed that is not enabled stays. *)
DeleteEnabledRequest ==
  /\ poller.pc = "answer"
  /\ poll_requests' = IF rss_feeds[Current] = "ENABLED"
                      THEN RemoveFirst(poll_requests, Current) ELSE poll_requests
  /\ poller' = [poller EXCEPT !.pc = "poll", !.feeds = Tail(@)]
  /\ UNCHANGED <<items, analyzer_queue, reader, faults, removals, rss_feeds, feed_state, pending,
                 bootstrap, enqueued>>

(* DELETE ... WHERE feed_url = ?, the primary key of the table; also of a  *)
(* request made during the poll.                                           *)
DeleteRequest ==
  /\ poller.pc = "answer"
  /\ \/ poll_requests' = RemoveFirst(poll_requests, Current) /\ NoFault
     \/ UNCHANGED poll_requests /\ Fault
  /\ poller' = [poller EXCEPT !.pc = "poll", !.feeds = Tail(@)]
  /\ UNCHANGED <<items, analyzer_queue, reader, removals, rss_feeds, feed_state, pending,
                 bootstrap, enqueued>>

(* The sweep first deletes the old rows of pending_items; it may stop      *)
(* there, because no row of rss_items is old enough or its deletion fails. *)
Sweep ==
  /\ poller.pc = "idle"
  /\ \E P \in SUBSET pending :
       /\ pending' = pending \ P
       /\ \/ \E S \in SUBSET Items : Cleanup(S)
          \/ P # {} /\ UNCHANGED <<items, analyzer_queue, reader, faults, removals>>
  /\ UNCHANGED <<rss_feeds, feed_state, poll_requests, bootstrap, poller, enqueued>>

(* down_until passes. *)
CooldownEnds(f) ==
  /\ feed_state[f] = "COOLDOWN"
  /\ feed_state' = [feed_state EXCEPT ![f] = "EXPIRED"]
  /\ UNCHANGED <<items, analyzer_queue, reader, faults, removals, rss_feeds, poll_requests,
                 pending, bootstrap, poller, enqueued>>

-----------------------------------------------------------------------------
(* web-admin's requests about feeds.                                       *)

(* POST /api/feeds, DELETE /api/feeds (a transaction over rss_feeds and    *)
(* feed_state) and POST /api/feeds/toggle.                                 *)
EditFeeds(f) ==
  /\ edits < MaxEdits /\ edits' = edits + 1
  /\ \/ rss_feeds' = [rss_feeds EXCEPT ![f] = "ENABLED"] /\ UNCHANGED feed_state
     \/ /\ rss_feeds[f] # "ABSENT"
        /\ rss_feeds' = [rss_feeds EXCEPT ![f] = "ABSENT"]
        /\ feed_state' = [feed_state EXCEPT ![f] = "NONE"]
     \/ /\ rss_feeds[f] # "ABSENT"
        /\ \E status \in {"ENABLED", "DISABLED"} :
             rss_feeds' = [rss_feeds EXCEPT ![f] = status]
        /\ UNCHANGED feed_state
  /\ UNCHANGED <<items, analyzer_queue, reader, faults, removals, poll_requests, pending,
                 bootstrap, poller, enqueued, requests>>

(* Slip: an older request of the same feed is not replaced. *)
AskedTwice(f) == Append(poll_requests, f)

Asked(f) == Append(RemoveFirst(poll_requests, f), f)

(* POST /api/feeds/poll.  The check that the feed exists and the insert    *)
(* are one step: a deletion in between leaves what one right after leaves. *)
RequestPoll(f) ==
  /\ rss_feeds[f] # "ABSENT" /\ requests < MaxRequests
  /\ requests' = requests + 1
  /\ poll_requests' = Asked(f)
  /\ UNCHANGED <<items, analyzer_queue, reader, faults, removals, rss_feeds, feed_state, pending,
                 bootstrap, poller, enqueued, edits>>

-----------------------------------------------------------------------------

PollStep == \/ SeedFeed \/ LoadFeeds
            \/ BootFetch \/ BootEntry \/ BootStamp \/ SavePending \/ BootFeedDone
            \/ SkipFeed \/ \E f \in Feeds : FetchOk(f) \/ FetchFails(f)
            \/ TakeEntry \/ QueueEntry \/ EntriesDone
            \/ PollsDone \/ DeleteRequest

LoopStep == (PollStep \/ Tick \/ ProcessForcedPolls \/ Sweep)
            /\ UNCHANGED <<edits, requests, untouched>>

AdminFeedStep == \E f \in Feeds : (EditFeeds(f) \/ RequestPoll(f)) /\ UNCHANGED untouched

TimePasses == \E f \in Feeds : CooldownEnds(f) /\ UNCHANGED <<edits, requests, untouched>>

(* rss-reader dies, or is started again after it gave up. *)
RestartReader ==
  /\ CrashReader
  /\ poller' = Started
  /\ UNCHANGED <<tables_of_feeds, enqueued, edits, requests>>

PollNext ==
  /\ LoopStep \/ AdminFeedStep \/ TimePasses \/ RestartReader
  /\ faults' + crashes' + removals' + edits' + requests' <= MaxEvents

PollSpec == PollInit /\ [][PollNext]_pollVars

(* The loop never stops; select takes every case that keeps being ready; a *)
(* cooldown ends; a feed that is asked again and again answers.            *)
PollFairSpec ==
  /\ PollSpec
  /\ WF_pollVars(PollStep /\ LoopStep)
  /\ SF_pollVars(Tick /\ LoopStep)
  /\ SF_pollVars(ProcessForcedPolls /\ LoopStep)
  /\ \A f \in Feeds : /\ SF_pollVars(FetchOk(f) /\ LoopStep)
                      /\ WF_pollVars(CooldownEnds(f) /\ TimePasses)

-----------------------------------------------------------------------------

PollTypeOK ==
  /\ StoreTypeOK /\ ReaderTypeOK
  /\ rss_feeds \in [Feeds -> FeedStatus]
  /\ feed_state \in [Feeds -> Health]
  /\ poll_requests \in Seq(Feeds)
  /\ \A m, n \in 1..Len(poll_requests) : poll_requests[m] = poll_requests[n] => m = n
  /\ pending \subseteq Items
  /\ bootstrap \in BOOLEAN
  /\ poller \in Poller
  /\ enqueued \in [Items -> Nat]

(* An entry that two feeds publish, that periodic and forced polls meet    *)
(* again and again, or that a restarted reader sees anew, is queued for    *)
(* analysis once, and once more for each sweep that may have deleted it;   *)
(* a bootstrap queues it a second time, and again after every restart and  *)
(* every failed statement that cost it its mark in pending_items.          *)
QueuedOnce ==
  \A i \in Items :
    enqueued[i] <= 1 + removals + (IF bootstrap THEN 1 + crashes + faults ELSE 0)

(* What Pipeline assumes of rss-reader: without the bootstrap, the loop    *)
(* changes the tables by the steps of module Reader, one at a time, and in *)
(* no other way.                                                           *)
AsReader      == bootstrap \/ ReaderStep \/ CrashReader
PollsAsReader == [][AsReader]_<<tables, reader>>

(* Only a request of web-admin turns a disabled feed on: the seeding of    *)
(* the configured feeds at every tick does not.                            *)
TurnedOnByAdmin ==
  \A f \in Feeds : rss_feeds[f] = "DISABLED" /\ rss_feeds'[f] = "ENABLED" => edits' # edits
StaysDisabled == [][TurnedOnByAdmin]_pollVars

(* Every entry of a feed that stays enabled is stored again and again,     *)
(* whatever the limit per poll, its cooldowns and restarts, or rss-reader  *)
(* ended at its start because it had no feed to poll.                      *)
EveryEntryStored ==
  \A f \in Feeds :
    <>[](rss_feeds[f] = "ENABLED" /\ poller.pc # "exited")
      => \A n \in 1..Len(Document[f]) : []<>items[Document[f][n]].present

(* Every request for a poll is taken out of the table in the end, also one *)
(* for a feed that was disabled or removed since.                          *)
Asks(f) == \E n \in 1..Len(poll_requests) : poll_requests[n] = f

RequestsServed == \A f \in Feeds : Asks(f) ~> (poller.pc = "exited" \/ ~Asks(f))

(* A request for a feed that is not being polled by force at that moment   *)
(* leads to a forced poll that begins after it: only a request made during *)
(* a forced poll of the same feed can be deleted unserved.                 *)
BeingForced(f) == poller.forced /\ poller.feeds # <<>> /\ Current = f

RequestsPolled ==
  \A f \in Feeds : (Asks(f) /\ ~BeingForced(f)) ~> (poller.pc = "exited" \/ BeingForced(f))

-----------------------------------------------------------------------------
(* What a test and the specification say of the program and the code does  *)
(* not keep.                                                               *)

(* rssreader/service_test.go, TestBootstrapMarkExisting: an entry that the *)
(* bootstrap put in pending_items counts as processed, and specs/001-rwct- *)
(* rss-telegram/spec.md, FR-006: a processed entry is not published again. *)
MarkedIsNotPublished ==
  [][\A i \in Items : i \in pending => enqueued'[i] = enqueued[i]]_pollVars
=============================================================================
