----------------------------- MODULE PollProofs -----------------------------
(***************************************************************************)
(* Theorems about FeedPolling for any feeds, documents, limits and bounds. *)
(***************************************************************************)
EXTENDS FeedPolling, SequenceTheorems, FiniteSetTheorems, TLAPS

-----------------------------------------------------------------------------
(* The sequences of the loop. *)

Distinct(s) == \A m, n \in 1..Len(s) : s[m] = s[n] => m = n

(* The elements m to n of s. *)
LEMMA PartOf ==
  ASSUME NEW S, NEW s \in Seq(S), NEW m \in Nat \ {0}, NEW n \in Int, n <= Len(s)
  PROVE  /\ SubSeq(s, m, n) \in Seq(S)
         /\ Len(SubSeq(s, m, n)) = IF m <= n THEN n - m + 1 ELSE 0
         /\ \A i \in 1..n - m + 1 : SubSeq(s, m, n)[i] = s[m + i - 1]
<1>1. \A i \in m..n : s[i] \in S
  BY ElementOfSeq, LenProperties
<1>2. m \in Int
  OBVIOUS
<1>3. QED
  BY <1>1, <1>2, SubSeqProperties

(* Without its k-th element, s has the others in their order. *)
LEMMA RemoveAtProperties ==
  ASSUME NEW S, NEW s \in Seq(S), NEW k \in 1..Len(s)
  PROVE  /\ RemoveAt(s, k) \in Seq(S)
         /\ Len(RemoveAt(s, k)) = Len(s) - 1
         /\ \A n \in 1..Len(s) - 1 : RemoveAt(s, k)[n] = IF n < k THEN s[n] ELSE s[n + 1]
<1> DEFINE front == SubSeq(s, 1, k - 1)
           back  == SubSeq(s, k + 1, Len(s))
<1> HIDE DEF front, back
<1>1. Len(s) \in Nat /\ k \in Nat /\ \A n \in 1..Len(s) : s[n] \in S
  BY ElementOfSeq, LenProperties
<1>2. /\ front \in Seq(S) /\ Len(front) = k - 1
      /\ \A n \in 1..k - 1 : front[n] = s[n]
  <2> DEFINE last == k - 1
  <2>1. last \in Int /\ last <= Len(s) /\ 1 \in Nat \ {0}
    BY <1>1
  <2>2. last \in Nat /\ last - 1 + 1 = last
    BY <1>1
  <2>3. front = SubSeq(s, 1, last)
    BY DEF front
  <2> HIDE DEF last
  <2>4. /\ front \in Seq(S)
        /\ Len(front) = (IF 1 <= last THEN last - 1 + 1 ELSE 0)
        /\ \A n \in 1..last - 1 + 1 : front[n] = s[1 + n - 1]
    BY <2>1, <2>3, PartOf
  <2>5. ASSUME NEW n \in 1..last PROVE front[n] = s[n]
    <3>1. 1 + n - 1 = n
      BY <2>2
    <3>2. QED
      BY <2>2, <2>4, <3>1
  <2>6. front \in Seq(S) /\ Len(front) = last
    BY <2>2, <2>4
  <2>7. QED
    BY <2>5, <2>6 DEF last
<1>3. /\ back \in Seq(S) /\ Len(back) = Len(s) - k
      /\ \A n \in 1..Len(s) - k : back[n] = s[k + n]
  <2>1. Len(s) \in Int /\ Len(s) <= Len(s) /\ k + 1 \in Nat \ {0}
    BY <1>1
  <2>2. back \in Seq(S) /\ Len(back) = (IF k + 1 <= Len(s) THEN Len(s) - (k + 1) + 1 ELSE 0)
    BY <2>1, PartOf, Zenon DEF back
  <2>3. \A n \in 1..Len(s) - (k + 1) + 1 : back[n] = s[k + 1 + n - 1]
    BY <2>1, PartOf, Zenon DEF back
  <2>4. QED
    BY <1>1, <2>2, <2>3
<1>4. RemoveAt(s, k) = front \o back
  BY DEF RemoveAt, front, back
<1>5. /\ front \o back \in Seq(S)
      /\ Len(front \o back) = Len(front) + Len(back)
      /\ \A n \in 1..Len(front) + Len(back) :
           (front \o back)[n] = IF n <= Len(front) THEN front[n] ELSE back[n - Len(front)]
  BY <1>2, <1>3, ConcatProperties, Zenon
<1>6. QED
  BY <1>1, <1>2, <1>3, <1>4, <1>5

(* The rows of feed_poll_requests have different feeds, and a deletion     *)
(* takes the one of its feed.                                              *)
LEMMA RemoveFirstProperties ==
  ASSUME NEW S, NEW s \in Seq(S), NEW e, Distinct(s)
  PROVE  /\ RemoveFirst(s, e) \in Seq(S)
         /\ Distinct(RemoveFirst(s, e))
         /\ \A n \in 1..Len(RemoveFirst(s, e)) : RemoveFirst(s, e)[n] # e
<1>1. CASE ~\E i \in 1..Len(s) : s[i] = e
  BY <1>1 DEF RemoveFirst
<1>2. ASSUME NEW k \in 1..Len(s), s[k] = e
      PROVE  RemoveFirst(s, e) = RemoveAt(s, k)
  <2>1. {i \in 1..Len(s) : s[i] = e} = {k}
    BY <1>2 DEF Distinct
  <2>2. SelectInSeq(s, LAMBDA v : v = e) = k
    BY <2>1 DEF SelectInSeq, Min
  <2>3. QED
    BY <1>2, <2>2 DEF RemoveFirst
<1>3. ASSUME NEW k \in 1..Len(s), s[k] = e
      PROVE  /\ RemoveAt(s, k) \in Seq(S)
             /\ Distinct(RemoveAt(s, k))
             /\ \A n \in 1..Len(RemoveAt(s, k)) : RemoveAt(s, k)[n] # e
  <2>1. Len(s) \in Nat
    BY LenProperties
  <2> DEFINE t == RemoveAt(s, k)
             old(n) == IF n < k THEN n ELSE n + 1
  <2>2. t \in Seq(S) /\ Len(t) = Len(s) - 1 /\ \A n \in 1..Len(s) - 1 : t[n] = s[old(n)]
    BY RemoveAtProperties
  <2> HIDE DEF t
  <2>3. \A n \in 1..Len(s) - 1 : old(n) \in 1..Len(s) /\ old(n) # k
    BY <2>1
  <2>4. \A m, n \in 1..Len(s) - 1 : old(m) = old(n) => m = n
    BY <2>1
  <2> HIDE DEF old
  <2>5. ASSUME NEW n \in 1..Len(t) PROVE t[n] # e
    <3>1. s[old(n)] = e => old(n) = k
      BY <1>3, <2>2, <2>3 DEF Distinct
    <3>2. QED
      BY <2>2, <2>3, <3>1
  <2>6. ASSUME NEW m \in 1..Len(t), NEW n \in 1..Len(t), t[m] = t[n] PROVE m = n
    <3>1. old(m) = old(n)
      BY <2>2, <2>3, <2>6 DEF Distinct
    <3>2. QED
      BY <2>2, <2>4, <3>1
  <2>7. QED
    BY <2>2, <2>5, <2>6 DEF t, Distinct
<1>4. QED
  BY <1>1, <1>2, <1>3

LEMMA AppendNew ==
  ASSUME NEW S, NEW s \in Seq(S), NEW e \in S, Distinct(s), \A n \in 1..Len(s) : s[n] # e
  PROVE  Append(s, e) \in Seq(S) /\ Distinct(Append(s, e))
<1>1. Len(s) \in Nat
  BY LenProperties
<1>2. /\ Append(s, e) \in Seq(S) /\ Len(Append(s, e)) = Len(s) + 1
      /\ \A n \in 1..Len(s) : Append(s, e)[n] = s[n]
      /\ Append(s, e)[Len(s) + 1] = e
  BY AppendProperties
<1>3. QED
  BY <1>1, <1>2 DEF Distinct

LEMMA AtMostType ==
  ASSUME NEW S, NEW s \in Seq(S), NEW n \in Nat
  PROVE  AtMost(s, n) \in Seq(S)
<1>1. Len(s) \in Nat /\ \A k \in 1..Len(s) : s[k] \in S
  BY ElementOfSeq, LenProperties
<1> DEFINE last == IF Len(s) < n THEN Len(s) ELSE n
<1>2. last \in Int /\ 1 \in Int /\ \A k \in 1..last : s[k] \in S
  BY <1>1
<1> HIDE DEF last
<1>3. SubSeq(s, 1, last) \in Seq(S)
  BY <1>2, SubSeqProperties
<1>4. QED
  BY <1>3 DEF AtMost, last

LEMMA EnabledFeedsType == EnabledFeeds \subseteq Seq(Feeds)
<1>1. Cardinality(Enabled) \in Nat
  BY FeedAssumption, FS_Subset, FS_CardinalityType DEF Enabled
<1>2. [1..Cardinality(Enabled) -> Enabled] \subseteq Seq(Enabled)
  BY <1>1, SeqDef
<1>3. Seq(Enabled) \subseteq Seq(Feeds)
  BY SeqMonotonic DEF Enabled
<1>4. QED
  BY <1>2, <1>3 DEF EnabledFeeds

-----------------------------------------------------------------------------
(* Type correctness, with where the loop can be. *)

(* The reader handles the first entry of the document that is polled. *)
ReaderAtEntry ==
  reader.pc # "idle" => /\ poller.pc = "entries" /\ poller.doc # <<>>
                        /\ reader.item = Head(poller.doc)

(* The bootstrap runs before the first poll only, and the loop waits after *)
(* it only; a feed or an entry that is handled is there.                   *)
LoopShape ==
  /\ poller.pc \in {"boot", "mark", "stamp", "save"} => poller.starting /\ bootstrap
  /\ poller.pc = "idle" => ~poller.starting
  /\ poller.pc \in {"mark", "stamp", "save", "entries", "answer"} => poller.feeds # <<>>
  /\ poller.pc \in {"stamp", "save"} => poller.doc # <<>>
  /\ edits \in Nat /\ requests \in Nat

PollInv == PollTypeOK /\ ReaderAtEntry /\ LoopShape

(* What the loop does not touch in a step of its own. *)
Loop == UNCHANGED <<edits, requests, untouched>>

LEMMA PollerParts ==
  ASSUME poller \in Poller
  PROVE  /\ poller.feeds # <<>> => Head(poller.feeds) \in Feeds /\ Tail(poller.feeds) \in Seq(Feeds)
         /\ poller.doc # <<>> => Head(poller.doc) \in Items /\ Tail(poller.doc) \in Seq(Items)
<1>1. poller.feeds \in Seq(Feeds) /\ poller.doc \in Seq(Items)
  BY DEF Poller
<1>2. poller.feeds # <<>> => Head(poller.feeds) \in Feeds /\ Tail(poller.feeds) \in Seq(Feeds)
  BY <1>1, HeadTailProperties
<1>3. poller.doc # <<>> => Head(poller.doc) \in Items /\ Tail(poller.doc) \in Seq(Items)
  BY <1>1, HeadTailProperties
<1>4. QED
  BY <1>2, <1>3

LEMMA SameTables ==
  ASSUME PollTypeOK, Loop, UNCHANGED <<items, analyzer_queue, reader, removals>>, Fault \/ NoFault
  PROVE  StoreTypeOK' /\ ReaderTypeOK'
<1>1. faults' \in 0..MaxFaults
  BY BudgetAssumption DEF PollTypeOK, StoreTypeOK, Fault, NoFault
<1>2. QED
  BY <1>1 DEF PollTypeOK, StoreTypeOK, ReaderTypeOK, Loop, untouched, history

LEMMA NothingSpent == UNCHANGED faults => NoFault
BY DEF NoFault

LEMMA InitPollInv == PollInit => PollInv
<1> SUFFICES ASSUME PollInit PROVE PollInv
  OBVIOUS
<1>1. NoItem \in Item /\ NoRow \in Row
  BY DEF NoItem, Item, Status, NoRow, Row, RowState
<1>2. StoreTypeOK
  BY <1>1, BudgetAssumption DEF PollInit, StoreInit, StoreTypeOK, EmptyQueue
<1>3. ReaderTypeOK /\ ReaderAtEntry
  BY DEF PollInit, ReaderInit, ReaderTypeOK, ReaderPc, ReaderAtEntry
<1>4. poll_requests \in Seq(Feeds) /\ \A m, n \in 1..Len(poll_requests) :
                                      poll_requests[m] = poll_requests[n] => m = n
  BY EmptySeq DEF PollInit
<1>5. poller \in Poller
  BY EmptySeq, FeedAssumption DEF PollInit, Started, Poller, PollerPc
<1>6. PollTypeOK
  BY <1>2, <1>3, <1>4, <1>5 DEF PollInit, PollTypeOK, FeedStatus, Health
<1>7. LoopShape
  BY DEF PollInit, LoopShape, Started
<1>8. QED
  BY <1>3, <1>6, <1>7 DEF PollInv

(* A step that leaves the tables of rss-reader's entries alone. *)
LEMMA LoopOnly ==
  ASSUME PollInv, Loop, UNCHANGED <<items, analyzer_queue, reader, removals, enqueued, bootstrap>>,
         Fault \/ NoFault,
         rss_feeds' \in [Feeds -> FeedStatus], feed_state' \in [Feeds -> Health],
         poll_requests' \in Seq(Feeds), Distinct(poll_requests)', pending' \subseteq Items,
         poller' \in Poller, reader.pc = "idle",
         poller'.pc \in {"boot", "mark", "stamp", "save"} => poller'.starting /\ bootstrap,
         poller'.pc = "idle" => ~poller'.starting,
         poller'.pc \in {"mark", "stamp", "save", "entries", "answer"} => poller'.feeds # <<>>,
         poller'.pc \in {"stamp", "save"} => poller'.doc # <<>>
  PROVE  PollInv'
<1>1. StoreTypeOK' /\ ReaderTypeOK'
  BY SameTables DEF PollInv
<1>2. PollTypeOK'
  BY <1>1 DEF PollInv, PollTypeOK, Distinct
<1>3. ReaderAtEntry'
  BY DEF ReaderAtEntry
<1>4. LoopShape'
  BY DEF PollInv, LoopShape, Loop
<1>5. QED
  BY <1>2, <1>3, <1>4 DEF PollInv

LEMMA SeedFeedInv ==
  ASSUME PollInv, Loop, SeedFeed
  PROVE  PollInv'
<1>1. /\ poller \in Poller /\ poller.pc = "seed" /\ poller.feeds # <<>> /\ reader.pc = "idle"
      /\ Current \in Feeds /\ Tail(poller.feeds) \in Seq(Feeds)
  BY PollerParts DEF PollInv, PollTypeOK, SeedFeed, ReaderAtEntry, Current
<1>2. /\ rss_feeds \in [Feeds -> FeedStatus] /\ feed_state \in [Feeds -> Health]
      /\ poll_requests \in Seq(Feeds) /\ Distinct(poll_requests) /\ pending \subseteq Items
  BY DEF PollInv, PollTypeOK, Distinct
<1>3. UNCHANGED <<items, analyzer_queue, reader, removals, feed_state, poll_requests, pending,
                  bootstrap, enqueued>>
  BY DEF SeedFeed
<1>4. rss_feeds' \in [Feeds -> FeedStatus] /\ (Fault \/ NoFault)
  BY <1>1, <1>2 DEF SeedFeed, Seeded, FeedStatus
<1>5. Distinct(poll_requests)'
  BY <1>2, <1>3 DEF Distinct
<1>6. /\ poller' \in Poller
      /\ poller'.pc \in {"seed", "idle", "exited"}
      /\ poller'.pc = "idle" => ~poller'.starting
  BY <1>1 DEF SeedFeed, GiveUpLoading, Become, Poller, PollerPc
<1>7. QED
  BY <1>1, <1>2, <1>3, <1>4, <1>5, <1>6, LoopOnly, Zenon

LEMMA LoadFeedsInv ==
  ASSUME PollInv, Loop, LoadFeeds
  PROVE  PollInv'
<1>1. /\ poller \in Poller /\ poller.pc = "seed" /\ reader.pc = "idle"
      /\ rss_feeds \in [Feeds -> FeedStatus] /\ feed_state \in [Feeds -> Health]
      /\ poll_requests \in Seq(Feeds) /\ Distinct(poll_requests) /\ pending \subseteq Items
  BY DEF PollInv, PollTypeOK, LoadFeeds, ReaderAtEntry, Distinct
<1>2. /\ UNCHANGED <<items, analyzer_queue, reader, removals, rss_feeds, feed_state,
                     poll_requests, pending, bootstrap, enqueued>>
      /\ Fault \/ NoFault
  BY DEF LoadFeeds, tables_of_feeds
<1>3. Distinct(poll_requests)'
  BY <1>1, <1>2 DEF Distinct
<1>4. CASE GiveUpLoading
  <2>1. /\ poller' \in Poller
        /\ poller'.pc \in {"idle", "exited"}
        /\ poller'.pc = "idle" => ~poller'.starting
    BY <1>1, <1>4 DEF GiveUpLoading, Become, Poller, PollerPc
  <2>2. QED
    BY <1>1, <1>2, <1>3, <2>1, LoopOnly, Zenon
<1>5. ASSUME NEW list \in EnabledFeeds,
             poller' = [poller EXCEPT !.pc     = IF BootstrapDue THEN "boot" ELSE "poll",
                                      !.feeds  = list,
                                      !.loaded = IF poller.starting THEN list ELSE <<>>]
      PROVE  PollInv'
  <2>1. list \in Seq(Feeds) /\ <<>> \in Seq(Feeds)
    BY EnabledFeedsType, EmptySeq
  <2>2. /\ poller' \in Poller
        /\ poller'.pc \in {"boot", "poll"}
        /\ poller'.pc = "boot" => poller'.starting /\ bootstrap
    BY <1>1, <1>5, <2>1 DEF BootstrapDue, Poller, PollerPc
  <2>3. QED
    BY <1>1, <1>2, <1>3, <2>2, LoopOnly, Zenon
<1>6. QED
  BY <1>4, <1>5 DEF LoadFeeds

(* The parts of the invariant that every step below starts from. *)
LEMMA Parts ==
  ASSUME PollInv
  PROVE  /\ rss_feeds \in [Feeds -> FeedStatus] /\ feed_state \in [Feeds -> Health]
         /\ poll_requests \in Seq(Feeds) /\ Distinct(poll_requests) /\ pending \subseteq Items
         /\ poller \in Poller
         /\ poller.pc # "entries" => reader.pc = "idle"
         /\ poller.pc \in {"boot", "mark", "stamp", "save"} => poller.starting /\ bootstrap
         /\ poller.pc = "idle" => ~poller.starting
         /\ poller.pc \in {"mark", "stamp", "save", "entries", "answer"} => poller.feeds # <<>>
         /\ poller.feeds # <<>> => Current \in Feeds /\ Tail(poller.feeds) \in Seq(Feeds)
         /\ poller.doc # <<>> => Head(poller.doc) \in Items /\ Tail(poller.doc) \in Seq(Items)
BY PollerParts DEF PollInv, PollTypeOK, LoopShape, ReaderAtEntry, Distinct, Current

LEMMA SameRequests == Distinct(poll_requests) /\ UNCHANGED poll_requests => Distinct(poll_requests)'
BY DEF Distinct

LEMMA DocumentType == \A f \in Feeds : Document[f] \in Seq(Items)
BY FeedAssumption

(* Steps that only move the loop on. *)
LEMMA Moves ==
  ASSUME PollInv, Loop, Fault \/ NoFault,
         UNCHANGED <<items, analyzer_queue, reader, removals, tables_of_feeds, enqueued>>,
         poller' \in Poller, reader.pc = "idle",
         poller'.pc \in {"boot", "mark", "stamp", "save"} => poller'.starting /\ bootstrap,
         poller'.pc = "idle" => ~poller'.starting,
         poller'.pc \in {"mark", "stamp", "save", "entries", "answer"} => poller'.feeds # <<>>,
         poller'.pc \in {"stamp", "save"} => poller'.doc # <<>>
  PROVE  PollInv'
<1>1. UNCHANGED <<items, analyzer_queue, reader, removals, rss_feeds, feed_state,
                  poll_requests, pending, bootstrap, enqueued>>
  BY DEF tables_of_feeds
<1>2. /\ rss_feeds' \in [Feeds -> FeedStatus] /\ feed_state' \in [Feeds -> Health]
      /\ poll_requests' \in Seq(Feeds) /\ Distinct(poll_requests)' /\ pending' \subseteq Items
  BY <1>1, Parts, SameRequests
<1>3. QED
  BY <1>1, <1>2, LoopOnly, Zenon

LEMMA BootFetchInv ==
  ASSUME PollInv, Loop, BootFetch
  PROVE  PollInv'
<1>1. poller \in Poller /\ reader.pc = "idle" /\ poller.starting /\ bootstrap
  BY Parts DEF BootFetch
<1>2. NoFault /\ UNCHANGED <<items, analyzer_queue, reader, removals, tables_of_feeds, enqueued>>
  BY DEF BootFetch, NoFault
<1>3. CASE poller' = [poller EXCEPT !.pc = "poll", !.feeds = poller.loaded]
  <2>1. poller' \in Poller /\ poller'.pc = "poll"
    BY <1>1, <1>3 DEF Poller, PollerPc
  <2>2. QED
    BY <1>1, <1>2, <2>1, Moves
<1>4. ASSUME poller.feeds # <<>>,
             poller' = [poller EXCEPT !.pc = "mark", !.doc = Document[Current], !.count = 0]
      PROVE  PollInv'
  <2>1. /\ poller' \in Poller /\ poller'.pc = "mark"
        /\ poller'.starting /\ poller'.feeds # <<>>
    BY <1>1, <1>4, Parts, DocumentType DEF Poller, PollerPc
  <2>2. QED
    BY <1>1, <1>2, <2>1, Moves
<1>5. ASSUME poller.feeds # <<>>, poller' = [poller EXCEPT !.feeds = Tail(@)]
      PROVE  PollInv'
  <2>1. poller' \in Poller /\ poller'.pc = "boot" /\ poller'.starting
    BY <1>1, <1>5, Parts DEF Poller, BootFetch
  <2>2. QED
    BY <1>1, <1>2, <2>1, Moves
<1>6. QED
  BY <1>3, <1>4, <1>5 DEF BootFetch

LEMMA BootFeedDoneInv ==
  ASSUME PollInv, Loop, BootFeedDone
  PROVE  PollInv'
<1>1. poller \in Poller /\ reader.pc = "idle" /\ poller.starting /\ bootstrap
  BY Parts DEF BootFeedDone
<1>2. NoFault /\ UNCHANGED <<items, analyzer_queue, reader, removals, tables_of_feeds, enqueued>>
  BY DEF BootFeedDone, NoFault
<1>3. poller' \in Poller /\ poller'.pc = "boot" /\ poller'.starting
  BY <1>1, Parts DEF Poller, PollerPc, BootFeedDone
<1>4. QED
  BY <1>1, <1>2, <1>3, Moves

LEMMA BootStampInv ==
  ASSUME PollInv, Loop, BootStamp
  PROVE  PollInv'
<1> DEFINE n == poller.count + 1
<1>1. /\ poller \in Poller /\ reader.pc = "idle" /\ poller.starting /\ bootstrap
      /\ poller.feeds # <<>> /\ poller.doc # <<>> /\ n \in Nat
  BY Parts DEF BootStamp, PollInv, LoopShape, Poller
<1>2. /\ UNCHANGED <<items, analyzer_queue, reader, removals, tables_of_feeds, enqueued>>
      /\ Fault \/ NoFault
      /\ \/ poller' = [poller EXCEPT !.pc = "save", !.count = n]
         \/ poller' = [poller EXCEPT !.pc = "mark", !.doc = Tail(@)]
  BY DEF BootStamp
<1> HIDE DEF n
<1>3. /\ poller' \in Poller /\ poller'.pc \in {"save", "mark"} /\ poller'.starting
      /\ poller'.feeds # <<>> /\ (poller'.pc = "save" => poller'.doc # <<>>)
  BY <1>1, <1>2, Parts DEF Poller, PollerPc
<1>4. QED
  BY <1>1, <1>2, <1>3, Moves

LEMMA SavePendingInv ==
  ASSUME PollInv, Loop, SavePending
  PROVE  PollInv'
<1>1. poller \in Poller /\ reader.pc = "idle" /\ poller.starting /\ bootstrap /\ poller.doc # <<>>
      /\ poller.feeds # <<>>
  BY Parts DEF SavePending, PollInv, LoopShape
<1>2. UNCHANGED <<items, analyzer_queue, reader, removals, rss_feeds, feed_state, poll_requests,
                  bootstrap, enqueued>> /\ (Fault \/ NoFault)
  BY DEF SavePending
<1>3. pending' \subseteq Items
  BY <1>1, Parts DEF SavePending
<1>4. /\ poller' \in Poller /\ poller'.pc = "mark"
      /\ poller'.starting /\ poller'.feeds # <<>>
  BY <1>1, Parts DEF Poller, PollerPc, SavePending
<1>5. /\ rss_feeds' \in [Feeds -> FeedStatus] /\ feed_state' \in [Feeds -> Health]
      /\ poll_requests' \in Seq(Feeds) /\ Distinct(poll_requests)'
  BY <1>2, Parts, SameRequests
<1>6. QED
  BY <1>1, <1>2, <1>3, <1>4, <1>5, LoopOnly

(* FeedDone keeps a poller a poller. *)
LEMMA FeedDoneType ==
  ASSUME poller \in Poller, poller.feeds # <<>>
  PROVE  /\ FeedDone(poller) \in Poller
         /\ FeedDone(poller).pc \in {"answer", "poll"}
         /\ FeedDone(poller).pc = "answer" => FeedDone(poller).feeds # <<>>
BY PollerParts, EmptySeq DEF FeedDone, Poller, PollerPc

LEMMA FeedDoneInv ==
  ASSUME PollInv, Loop, SkipFeed \/ EntriesDone
  PROVE  PollInv'
<1>1. poller \in Poller /\ poller.feeds # <<>> /\ reader.pc = "idle"
  BY Parts DEF SkipFeed, EntriesDone
<1>2. /\ UNCHANGED <<items, analyzer_queue, reader, removals, tables_of_feeds, enqueued>>
      /\ Fault \/ NoFault
  BY DEF SkipFeed, EntriesDone, NoFault
<1>3. poller' = FeedDone(poller)
  BY DEF SkipFeed, EntriesDone
<1>4. /\ poller' \in Poller /\ poller'.pc \in {"answer", "poll"}
      /\ poller'.pc = "answer" => poller'.feeds # <<>>
  BY <1>1, <1>3, FeedDoneType
<1>5. QED
  BY <1>1, <1>2, <1>4, Moves

LEMMA FetchInv ==
  ASSUME PollInv, Loop, NEW f \in Feeds, FetchOk(f) \/ FetchFails(f)
  PROVE  PollInv'
<1>1. poller \in Poller /\ poller.feeds # <<>> /\ reader.pc = "idle"
  BY Parts DEF FetchOk, FetchFails
<1>2. /\ UNCHANGED <<items, analyzer_queue, reader, removals, rss_feeds, poll_requests, pending,
                     bootstrap, enqueued>>
      /\ Fault \/ NoFault
  BY DEF FetchOk, FetchFails
<1>3. feed_state' \in [Feeds -> Health]
  BY Parts DEF FetchOk, FetchFails, MarkUp, MarkDown, Health
<1>4. /\ poller' \in Poller /\ poller'.pc \in {"entries", "answer", "poll"}
      /\ poller'.pc \in {"entries", "answer"} => poller'.feeds # <<>>
  <2>1. CASE FetchOk(f)
    BY <1>1, <2>1, DocumentType DEF FetchOk, Poller, PollerPc
  <2>2. CASE FetchFails(f)
    BY <1>1, <2>2, FeedDoneType DEF FetchFails
  <2>3. QED
    BY <2>1, <2>2
<1>5. /\ rss_feeds' \in [Feeds -> FeedStatus] /\ pending' \subseteq Items
      /\ poll_requests' \in Seq(Feeds) /\ Distinct(poll_requests)'
  BY <1>2, Parts, SameRequests
<1>6. QED
  BY <1>1, <1>2, <1>3, <1>4, <1>5, LoopOnly

LEMMA LoopMoves ==
  ASSUME PollInv, Loop, PollsDone \/ Tick \/ ProcessForcedPolls
  PROVE  PollInv'
<1>1. poller \in Poller /\ reader.pc = "idle"
  BY Parts DEF PollsDone, Tick, ProcessForcedPolls
<1>2. NoFault /\ UNCHANGED <<items, analyzer_queue, reader, removals, tables_of_feeds, enqueued>>
  BY DEF PollsDone, Tick, ProcessForcedPolls, NoFault
<1>3. CASE PollsDone
  <2>1. poller' \in Poller /\ poller'.pc = "idle" /\ ~poller'.starting
    BY <1>1, <1>3, EmptySeq DEF PollsDone, Poller, PollerPc
  <2>2. QED
    BY <1>1, <1>2, <2>1, Moves
<1>4. CASE Tick
  <2>1. poller' \in Poller /\ poller'.pc = "seed"
    BY <1>1, <1>4, FeedAssumption DEF Tick, Poller, PollerPc
  <2>2. QED
    BY <1>1, <1>2, <2>1, Moves
<1>5. CASE ProcessForcedPolls
  <2>1. ForcedFeeds \in Seq(Feeds)
    BY Parts, AtMostType, FeedAssumption DEF ForcedFeeds
  <2>2. poller' \in Poller /\ poller'.pc = "poll"
    BY <1>1, <1>5, <2>1 DEF ProcessForcedPolls, Poller, PollerPc
  <2>3. QED
    BY <1>1, <1>2, <2>2, Moves
<1>6. QED
  BY <1>3, <1>4, <1>5

LEMMA DeleteRequestInv ==
  ASSUME PollInv, Loop, DeleteRequest
  PROVE  PollInv'
<1>1. poller \in Poller /\ reader.pc = "idle" /\ poller.feeds # <<>>
  BY Parts DEF DeleteRequest
<1>2. UNCHANGED <<items, analyzer_queue, reader, removals, rss_feeds, feed_state, pending,
                  bootstrap, enqueued>> /\ (Fault \/ NoFault)
  BY DEF DeleteRequest
<1>3. poll_requests' \in Seq(Feeds) /\ Distinct(poll_requests)'
  <2>1. CASE UNCHANGED poll_requests
    BY <2>1, Parts, SameRequests
  <2>2. CASE poll_requests' = RemoveFirst(poll_requests, Current)
    <3>1. /\ RemoveFirst(poll_requests, Current) \in Seq(Feeds)
          /\ Distinct(RemoveFirst(poll_requests, Current))
      BY Parts, RemoveFirstProperties
    <3>2. QED
      BY <2>2, <3>1 DEF Distinct
  <2>3. QED
    BY <2>1, <2>2 DEF DeleteRequest
<1>4. poller' \in Poller /\ poller'.pc = "poll"
  BY <1>1, Parts DEF DeleteRequest, Poller, PollerPc
<1>5. /\ rss_feeds' \in [Feeds -> FeedStatus] /\ feed_state' \in [Feeds -> Health]
      /\ pending' \subseteq Items
  BY <1>2, Parts
<1>6. QED
  BY <1>1, <1>2, <1>3, <1>4, <1>5, LoopOnly

LEMMA EnqueueKeepsType ==
  ASSUME analyzer_queue \in [Items -> Row], NEW i \in Items
  PROVE  Enqueue(analyzer_queue, i) \in [Items -> Row]
<1> DEFINE q == analyzer_queue
<1>1. Cardinality(Rows(q)) \in Nat
  BY FS_Subset, FS_CardinalityType, ItemsAssumption DEF Rows
<1>2. q[i] \in Row
  OBVIOUS
<1>3. (IF q[i].state = "ABSENT" THEN Cardinality(Rows(q)) + 1 ELSE q[i].rank) \in Nat
  BY <1>1, <1>2 DEF Row
<1>4. QED
  BY <1>2, <1>3 DEF Enqueue, Row, RowState

(* The tables of the feeds, and what else a step of the entries keeps. *)
LEMMA EntriesOnly ==
  ASSUME PollInv, UNCHANGED <<tables_of_feeds, edits, requests, history, crashes>>,
         items' \in [Items -> Item], analyzer_queue' \in [Items -> Row], UNCHANGED dispatch_queue,
         removals' \in 0..MaxRemovals, Fault \/ NoFault,
         ReaderTypeOK', ReaderAtEntry', poller' \in Poller, enqueued' \in [Items -> Nat],
         poller'.pc \in {"boot", "mark", "stamp", "save"} => poller'.starting /\ bootstrap,
         poller'.pc = "idle" => ~poller'.starting,
         poller'.pc \in {"mark", "stamp", "save", "entries", "answer"} => poller'.feeds # <<>>,
         poller'.pc \in {"stamp", "save"} => poller'.doc # <<>>
  PROVE  PollInv'
<1>1. faults' \in 0..MaxFaults
  BY BudgetAssumption DEF PollInv, PollTypeOK, StoreTypeOK, Fault, NoFault
<1>2. StoreTypeOK'
  BY <1>1 DEF PollInv, PollTypeOK, StoreTypeOK, history
<1>3. PollTypeOK'
  BY <1>2 DEF PollInv, PollTypeOK, tables_of_feeds
<1>4. LoopShape'
  BY DEF PollInv, LoopShape, tables_of_feeds
<1>5. QED
  BY <1>3, <1>4 DEF PollInv

LEMMA BootEntryInv ==
  ASSUME PollInv, Loop, BootEntry
  PROVE  PollInv'
<1> DEFINE i == Head(poller.doc)
<1>1. /\ poller \in Poller /\ reader.pc = "idle" /\ poller.starting /\ bootstrap
      /\ poller.doc # <<>> /\ i \in Items /\ Tail(poller.doc) \in Seq(Items)
      /\ poller.feeds # <<>> /\ poller.pc = "mark"
  BY Parts DEF BootEntry
<1>2. /\ items \in [Items -> Item] /\ analyzer_queue \in [Items -> Row]
      /\ removals \in 0..MaxRemovals /\ ReaderTypeOK /\ enqueued \in [Items -> Nat]
  BY DEF PollInv, PollTypeOK, StoreTypeOK
<1>3. /\ UNCHANGED <<tables_of_feeds, edits, requests, history, crashes, dispatch_queue>>
      /\ UNCHANGED <<items, reader, removals>> /\ (Fault \/ NoFault)
  BY DEF BootEntry, Loop, untouched
<1>4. analyzer_queue' \in [Items -> Row] /\ enqueued' \in [Items -> Nat]
  <2>1. CASE UNCHANGED <<analyzer_queue, enqueued>>
    BY <1>2, <2>1
  <2>2. CASE /\ analyzer_queue' = Enqueue(analyzer_queue, i)
             /\ enqueued' = [enqueued EXCEPT ![i] = @ + 1]
    BY <1>1, <1>2, <2>2, EnqueueKeepsType
  <2>3. QED
    BY <2>1, <2>2 DEF BootEntry
<1>5. /\ poller' \in Poller /\ poller'.pc \in {"mark", "stamp", "save"} /\ poller'.starting
      /\ poller'.feeds # <<>> /\ (poller'.pc # "mark" => poller'.doc # <<>>)
  <2>1. CASE poller' = [poller EXCEPT !.doc = Tail(@)]
    BY <1>1, <2>1 DEF Poller, PollerPc
  <2>2. CASE Become("stamp") \/ Become("save")
    BY <1>1, <2>2 DEF Become, Poller, PollerPc
  <2>3. QED
    BY <2>1, <2>2 DEF BootEntry
<1>6. ReaderTypeOK' /\ ReaderAtEntry'
  BY <1>1, <1>2, <1>3 DEF ReaderTypeOK, ReaderAtEntry
<1>7. items' \in [Items -> Item] /\ removals' \in 0..MaxRemovals
  BY <1>2, <1>3
<1>8. QED
  BY <1>1, <1>3, <1>4, <1>5, <1>6, <1>7, EntriesOnly

LEMMA RowTypes ==
  ASSUME items \in [Items -> Item], NEW i \in Items
  PROVE  /\ MarkQueued(i) \in [Items -> Item] /\ MarkUnqueued(i) \in [Items -> Item]
         /\ [items EXCEPT ![i] = NewItem] \in [Items -> Item]
BY DEF MarkQueued, MarkUnqueued, UpdateItem, NewItem, NoItem, Item, Status

LEMMA TakeEntryInv ==
  ASSUME PollInv, Loop, TakeEntry
  PROVE  PollInv'
<1> DEFINE i == Head(poller.doc)
<1>1. /\ poller \in Poller /\ poller.pc = "entries" /\ poller.doc # <<>> /\ poller.feeds # <<>>
      /\ i \in Items /\ Tail(poller.doc) \in Seq(Items)
  BY Parts DEF TakeEntry
<1>2. /\ items \in [Items -> Item] /\ analyzer_queue \in [Items -> Row]
      /\ removals \in 0..MaxRemovals /\ ReaderTypeOK /\ enqueued \in [Items -> Nat]
  BY DEF PollInv, PollTypeOK, StoreTypeOK
<1>3. UNCHANGED <<tables_of_feeds, edits, requests, history, crashes, dispatch_queue, enqueued>>
  BY DEF TakeEntry, Loop, untouched
<1>4. CASE InsertItemIfNew(i) /\ UNCHANGED <<poller, removals>>
  <2>1. items' \in [Items -> Item]
    BY <1>1, <1>2, <1>4, RowTypes DEF InsertItemIfNew
  <2>2. ReaderTypeOK' /\ ReaderAtEntry'
    BY <1>1, <1>2, <1>4 DEF InsertItemIfNew, Stored, ReaderTypeOK, ReaderPc, ReaderAtEntry
  <2>3. /\ analyzer_queue' \in [Items -> Row] /\ removals' \in 0..MaxRemovals
        /\ enqueued' \in [Items -> Nat] /\ NoFault
    BY <1>2, <1>3, <1>4 DEF InsertItemIfNew, NoFault
  <2>4. poller' \in Poller /\ poller'.pc = "entries" /\ poller'.feeds # <<>>
    BY <1>1, <1>4
  <2>5. QED
    BY <1>3, <2>1, <2>2, <2>3, <2>4, EntriesOnly
<1>5. ASSUME UNCHANGED <<items, analyzer_queue, reader, removals>>, Fault \/ NoFault,
             poller' = [poller EXCEPT !.doc = Tail(@)], reader.pc = "idle"
      PROVE  PollInv'
  <2>1. /\ items' \in [Items -> Item] /\ analyzer_queue' \in [Items -> Row]
        /\ removals' \in 0..MaxRemovals /\ enqueued' \in [Items -> Nat]
    BY <1>2, <1>3, <1>5
  <2>2. ReaderTypeOK' /\ ReaderAtEntry'
    BY <1>2, <1>5 DEF ReaderTypeOK, ReaderAtEntry
  <2>3. poller' \in Poller /\ poller'.pc = "entries" /\ poller'.feeds # <<>>
    BY <1>1, <1>5 DEF Poller
  <2>4. QED
    BY <1>3, <1>5, <2>1, <2>2, <2>3, EntriesOnly
<1>6. QED
  BY <1>4, <1>5 DEF TakeEntry, PassSeen

LEMMA QueueEntryInv ==
  ASSUME PollInv, Loop, QueueEntry
  PROVE  PollInv'
<1> DEFINE i == reader.item
<1>1. /\ poller \in Poller /\ poller.pc = "entries" /\ poller.doc # <<>> /\ poller.feeds # <<>>
      /\ i \in Items /\ Tail(poller.doc) \in Seq(Items) /\ i = Head(poller.doc)
  BY Parts DEF QueueEntry, EnqueueAnalyzerJob, MarkRawEnqueued, MarkEnqueueFailed,
               PollInv, ReaderAtEntry
<1>2. /\ items \in [Items -> Item] /\ analyzer_queue \in [Items -> Row]
      /\ removals \in 0..MaxRemovals /\ ReaderTypeOK /\ enqueued \in [Items -> Nat]
  BY DEF PollInv, PollTypeOK, StoreTypeOK
<1>3. UNCHANGED <<tables_of_feeds, edits, requests, history, crashes>>
  BY DEF QueueEntry, Loop, untouched
<1>4. ASSUME EnqueueAnalyzerJob, UNCHANGED poller,
             enqueued' = IF reader'.pc = "stampRaw" THEN [enqueued EXCEPT ![i] = @ + 1]
                         ELSE enqueued
      PROVE  PollInv'
  <2>1. analyzer_queue' \in [Items -> Row]
    BY <1>1, <1>2, <1>4, EnqueueKeepsType DEF EnqueueAnalyzerJob
  <2>2. enqueued' \in [Items -> Nat]
    BY <1>1, <1>2, <1>4
  <2>3. ReaderTypeOK' /\ ReaderAtEntry'
    BY <1>1, <1>2, <1>4 DEF EnqueueAnalyzerJob, ReaderTypeOK, ReaderPc, ReaderAtEntry
  <2>4. /\ items' \in [Items -> Item] /\ removals' \in 0..MaxRemovals
        /\ UNCHANGED dispatch_queue /\ (Fault \/ NoFault)
    BY <1>2, <1>4 DEF EnqueueAnalyzerJob
  <2>5. poller' \in Poller /\ poller'.pc = "entries" /\ poller'.feeds # <<>>
    BY <1>1, <1>4
  <2>6. QED
    BY <1>3, <2>1, <2>2, <2>3, <2>4, <2>5, EntriesOnly
<1>5. ASSUME MarkRawEnqueued, UNCHANGED enqueued,
             poller' = IF reader'.pc = "idle"
                       THEN [poller EXCEPT !.doc = Tail(@), !.count = @ + 1] ELSE poller
      PROVE  PollInv'
  <2>1. items' \in [Items -> Item]
    BY <1>1, <1>2, <1>5, RowTypes DEF MarkRawEnqueued
  <2>2. ReaderTypeOK' /\ ReaderAtEntry'
    BY <1>1, <1>2, <1>5
       DEF MarkRawEnqueued, ReaderTypeOK, ReaderPc, ReaderAtEntry, IdleReader
  <2>3. /\ analyzer_queue' \in [Items -> Row] /\ removals' \in 0..MaxRemovals
        /\ UNCHANGED dispatch_queue /\ (Fault \/ NoFault) /\ enqueued' \in [Items -> Nat]
    BY <1>2, <1>5 DEF MarkRawEnqueued
  <2>4. poller' \in Poller /\ poller'.pc = "entries" /\ poller'.feeds # <<>>
    <3> DEFINE n == poller.count + 1
    <3>1. n \in Nat
      BY <1>1 DEF Poller
    <3>2. poller' = IF reader'.pc = "idle"
                    THEN [poller EXCEPT !.doc = Tail(@), !.count = n] ELSE poller
      BY <1>5
    <3> HIDE DEF n
    <3>3. QED
      BY <1>1, <3>1, <3>2 DEF Poller
  <2>5. QED
    BY <1>3, <2>1, <2>2, <2>3, <2>4, EntriesOnly
<1>6. ASSUME MarkEnqueueFailed, UNCHANGED enqueued, poller' = [poller EXCEPT !.doc = Tail(@)]
      PROVE  PollInv'
  <2>1. items' \in [Items -> Item]
    BY <1>1, <1>2, <1>6, RowTypes DEF MarkEnqueueFailed
  <2>2. ReaderTypeOK' /\ ReaderAtEntry'
    BY <1>2, <1>6 DEF MarkEnqueueFailed, ReaderTypeOK, ReaderPc, ReaderAtEntry, IdleReader
  <2>3. /\ analyzer_queue' \in [Items -> Row] /\ removals' \in 0..MaxRemovals
        /\ UNCHANGED dispatch_queue /\ (Fault \/ NoFault) /\ enqueued' \in [Items -> Nat]
    BY <1>2, <1>6 DEF MarkEnqueueFailed
  <2>4. poller' \in Poller /\ poller'.pc = "entries" /\ poller'.feeds # <<>>
    BY <1>1, <1>6 DEF Poller
  <2>5. QED
    BY <1>3, <2>1, <2>2, <2>3, <2>4, EntriesOnly
<1>7. QED
  BY <1>4, <1>5, <1>6 DEF QueueEntry

LEMMA SweepInv ==
  ASSUME PollInv, Loop, Sweep
  PROVE  PollInv'
<1>1. PICK P \in SUBSET pending :
         /\ pending' = pending \ P
         /\ \/ \E S \in SUBSET Items : Cleanup(S)
            \/ UNCHANGED <<items, analyzer_queue, reader, faults, removals>>
  BY DEF Sweep
<1>2. /\ items \in [Items -> Item] /\ removals \in 0..MaxRemovals
      /\ poller \in Poller /\ poller.pc = "idle" /\ ~poller.starting
  BY Parts DEF PollInv, PollTypeOK, StoreTypeOK, Sweep
<1>3. items' \in [Items -> Item] /\ removals' \in 0..MaxRemovals
  <2>1. CASE \E S \in SUBSET Items : Cleanup(S)
    <3>1. PICK S \in SUBSET Items : Cleanup(S)
      BY <2>1
    <3>2. items' \in [Items -> Item]
      BY <1>2, <3>1 DEF Cleanup, NoItem, Item, Status
    <3>3. removals' \in 0..MaxRemovals
      BY <1>2, <3>1, BudgetAssumption DEF Cleanup
    <3>4. QED
      BY <3>2, <3>3
  <2>2. CASE UNCHANGED <<items, analyzer_queue, reader, faults, removals>>
    BY <1>2, <2>2
  <2>3. QED
    BY <1>1, <2>1, <2>2
<1>4. UNCHANGED <<reader, analyzer_queue, dispatch_queue, faults, rss_feeds, feed_state,
                  poll_requests, bootstrap, poller, enqueued, edits, requests, history, crashes>>
  BY <1>1 DEF Cleanup, Sweep, Loop, untouched
<1>5. StoreTypeOK'
  BY <1>3, <1>4 DEF PollInv, PollTypeOK, StoreTypeOK, history
<1>6. PollTypeOK'
  BY <1>1, <1>4, <1>5 DEF PollInv, PollTypeOK, ReaderTypeOK
<1>7. ReaderAtEntry' /\ LoopShape'
  BY <1>4 DEF PollInv, ReaderAtEntry, LoopShape
<1>8. QED
  BY <1>6, <1>7 DEF PollInv

LEMMA AdminFeedInv ==
  ASSUME PollInv, NEW f \in Feeds, EditFeeds(f) \/ RequestPoll(f), UNCHANGED untouched
  PROVE  PollInv'
<1>1. UNCHANGED <<items, analyzer_queue, reader, faults, removals, pending, bootstrap, poller,
                  enqueued, dispatch_queue, history, crashes>>
  BY DEF EditFeeds, RequestPoll, untouched
<1>2. StoreTypeOK' /\ ReaderTypeOK'
  BY <1>1 DEF PollInv, PollTypeOK, StoreTypeOK, ReaderTypeOK, history
<1>3. rss_feeds' \in [Feeds -> FeedStatus] /\ feed_state' \in [Feeds -> Health]
  BY Parts DEF EditFeeds, RequestPoll, FeedStatus, Health
<1>4. poll_requests' \in Seq(Feeds) /\ Distinct(poll_requests)'
  <2>1. CASE UNCHANGED poll_requests
    BY <2>1, Parts, SameRequests
  <2>2. CASE poll_requests' = Asked(f)
    <3> DEFINE rest == RemoveFirst(poll_requests, f)
    <3>1. rest \in Seq(Feeds) /\ Distinct(rest) /\ \A n \in 1..Len(rest) : rest[n] # f
      BY Parts, RemoveFirstProperties
    <3>2. Append(rest, f) \in Seq(Feeds) /\ Distinct(Append(rest, f))
      BY <3>1, AppendNew
    <3>3. QED
      BY <2>2, <3>2 DEF Asked, Distinct
  <2>3. QED
    BY <2>1, <2>2 DEF EditFeeds, RequestPoll
<1>5. edits' \in Nat /\ requests' \in Nat
  BY DEF PollInv, LoopShape, EditFeeds, RequestPoll
<1>6. PollTypeOK'
  BY <1>1, <1>2, <1>3, <1>4 DEF PollInv, PollTypeOK, Distinct
<1>7. ReaderAtEntry' /\ LoopShape'
  BY <1>1, <1>5 DEF PollInv, ReaderAtEntry, LoopShape
<1>8. QED
  BY <1>6, <1>7 DEF PollInv

LEMMA CooldownInv ==
  ASSUME PollInv, Loop, NEW f \in Feeds, CooldownEnds(f)
  PROVE  PollInv'
<1>1. UNCHANGED <<items, analyzer_queue, reader, faults, removals, rss_feeds, poll_requests,
                  pending, bootstrap, poller, enqueued>>
  BY DEF CooldownEnds
<1>2. StoreTypeOK' /\ ReaderTypeOK'
  BY <1>1, SameTables, NothingSpent DEF PollInv
<1>3. feed_state' \in [Feeds -> Health]
  BY Parts DEF CooldownEnds, Health
<1>4. PollTypeOK'
  BY <1>1, <1>2, <1>3 DEF PollInv, PollTypeOK
<1>5. ReaderAtEntry' /\ LoopShape'
  BY <1>1 DEF PollInv, ReaderAtEntry, LoopShape, Loop
<1>6. QED
  BY <1>4, <1>5 DEF PollInv

LEMMA RestartInv ==
  ASSUME PollInv, RestartReader
  PROVE  PollInv'
<1>1. /\ UNCHANGED <<items, analyzer_queue, dispatch_queue, history, faults, removals,
                     rss_feeds, feed_state, poll_requests, pending, bootstrap, enqueued, edits,
                     requests>>
      /\ poller' = Started
  BY DEF RestartReader, CrashReader, Crash, tables, tables_of_feeds
<1>2. crashes' \in 0..MaxCrashes
  BY BudgetAssumption DEF RestartReader, CrashReader, Crash, PollInv, PollTypeOK, StoreTypeOK
<1>3. StoreTypeOK'
  BY <1>1, <1>2 DEF PollInv, PollTypeOK, StoreTypeOK, history
<1>4. ReaderTypeOK' /\ ReaderAtEntry'
  <2>1. reader \in [pc : ReaderPc, item : Items \cup {NoEntry}, abandoned : SUBSET Items]
    BY DEF PollInv, PollTypeOK, ReaderTypeOK
  <2>2. (IF reader.pc = "queueRaw" THEN {reader.item} ELSE {}) \subseteq Items
    BY Parts DEF PollInv, ReaderAtEntry
  <2>3. QED
    BY <2>1, <2>2
       DEF RestartReader, CrashReader, ReaderTypeOK, ReaderPc, ReaderAtEntry, IdleReader
<1>5. poller' \in Poller
  BY <1>1, EmptySeq, FeedAssumption DEF Started, Poller, PollerPc
<1>6. PollTypeOK'
  BY <1>1, <1>3, <1>4, <1>5 DEF PollInv, PollTypeOK
<1>7. LoopShape'
  BY <1>1 DEF PollInv, LoopShape, Started
<1>8. QED
  BY <1>4, <1>6, <1>7 DEF PollInv

LEMMA StepPollInv == PollInv /\ [PollNext]_pollVars => PollInv'
<1> SUFFICES ASSUME PollInv, [PollNext]_pollVars PROVE PollInv'
  OBVIOUS
<1>1. ASSUME Loop, PollStep PROVE PollInv'
  BY <1>1, SeedFeedInv, LoadFeedsInv, BootFetchInv, BootEntryInv, BootStampInv, SavePendingInv,
     BootFeedDoneInv, FeedDoneInv, FetchInv, TakeEntryInv, QueueEntryInv, LoopMoves,
     DeleteRequestInv DEF PollStep
<1>2. CASE LoopStep
  BY <1>1, <1>2, LoopMoves, SweepInv DEF LoopStep, Loop
<1>3. CASE AdminFeedStep
  BY <1>3, AdminFeedInv DEF AdminFeedStep
<1>4. CASE TimePasses
  BY <1>4, CooldownInv DEF TimePasses, Loop
<1>5. CASE RestartReader
  BY <1>5, RestartInv
<1>6. CASE UNCHANGED pollVars
  BY <1>6 DEF pollVars, untouched, tables_of_feeds, history, PollInv, PollTypeOK, StoreTypeOK,
              ReaderTypeOK, ReaderAtEntry, LoopShape
<1>7. QED
  BY <1>2, <1>3, <1>4, <1>5, <1>6 DEF PollNext

LEMMA PollInvariant == PollSpec => []PollInv
BY InitPollInv, StepPollInv, PTL DEF PollSpec

(* The types of rss-reader's loop and of the tables of the feeds: a feed   *)
(* has one row in feed_poll_requests at most, whatever asks, polls and     *)
(* deletions come together.                                                *)
THEOREM PollsAreTyped == PollSpec => []PollTypeOK
<1>1. PollInv => PollTypeOK
  BY DEF PollInv
<1>2. QED
  BY <1>1, PollInvariant, PTL

-----------------------------------------------------------------------------
(* Disabled feeds. *)

LEMMA DisabledStep == PollInv /\ [PollNext]_pollVars => [TurnedOnByAdmin]_pollVars
<1> SUFFICES ASSUME PollInv, PollNext, NEW f \in Feeds,
                    rss_feeds[f] = "DISABLED", rss_feeds'[f] = "ENABLED"
             PROVE  edits' # edits
  BY DEF TurnedOnByAdmin
<1>1. edits \in Nat /\ rss_feeds \in [Feeds -> FeedStatus] /\ rss_feeds' # rss_feeds
  BY DEF PollInv, LoopShape, PollTypeOK
<1>2. CASE LoopStep
  <2>1. CASE SeedFeed
    <3>1. rss_feeds' = Seeded(Current)
      BY <1>1, <2>1 DEF SeedFeed
    <3>2. rss_feeds'[f] = rss_feeds[f]
      BY <1>1, <3>1 DEF Seeded
    <3>3. QED
      BY <3>2
  <2>2. CASE (PollStep /\ ~SeedFeed) \/ Tick \/ ProcessForcedPolls \/ Sweep
    <3>1. UNCHANGED rss_feeds
      BY <2>2 DEF PollStep, LoadFeeds, BootFetch, BootEntry, BootStamp, SavePending, BootFeedDone,
                  SkipFeed, FetchOk, FetchFails, TakeEntry, QueueEntry, EntriesDone, PollsDone,
                  DeleteRequest, Tick, ProcessForcedPolls, Sweep, tables_of_feeds
    <3>2. QED
      BY <1>1, <3>1
  <2>3. QED
    BY <1>2, <2>1, <2>2 DEF LoopStep
<1>3. CASE AdminFeedStep
  <2>1. PICK g \in Feeds : EditFeeds(g) \/ RequestPoll(g)
    BY <1>3 DEF AdminFeedStep
  <2>2. EditFeeds(g)
    BY <1>1, <2>1 DEF RequestPoll
  <2>3. QED
    BY <1>1, <2>2 DEF EditFeeds
<1>4. CASE TimePasses \/ RestartReader
  BY <1>1, <1>4 DEF TimePasses, CooldownEnds, RestartReader, tables_of_feeds
<1>5. QED
  BY <1>2, <1>3, <1>4 DEF PollNext

(* Only a request of web-admin turns a disabled feed on, however often the *)
(* seeding of the configured feeds runs.                                   *)
THEOREM DisabledFeedsStay == PollSpec => StaysDisabled
<1>1. PollSpec => []PollInv /\ [][PollNext]_pollVars
  BY PollInvariant, PTL DEF PollSpec
<1>2. QED
  BY <1>1, DisabledStep, PTL DEF StaysDisabled

-----------------------------------------------------------------------------
(* The loop implements module Reader. *)

LEMMA LoopReaderStep ==
  ASSUME PollInv, Loop, PollStep \/ Tick \/ ProcessForcedPolls \/ Sweep, ~bootstrap
  PROVE  ReaderStep \/ UNCHANGED <<tables, reader>>
<1>1. UNCHANGED <<history, crashes, dispatch_queue>>
  BY DEF Loop, untouched
<1>2. CASE TakeEntry
  <2>1. CASE InsertItemIfNew(Head(poller.doc))
    BY <1>1, <1>2, <2>1, Parts DEF TakeEntry, ReaderStep
  <2>2. CASE UNCHANGED <<items, analyzer_queue, reader>>
    BY <1>1, <2>2 DEF tables
  <2>3. QED
    BY <1>2, <2>1, <2>2 DEF TakeEntry
<1>3. CASE QueueEntry
  BY <1>1, <1>3 DEF QueueEntry, ReaderStep, ReaderWork
<1>4. CASE Sweep
  <2>1. \/ \E S \in SUBSET Items : Cleanup(S)
        \/ UNCHANGED <<items, analyzer_queue, reader>>
    BY <1>4 DEF Sweep
  <2>2. QED
    BY <1>1, <2>1 DEF ReaderStep, tables
<1>5. CASE BootEntry \/ BootStamp \/ SavePending \/ BootFetch \/ BootFeedDone
  BY <1>5, Parts DEF BootEntry, BootStamp, SavePending, BootFetch, BootFeedDone
<1>6. CASE \/ SeedFeed \/ LoadFeeds \/ SkipFeed \/ \E f \in Feeds : FetchOk(f) \/ FetchFails(f)
           \/ EntriesDone \/ PollsDone \/ DeleteRequest \/ Tick \/ ProcessForcedPolls
  <2>1. UNCHANGED <<items, analyzer_queue, reader>>
    BY <1>6 DEF SeedFeed, LoadFeeds, SkipFeed, FetchOk, FetchFails, EntriesDone, PollsDone,
                DeleteRequest, Tick, ProcessForcedPolls
  <2>2. QED
    BY <1>1, <2>1 DEF tables
<1>7. QED
  BY <1>2, <1>3, <1>4, <1>5, <1>6 DEF PollStep

LEMMA AsReaderStep == PollInv /\ [PollNext]_pollVars => [AsReader]_<<tables, reader>>
<1> SUFFICES ASSUME PollInv, [PollNext]_pollVars, ~bootstrap
             PROVE  ReaderStep \/ CrashReader \/ UNCHANGED <<tables, reader>>
  BY DEF AsReader
<1>1. CASE LoopStep
  BY <1>1, LoopReaderStep DEF LoopStep, Loop
<1>2. CASE AdminFeedStep
  BY <1>2 DEF AdminFeedStep, EditFeeds, RequestPoll, untouched, tables
<1>3. CASE TimePasses
  BY <1>3 DEF TimePasses, CooldownEnds, untouched, tables
<1>4. CASE RestartReader
  BY <1>4 DEF RestartReader
<1>5. CASE UNCHANGED pollVars
  BY <1>5 DEF pollVars, untouched, tables
<1>6. QED
  BY <1>1, <1>2, <1>3, <1>4, <1>5 DEF PollNext

(* Without the bootstrap, everything the loop does to the tables that the  *)
(* services share is a step of module Reader: this is what lets Pipeline   *)
(* put Reader in the place of rss-reader.                                  *)
THEOREM LoopImplementsReader == PollSpec => PollsAsReader
<1>1. PollSpec => []PollInv /\ [][PollNext]_pollVars
  BY PollInvariant, PTL DEF PollSpec
<1>2. QED
  BY <1>1, AsReaderStep, PTL DEF PollsAsReader

-----------------------------------------------------------------------------
(* How often an entry is queued. *)

One(b) == IF b THEN 1 ELSE 0

(* The bootstrap of this process does not queue entry i any more. *)
Spent(i) ==
  \/ i \in pending
  \/ ~poller.starting
  \/ poller.pc \notin {"seed", "boot", "mark", "stamp", "save"}
  \/ poller.pc \in {"stamp", "save"} /\ Head(poller.doc) = i

InRow(i)   == One(items[i].present)
ToQueue(i) == One(reader.pc = "queueRaw" /\ reader.item = i)
Marks(i)   == One(Spent(i))

(* e times queued and q about to be; r sweeps, p rows, c starts, f faults  *)
(* and m marks.                                                            *)
Bound(e, q, r, p, b, c, f, m) == e + q <= r + p + (IF b THEN c + f + m ELSE 0)

(* An entry is queued, or about to be, once for the row it has in          *)
(* rss_items, once for each sweep, and with the bootstrap once for each    *)
(* start or failing statement and once for its mark.                       *)
Within(i) == Bound(enqueued[i], ToQueue(i), removals, InRow(i), bootstrap, crashes, faults, Marks(i))
Counted   == \A i \in Items : Within(i)

(* Where the bound goes from there. *)
Reached(e, q, r, p, b, c, f, m) ==
  /\ Bound(e, 0, r, p, b, c, f, m) /\ Bound(e, q, r, p, b, c, f, 1)
  /\ Bound(e, q, r, p, b, c, f + 1, 0) /\ Bound(e, q, r, p, b, c, f + 1, 1)
  /\ Bound(e, q, r + 1, 0, b, c, f, m) /\ Bound(e, q, r + 1, 1, b, c, f, m)
  /\ Bound(e, 0, r, p, b, c + 1, f, 0) /\ Bound(e, 0, r, p, b, c + 1, f, 1)
  /\ Bound(e, 0, r, p, b, c, f + 1, m)
  /\ q = 0 /\ p = 0 => Bound(e, 1, r, 1, b, c, f, m)
  /\ q = 1 => Bound(e + 1, 0, r, p, b, c, f, m)
  /\ b /\ m = 0 => Bound(e + 1, q, r, p, b, c, f, 1)

LEMMA BoundMoves ==
  ASSUME NEW e \in Nat, NEW q \in {0, 1}, NEW r \in Nat, NEW p \in {0, 1}, NEW b \in BOOLEAN,
         NEW c \in Nat, NEW f \in Nat, NEW m \in {0, 1}, Bound(e, q, r, p, b, c, f, m)
  PROVE  Reached(e, q, r, p, b, c, f, m)
BY DEF Bound, Reached

LEMMA OneType == \A b : One(b) \in {0, 1}
BY DEF One

LEMMA BoundTypes ==
  ASSUME PollInv, NEW i \in Items
  PROVE  /\ enqueued[i] \in Nat /\ removals \in Nat /\ bootstrap \in BOOLEAN
         /\ crashes \in Nat /\ faults \in Nat
         /\ ToQueue(i) \in {0, 1} /\ InRow(i) \in {0, 1} /\ Marks(i) \in {0, 1}
BY OneType, BudgetAssumption DEF PollInv, PollTypeOK, StoreTypeOK, ToQueue, InRow, Marks

LEMMA WithinMoves ==
  ASSUME PollInv, NEW i \in Items, Within(i)
  PROVE  Reached(enqueued[i], ToQueue(i), removals, InRow(i), bootstrap, crashes, faults, Marks(i))
BY BoundTypes, BoundMoves DEF Within

(* A step that queues nothing, and loses a mark only to a fault. *)
LEMMA QueuesNothing ==
  ASSUME PollInv, NEW i \in Items, Within(i),
         UNCHANGED <<removals, bootstrap, crashes>>, enqueued'[i] = enqueued[i],
         InRow(i)' = InRow(i), ToQueue(i)' = ToQueue(i),
         \/ NoFault /\ (Spent(i) => Spent(i)')
         \/ Fault
  PROVE  Within(i)'
<1>1. Marks(i)' \in {0, 1} /\ Marks(i) \in {0, 1}
  BY DEF Marks, One
<1>2. CASE NoFault /\ (Spent(i) => Spent(i)')
  <2>1. Marks(i)' \in {Marks(i), 1} /\ faults' = faults
    BY <1>2 DEF Marks, One, NoFault
  <2>2. QED
    BY <2>1, WithinMoves DEF Within, Reached
<1>3. CASE Fault
  <2>1. faults' = faults + 1
    BY <1>3 DEF Fault
  <2>2. QED
    BY <1>1, <2>1, WithinMoves DEF Within, Reached
<1>4. QED
  BY <1>2, <1>3

LEMMA MovesQueueNothing ==
  ASSUME PollInv, NEW i \in Items, Within(i),
         UNCHANGED <<items, reader, removals, bootstrap, crashes, enqueued>>,
         \/ NoFault /\ (Spent(i) => Spent(i)')
         \/ Fault
  PROVE  Within(i)'
<1>1. InRow(i)' = InRow(i) /\ ToQueue(i)' = ToQueue(i) /\ enqueued'[i] = enqueued[i]
  BY DEF InRow, ToQueue
<1>2. QED
  BY <1>1, QueuesNothing

(* The steps that only move the loop on. *)
LoopMove ==
  \/ SeedFeed \/ LoadFeeds \/ BootFetch \/ BootStamp \/ SavePending \/ BootFeedDone
  \/ SkipFeed \/ \E f \in Feeds : FetchOk(f) \/ FetchFails(f)
  \/ EntriesDone \/ PollsDone \/ DeleteRequest \/ Tick \/ ProcessForcedPolls

LEMMA LoopMoveSpent ==
  ASSUME PollInv, LoopMove, NEW i \in Items, Spent(i), ~Fault
  PROVE  Spent(i)'
<1>1. poller \in Poller /\ (poller.pc = "idle" => ~poller.starting)
  BY Parts
<1>2. CASE SeedFeed
  BY <1>1, <1>2 DEF SeedFeed, Spent, Poller
<1>3. CASE LoadFeeds
  <2>1. /\ pending' = pending /\ (i \in pending \/ ~poller.starting)
        /\ \/ ~poller'.starting \/ poller'.pc = "exited"
           \/ poller'.starting = poller.starting
    BY <1>1, <1>3 DEF LoadFeeds, GiveUpLoading, Become, Spent, tables_of_feeds, Poller
  <2>2. QED
    BY <2>1 DEF Spent
<1>4. CASE BootFetch \/ BootFeedDone
  <2>1. /\ pending' = pending /\ (i \in pending \/ ~poller.starting)
        /\ poller'.starting = poller.starting
    BY <1>1, <1>4 DEF BootFetch, BootFeedDone, Spent, tables_of_feeds, Poller
  <2>2. QED
    BY <2>1 DEF Spent
<1>5. CASE BootStamp
  <2>1. /\ pending' = pending /\ poller' = [poller EXCEPT !.pc = "save", !.count = @ + 1]
        /\ poller.pc = "stamp"
    BY <1>5 DEF BootStamp, tables_of_feeds
  <2>2. poller'.pc = "save" /\ poller'.doc = poller.doc /\ poller'.starting = poller.starting
    BY <1>1, <2>1 DEF Poller
  <2>3. QED
    BY <2>1, <2>2 DEF Spent
<1>6. CASE SavePending
  <2>1. /\ pending' = pending \cup {Head(poller.doc)}
        /\ i \in pending \/ ~poller.starting \/ Head(poller.doc) = i
        /\ poller'.starting = poller.starting
    BY <1>1, <1>6 DEF SavePending, Spent, Poller
  <2>2. QED
    BY <2>1 DEF Spent
<1>7. CASE SkipFeed \/ EntriesDone \/ \E f \in Feeds : FetchOk(f) \/ FetchFails(f)
  <2>1. poller'.pc \in {"poll", "entries", "answer"}
    BY <1>1, <1>7 DEF SkipFeed, EntriesDone, FetchOk, FetchFails, FeedDone, Poller
  <2>2. QED
    BY <2>1 DEF Spent
<1>8. CASE PollsDone \/ DeleteRequest \/ ProcessForcedPolls
  <2>1. poller'.pc \in {"poll", "idle"}
    BY <1>1, <1>8 DEF PollsDone, DeleteRequest, ProcessForcedPolls, Poller
  <2>2. QED
    BY <2>1 DEF Spent
<1>9. CASE Tick
  BY <1>1, <1>9 DEF Tick, Spent, Poller
<1>10. QED
  BY <1>2, <1>3, <1>4, <1>5, <1>6, <1>7, <1>8, <1>9 DEF LoopMove

LEMMA LoopMoveWithin ==
  ASSUME PollInv, Loop, LoopMove, NEW i \in Items, Within(i)
  PROVE  Within(i)'
<1>1. UNCHANGED <<items, reader, removals, bootstrap, crashes, enqueued>>
  BY DEF LoopMove, Loop, untouched, tables_of_feeds, SeedFeed, LoadFeeds, BootFetch, BootStamp,
         SavePending, BootFeedDone, SkipFeed, FetchOk, FetchFails, EntriesDone, PollsDone,
         DeleteRequest, Tick, ProcessForcedPolls
<1>2. Fault \/ NoFault
  BY DEF LoopMove, NoFault, SeedFeed, LoadFeeds, BootFetch, BootStamp, SavePending,
         BootFeedDone, SkipFeed, FetchOk, FetchFails, EntriesDone, PollsDone, DeleteRequest, Tick,
         ProcessForcedPolls
<1>3. QED
  BY <1>1, <1>2, LoopMoveSpent, MovesQueueNothing

LEMMA BootEntryWithin ==
  ASSUME PollInv, Loop, BootEntry, NEW i \in Items, Within(i)
  PROVE  Within(i)'
<1> DEFINE entry == Head(poller.doc)
<1>1. /\ poller \in Poller /\ poller.pc = "mark" /\ poller.starting /\ bootstrap
      /\ entry \in Items /\ enqueued \in [Items -> Nat]
  BY Parts DEF BootEntry, PollInv, PollTypeOK
<1>2. /\ UNCHANGED <<items, reader, removals, bootstrap, crashes, pending>>
      /\ InRow(i)' = InRow(i) /\ ToQueue(i)' = ToQueue(i)
  BY DEF BootEntry, Loop, untouched, tables_of_feeds, InRow, ToQueue
<1>3. ASSUME UNCHANGED enqueued, Fault \/ NoFault,
             Become("save") \/ poller' = [poller EXCEPT !.doc = Tail(@)]
      PROVE  Within(i)'
  <2>1. Spent(i) => i \in pending
    BY <1>1 DEF Spent
  <2>2. Spent(i) => Spent(i)'
    BY <1>2, <2>1 DEF Spent
  <2>3. QED
    BY <1>2, <1>3, <2>2, MovesQueueNothing
<1>4. ASSUME ~IsDuplicate(entry), enqueued' = [enqueued EXCEPT ![entry] = @ + 1], NoFault,
             Become("stamp")
      PROVE  Within(i)'
  <2>1. entry \notin pending
    BY <1>4 DEF IsDuplicate, Alike
  <2>2. poller'.pc = "stamp" /\ poller'.doc = poller.doc /\ poller'.starting
    BY <1>1, <1>4 DEF Become, Poller
  <2>3. CASE i = entry
    <3>1. ~Spent(i) /\ Spent(i)'
      BY <1>1, <2>1, <2>2, <2>3 DEF Spent
    <3>2. Marks(i) = 0 /\ Marks(i)' = 1
      BY <3>1 DEF Marks, One
    <3>3. enqueued'[i] = enqueued[i] + 1 /\ faults' = faults
      BY <1>1, <1>4, <2>3 DEF NoFault
    <3>4. QED
      BY <1>1, <1>2, <3>2, <3>3, WithinMoves DEF Within, Reached
  <2>4. CASE i # entry
    <3>1. Spent(i) => Spent(i)'
      BY <1>1, <1>2 DEF Spent
    <3>2. enqueued'[i] = enqueued[i]
      BY <1>1, <1>4, <2>4
    <3>3. QED
      BY <1>2, <1>4, <3>1, <3>2, QueuesNothing
  <2>5. QED
    BY <2>3, <2>4
<1>5. QED
  BY <1>3, <1>4 DEF BootEntry

LEMMA SpentInPoll ==
  ASSUME poller.pc = "entries", poller'.pc = "entries", NEW i
  PROVE  Spent(i) /\ Spent(i)' /\ Marks(i) = 1 /\ Marks(i)' = 1
BY DEF Spent, Marks, One

LEMMA TakeEntryWithin ==
  ASSUME PollInv, Loop, TakeEntry, NEW i \in Items, Within(i)
  PROVE  Within(i)'
<1> DEFINE entry == Head(poller.doc)
<1>1. /\ poller \in Poller /\ poller.pc = "entries" /\ reader.pc = "idle" /\ entry \in Items
      /\ items \in [Items -> Item]
  BY Parts DEF TakeEntry, PollInv, PollTypeOK, StoreTypeOK
<1>2. UNCHANGED <<removals, bootstrap, crashes, enqueued>>
  BY DEF TakeEntry, Loop, untouched, tables_of_feeds, InsertItemIfNew
<1>3. poller'.pc = "entries"
  BY <1>1 DEF TakeEntry, PassSeen, Poller
<1>4. CASE InsertItemIfNew(entry)
  <2>1. faults' = faults /\ Marks(i)' = Marks(i) /\ enqueued'[i] = enqueued[i]
    BY <1>1, <1>2, <1>3, <1>4, SpentInPoll DEF InsertItemIfNew
  <2>2. CASE i = entry
    <3>1. InRow(i) = 0 /\ ToQueue(i) = 0 /\ InRow(i)' = 1 /\ ToQueue(i)' = 1
      BY <1>1, <1>4, <2>2 DEF InsertItemIfNew, Stored, InRow, ToQueue, One, NewItem, NoItem
    <3>2. QED
      BY <1>2, <2>1, <3>1, WithinMoves DEF Within, Reached
  <2>3. CASE i # entry
    <3>1. InRow(i)' = InRow(i) /\ ToQueue(i)' = ToQueue(i)
      BY <1>1, <1>4, <2>3 DEF InsertItemIfNew, Stored, InRow, ToQueue, One
    <3>2. QED
      BY <1>1, <1>2, <1>3, <2>1, <3>1, SpentInPoll, QueuesNothing DEF NoFault
  <2>4. QED
    BY <2>2, <2>3
<1>5. CASE UNCHANGED <<items, reader>> /\ (Fault \/ NoFault)
  BY <1>1, <1>2, <1>3, <1>5, SpentInPoll, MovesQueueNothing
<1>6. QED
  BY <1>4, <1>5 DEF TakeEntry

LEMMA QueueEntryWithin ==
  ASSUME PollInv, Loop, QueueEntry, NEW i \in Items, Within(i)
  PROVE  Within(i)'
<1>1. /\ poller \in Poller /\ poller.pc = "entries" /\ items \in [Items -> Item]
      /\ enqueued \in [Items -> Nat] /\ ReaderTypeOK
      /\ reader.item \in Items
  BY Parts DEF QueueEntry, PollInv, PollTypeOK, StoreTypeOK, ReaderTypeOK, ReaderAtEntry,
               EnqueueAnalyzerJob, MarkRawEnqueued, MarkEnqueueFailed
<1>2. UNCHANGED <<removals, bootstrap, crashes>> /\ (Fault \/ NoFault)
  BY DEF QueueEntry, Loop, untouched, tables_of_feeds, EnqueueAnalyzerJob, MarkRawEnqueued,
         MarkEnqueueFailed
<1>3. poller'.pc = "entries"
  BY <1>1 DEF QueueEntry, Poller
<1>4. Spent(i) /\ Spent(i)' /\ Marks(i)' = Marks(i)
  BY <1>1, <1>3, SpentInPoll
<1>5. ASSUME EnqueueAnalyzerJob, reader' = [reader EXCEPT !.pc = "stampRaw"], NoFault,
             enqueued' = [enqueued EXCEPT ![reader.item] = @ + 1]
      PROVE  Within(i)'
  <2>1. faults' = faults /\ InRow(i)' = InRow(i) /\ ToQueue(i)' = 0
    BY <1>1, <1>5 DEF NoFault, InRow, ToQueue, One, EnqueueAnalyzerJob, ReaderTypeOK
  <2>2. CASE i = reader.item
    <3>1. ToQueue(i) = 1 /\ enqueued'[i] = enqueued[i] + 1
      BY <1>1, <1>5, <2>2 DEF ToQueue, One, EnqueueAnalyzerJob
    <3>2. QED
      BY <1>2, <1>4, <2>1, <3>1, WithinMoves DEF Within, Reached
  <2>3. CASE i # reader.item
    <3>1. ToQueue(i) = 0 /\ enqueued'[i] = enqueued[i]
      BY <1>1, <1>5, <2>3 DEF ToQueue, One
    <3>2. QED
      BY <1>2, <1>4, <1>5, <2>1, <3>1, QueuesNothing
  <2>4. QED
    BY <2>2, <2>3
<1>6. ASSUME EnqueueAnalyzerJob, reader' = [reader EXCEPT !.pc = "giveUp"], Fault,
             UNCHANGED enqueued
      PROVE  Within(i)'
  <2>1. faults' = faults + 1 /\ InRow(i)' = InRow(i) /\ ToQueue(i)' = 0
    BY <1>1, <1>6 DEF Fault, InRow, ToQueue, One, EnqueueAnalyzerJob, ReaderTypeOK
  <2>2. QED
    BY <1>2, <1>4, <1>6, <2>1, WithinMoves DEF Within, Reached
<1>7. ASSUME MarkRawEnqueued \/ MarkEnqueueFailed, UNCHANGED enqueued
      PROVE  Within(i)'
  <2>1. ToQueue(i)' = 0 /\ ToQueue(i) = 0
    BY <1>1, <1>7 DEF MarkRawEnqueued, MarkEnqueueFailed, ToQueue, One, IdleReader, ReaderTypeOK,
                      ReaderPc
  <2>2. items'[i].present = items[i].present
    BY <1>1, <1>7 DEF MarkRawEnqueued, MarkEnqueueFailed, MarkQueued, MarkUnqueued, UpdateItem,
                      Item
  <2>3. InRow(i)' = InRow(i)
    BY <2>2 DEF InRow
  <2>4. QED
    BY <1>2, <1>4, <1>7, <2>1, <2>3, QueuesNothing
<1>8. QED
  BY <1>1, <1>5, <1>6, <1>7 DEF QueueEntry, EnqueueAnalyzerJob, ReaderTypeOK

LEMMA SweepWithin ==
  ASSUME PollInv, Loop, Sweep, NEW i \in Items, Within(i)
  PROVE  Within(i)'
<1>1. UNCHANGED <<bootstrap, crashes, enqueued, reader, faults, poller>>
  BY DEF Sweep, Cleanup, Loop, untouched
<1>2. ToQueue(i)' = ToQueue(i)
  BY <1>1 DEF ToQueue
<1>3. Spent(i) /\ Spent(i)'
  BY <1>1, Parts DEF Sweep, Spent
<1>4. CASE removals' = removals + 1
  <2>1. InRow(i)' \in {0, 1}
    BY DEF InRow, One
  <2>2. Marks(i)' = Marks(i)
    BY <1>3 DEF Marks
  <2>3. QED
    BY <1>1, <1>2, <1>4, <2>1, <2>2, WithinMoves DEF Within, Reached
<1>5. CASE UNCHANGED <<items, removals>>
  BY <1>1, <1>3, <1>5, MovesQueueNothing DEF NoFault
<1>6. QED
  BY <1>4, <1>5 DEF Sweep, Cleanup

LEMMA RestartWithin ==
  ASSUME PollInv, RestartReader, NEW i \in Items, Within(i)
  PROVE  Within(i)'
<1>1. /\ crashes' = crashes + 1
      /\ UNCHANGED <<faults, removals, items, bootstrap, enqueued>>
  BY DEF RestartReader, CrashReader, Crash, tables, tables_of_feeds
<1>2. reader'.pc = "idle" /\ ToQueue(i)' = 0 /\ InRow(i)' = InRow(i)
  BY <1>1 DEF RestartReader, CrashReader, IdleReader, ToQueue, InRow, One, PollInv, PollTypeOK,
              ReaderTypeOK
<1>3. Marks(i)' \in {0, 1}
  BY DEF Marks, One
<1>4. QED
  BY <1>1, <1>2, <1>3, WithinMoves DEF Within, Reached

LEMMA StepCounted == PollInv /\ Counted /\ [PollNext]_pollVars => Counted'
<1> SUFFICES ASSUME PollInv, [PollNext]_pollVars, NEW i \in Items, Within(i)
             PROVE  Within(i)'
  BY DEF Counted
<1>1. CASE LoopStep
  BY <1>1, LoopMoveWithin, BootEntryWithin, TakeEntryWithin, QueueEntryWithin, SweepWithin
     DEF LoopStep, PollStep, LoopMove, Loop
<1>2. ASSUME UNCHANGED <<items, reader, removals, bootstrap, crashes, enqueued, faults, pending,
                         poller>>
      PROVE  Within(i)'
  BY <1>2, MovesQueueNothing DEF Spent, NoFault
<1>3. CASE AdminFeedStep
  BY <1>2, <1>3 DEF AdminFeedStep, EditFeeds, RequestPoll, untouched
<1>4. CASE TimePasses
  BY <1>2, <1>4 DEF TimePasses, CooldownEnds, untouched
<1>5. CASE RestartReader
  BY <1>5, RestartWithin
<1>6. CASE UNCHANGED pollVars
  BY <1>2, <1>6 DEF pollVars, untouched, tables_of_feeds
<1>7. QED
  BY <1>1, <1>3, <1>4, <1>5, <1>6 DEF PollNext

LEMMA InitCounted == PollInit => Counted
<1> SUFFICES ASSUME PollInit, NEW i \in Items PROVE Within(i)
  BY DEF Counted
<1>1. /\ enqueued[i] = 0 /\ ToQueue(i) = 0 /\ removals = 0 /\ InRow(i) = 0
      /\ crashes = 0 /\ faults = 0 /\ Marks(i) = 0
  BY DEF PollInit, StoreInit, ReaderInit, ToQueue, InRow, One, NoItem, Marks, Spent,
         Started
<1>2. Bound(0, 0, 0, 0, bootstrap, 0, 0, 0)
  BY DEF Bound
<1>3. QED
  BY <1>1, <1>2 DEF Within

LEMMA CountedQueuedOnce == PollInv /\ Counted => QueuedOnce
<1> SUFFICES ASSUME PollInv, NEW i \in Items, Within(i)
             PROVE  enqueued[i] <= 1 + removals + (IF bootstrap THEN 1 + crashes + faults ELSE 0)
  BY DEF Counted, QueuedOnce
<1>1. Bound(enqueued[i], ToQueue(i), removals, InRow(i), bootstrap, crashes, faults, Marks(i))
  BY DEF Within
<1>2. QED
  BY <1>1, BoundTypes DEF Bound

(* However often polls, forced polls, sweeps, restarts and a bootstrap     *)
(* meet an entry, it is queued for analysis once, and once more for each   *)
(* sweep that may have deleted its row; a bootstrap adds its own time, and *)
(* one for each start or failed statement that may have lost its mark.     *)
THEOREM EntriesQueuedOnce == PollSpec => []QueuedOnce
<1>1. PollSpec => []Counted
  <2>1. PollSpec => []PollInv
    BY PollInvariant
  <2>2. QED
    BY <2>1, InitCounted, StepCounted, PTL DEF PollSpec
<1>2. QED
  BY <1>1, PollInvariant, CountedQueuedOnce, PTL
=============================================================================
