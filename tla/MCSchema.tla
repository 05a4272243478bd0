------------------------------- MODULE MCSchema -------------------------------
\* The databases the startup is checked on: none, one whose rss_items has only
\* the columns no migration of the reader adds, one that lacks only what
\* web-admin indexes, and one a current version made.
EXTENDS Schema

NewDatabase == [tables |-> {}, columns |-> {}, unique |-> FALSE]

Older(lost) ==
  [tables |-> {"rss_items", "rss_feeds"}, columns |-> AllColumns \ lost,
   unique |-> "item_hash" \notin lost]

SomeDatabases ==
  {NewDatabase, Older(AllColumns \ FirstColumns),
   Older({"item_hash", "source_feed_url"}), Older({"analyzed_payload_json"}),
   Older({})}
===============================================================================
