--------------------------- MODULE MCFeedPolling ---------------------------
(***************************************************************************)
(* FeedPolling for TLC: two feeds that share an entry.  The first one is   *)
(* configured, the other, when web-admin adds it, comes before it in the   *)
(* order of the URLs.  The two entries are either different on every       *)
(* level, or one is the other with a new title.                            *)
(***************************************************************************)
EXTENDS FeedPolling

CONSTANTS f1, f2, i1, i2

Ranks  == [f \in {f1, f2} |-> IF f = f1 THEN 2 ELSE 1]
OnlyFirst == <<f1>>
Published == [f \in {f1, f2} |-> IF f = f1 THEN <<i1, i2>> ELSE <<i1>>]
Different == [i \in {i1, i2} |-> [guid |-> i, url |-> i, title |-> i]]
Retitled  == [i \in {i1, i2} |-> [guid |-> i1, url |-> i1, title |-> i]]
=============================================================================
