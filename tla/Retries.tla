------------------------------- MODULE Retries -------------------------------
(***************************************************************************)
(* How often vnstatd tries to save before it gives up.  The daemon counts  *)
(* errors in dbretrycount; here the saves themselves are counted, from the *)
(* last one that was committed, beside a daemon that is module Daemon's.   *)
(***************************************************************************)
EXTENDS Daemon

VARIABLE tries    \* history: saves begun since one was committed

(* A full disk is waited for, however long. *)
DiskIsFull ==
    /\ db_errcode' = "FULL"
    /\ \/ FlushNotBegun
       \/ FlushNotCommitted
       \/ \E i \in Iface : TrafficNotAdded(i) \/ RowNotUpdated(i)

RowIsMissing ==
    /\ db_errcode' = "OK" /\ pc' = "flushend"
    /\ \E i \in Iface : RowNotUpdated(i)

(* A process starts with none.  A save that did not get through because of *)
(* a full disk, or as totals could not be read, counts for nothing: the    *)
(* one may last, and the other is an error that is not handled.  When a    *)
(* row seems to be missing, the commit that follows is another try.        *)
Tries ==
    CASE pc = "down" \/ FlushCommits             -> 0
      [] pc # "begin" /\ pc' = "begin"           -> tries + 1
      [] DiskIsFull                              -> tries - 1
      [] \E i \in Iface : TotalsUnreadable(i)    -> tries - 1
      [] RowIsMissing                            -> tries + 1
      [] OTHER                                   -> tries

RetriesInit == Init /\ tries = 0

RetriesNext == Next /\ tries' = Tries

RetriesSpec == RetriesInit /\ [][RetriesNext]_<<vars, tries>>
-----------------------------------------------------------------------------
(* "number of retries after non-fatal database errors, will result in      *)
(* given number + 1 tries in total before exit", common.h:350: the daemon  *)
(* does not exit before and does not go on after.  A save costs one of the *)
(* retries however many of its statements fail, and one that works gives   *)
(* them all back.  Traffic that cannot be added is excepted: there a query *)
(* that fails makes the next statement fail with a fatal error.  The       *)
(* property is of failures that are not fatal by themselves.               *)
ExitsAfterTries ==
    [][/\ tries' <= DBRETRYLIMIT + 1
       /\ (ended # "dberror" /\ ended' = "dberror" /\ "ERROR" \notin Faults)
             => \/ tries = DBRETRYLIMIT + 1
                \/ \E i \in Iface : TrafficNotAdded(i)]_<<vars, tries>>
=============================================================================
