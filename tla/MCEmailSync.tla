---------------------------- MODULE MCEmailSync ----------------------------
(***************************************************************************)
(* Instances of EmailSync for TLC.                                         *)
(***************************************************************************)
EXTENDS EmailSync, TLC

CONSTANTS s1, s2, g1

\* Next of an instance with no ingest request and one UIDVALIDITY.
SyncNext ==
    \/ \E t \in SyncTasks : Begin(t) \/ Mark(t) \/ SyncOpen(t) \/ SyncFetch(t)
                            \/ Finish(t) \/ Throw(t) \/ Catch(t)
    \/ \E u \in Uids : Expunge(u)
    \/ Deliver \/ Crash

SyncSpec == Init /\ [][SyncNext]_vars
============================================================================
