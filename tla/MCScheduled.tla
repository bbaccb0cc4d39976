---------------------------- MODULE MCScheduled ----------------------------
(***************************************************************************)
(* What brings mail in, for TLC: the syncs of one INBOX, and the scheduled *)
(* runs.  A behaviour is one of one, with the other at its start.          *)
(***************************************************************************)
EXTENDS EmailSync, MCDailyRuns

CONSTANTS s1, g1

VARIABLE part

MCInit == part \in {"sync", "daily"} /\ Init /\ DailyInit

MCNext ==
    /\ UNCHANGED part
    /\ \/ part = "sync" /\ Next /\ UNCHANGED dailyVars
       \/ part = "daily" /\ DailyNext /\ UNCHANGED vars

MCSpec == MCInit /\ [][MCNext]_<<part, vars, dailyVars>>
=============================================================================
