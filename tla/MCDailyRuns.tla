---------------------------- MODULE MCDailyRuns ----------------------------
(***************************************************************************)
(* Instances of DailyRuns for TLC: two accounts with a mail each, the      *)
(* hourly sync and the daily digest, and a digest run by hand.             *)
(***************************************************************************)
EXTENDS DailyRuns, TLC

CONSTANTS m1, m2, j1, j2

MCAccountOf == (m1 :> 1) @@ (m2 :> 2)
MCStagesOf == (j1 :> {"sync", "digest"}) @@ (j2 :> {"digest"})
=============================================================================
