---------------------------- MODULE MCProviders ----------------------------
(***************************************************************************)
(* The two outside services behind a breaker or a token, for TLC: batches  *)
(* against the AI provider, and accounts against Google.  They share       *)
(* nothing: a behaviour is one of one, with the other at its start.        *)
(*                                                                         *)
(* A tick is about 30 seconds.  Of three emails the provider rejects the   *)
(* second.                                                                 *)
(***************************************************************************)
EXTENDS ClassificationBatch, EmailAccounts

CONSTANTS c1, x, y, f1, n1, n2, r1

SecondRefused == {2}

VARIABLE service

allVars == <<service, batchVars, accountVars>>

MCInit ==
    /\ service \in {"ai", "google"} /\ BatchInit /\ AccountsInit
    /\ service = "ai" \/ (arrived = {} /\ mood = "ok")

MCNext ==
    /\ UNCHANGED service
    /\ \/ service = "ai" /\ BatchNext /\ UNCHANGED accountVars
       \/ service = "google" /\ AccountsNext /\ UNCHANGED batchVars

\* The fairness of FairBatchSpec, for the behaviours it is about.  Those of the AI provider
\* have no account a request of AccountsFairness could use.
AiFairness ==
    /\ WF_batchVars(service = "ai" /\ Tick /\ UNCHANGED batch)
    /\ \A c \in Callers : WF_batchVars(service = "ai" /\ RunStep(c))

MCSpec == MCInit /\ [][MCNext]_allVars /\ AiFairness /\ AccountsFairness
============================================================================
