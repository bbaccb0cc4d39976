--------------------------- MODULE ReviewAndRules ---------------------------
(***************************************************************************)
(* The requests of a person: review decisions (ReviewQueueService) and     *)
(* writes of sender rules (SenderRulesService).                            *)
(***************************************************************************)
EXTENDS Reclassify

----------------------------------------------------------------------------
(* Reviews.  approve and reject read the row with its decision, delete a   *)
(* decision there is and create the new one, in statements of their own.   *)

RowIs(e, id) == HasRow(e) /\ rows[e].id = id

ReviewFind(v) ==
    /\ reviews[v].at = "idle"
    /\ \E e \in Emails, recategorize \in BOOLEAN :
         /\ HasRow(e)
         /\ reviews' = [reviews EXCEPT ![v] =
              [at |-> IF recategorize THEN "upsert" ELSE IF rows[e].reviewed THEN "delete" ELSE "create",
               mail |-> e, id |-> rows[e].id]]
    /\ UNCHANGED <<tables, cache, jobs, calls, runs, undos, writers>>

\* P2025 when the decision, or its row, is gone.
ReviewDelete(v) ==
    /\ reviews[v].at = "delete"
    /\ LET e == reviews[v].mail
       IN IF RowIs(e, reviews[v].id) /\ rows[e].reviewed
          THEN /\ rows' = [rows EXCEPT ![e].reviewed = FALSE]
               /\ reviews' = [reviews EXCEPT ![v].at = "create"]
          ELSE reviews' = [reviews EXCEPT ![v] = ReviewDone] /\ UNCHANGED rows
    /\ UNCHANGED <<rules, born, revs, cache, jobs, calls, runs, undos, writers>>

\* P2003 when the row is gone; P2002, or the update of the upsert, when it has
\* a decision.
ReviewDecide(v) ==
    /\ reviews[v].at \in {"create", "upsert"}
    /\ LET e == reviews[v].mail
       IN rows' = IF RowIs(e, reviews[v].id) THEN [rows EXCEPT ![e].reviewed = TRUE] ELSE rows
    /\ reviews' = [reviews EXCEPT ![v] = ReviewDone]
    /\ UNCHANGED <<rules, born, revs, cache, jobs, calls, runs, undos, writers>>

ReviewStep(v) == ReviewFind(v) \/ ReviewDelete(v) \/ ReviewDecide(v)

----------------------------------------------------------------------------
(* Rules.  A write commits, and then drops the cached matcher.             *)

\* A write and, before it, the read that a patch is merged into.
WriteBegin(w) ==
    /\ writers[w].at = "idle"
    /\ \E r \in Rules :
         /\ rules[r].state # "gone"
         /\ writers' = [writers EXCEPT ![w] = [at |-> "write", rule |-> r, seen |-> rules[r]]]
    /\ UNCHANGED <<tables, cache, jobs, calls, runs, undos, reviews>>

\* SetNull: the rows of a deleted rule stay, without it.
Unlinked(r) == [e \in Emails |->
    IF rows[e].snap.link = r THEN [rows[e] EXCEPT !.snap.link = None] ELSE rows[e]]

Write(w, rule) ==
    /\ rules' = [rules EXCEPT ![writers[w].rule] = rule]
    /\ writers' = [writers EXCEPT ![w].at = "invalidate"]

RuleCreate(w) ==
    /\ writers[w].at = "write" /\ writers[w].seen.state = "new"
    /\ IF rules[writers[w].rule].state = "new"
       THEN \E on \in BOOLEAN, v \in Versions : Write(w, [state |-> "stored", on |-> on, ver |-> v])
       ELSE writers' = [writers EXCEPT ![w] = WriterDone] /\ UNCHANGED rules
    /\ UNCHANGED <<rows, born, revs, cache, jobs, calls, runs, undos, reviews>>

\* The merged rule: a field the patch leaves out is written as it was read.
RuleUpdate(w) ==
    /\ writers[w].at = "write" /\ writers[w].seen.state = "stored"
    /\ IF Stored(writers[w].rule)
       THEN \/ \E on \in BOOLEAN : Write(w, [writers[w].seen EXCEPT !.on = on])
            \/ \E v \in Versions : Write(w, [writers[w].seen EXCEPT !.ver = v])
       ELSE writers' = [writers EXCEPT ![w] = WriterDone] /\ UNCHANGED rules
    /\ UNCHANGED <<rows, born, revs, cache, jobs, calls, runs, undos, reviews>>

\* The cached matcher is dropped even when there was no rule to delete.
RuleRemove(w) ==
    /\ writers[w].at = "write" /\ writers[w].seen.state = "stored"
    /\ IF Stored(writers[w].rule)
       THEN /\ Write(w, [rules[writers[w].rule] EXCEPT !.state = "gone"])
            /\ rows' = Unlinked(writers[w].rule)
       ELSE writers' = [writers EXCEPT ![w].at = "invalidate"] /\ UNCHANGED <<rules, rows>>
    /\ UNCHANGED <<born, revs, cache, jobs, calls, runs, undos, reviews>>

Invalidate(w) ==
    /\ writers[w].at = "invalidate"
    /\ cache' = NoCache
    /\ writers' = [writers EXCEPT ![w] = WriterDone]
    /\ UNCHANGED <<tables, jobs, calls, runs, undos, reviews>>

WriterStep(w) ==
    WriteBegin(w) \/ RuleCreate(w) \/ RuleUpdate(w) \/ RuleRemove(w) \/ Invalidate(w)
=============================================================================
