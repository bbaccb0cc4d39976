----------------------------- MODULE ChangeLog -----------------------------
(***************************************************************************)
(* What reclassify promises of the classification rows and of its log: a   *)
(* batch logs a change in the step that makes it, with the value that it   *)
(* replaced, once for an email; it changes nothing a person has reviewed;  *)
(* and an undo takes a row back to the value in the log, if the row is     *)
(* still what the batch left, and does so once.                            *)
(***************************************************************************)
CONSTANTS Emails, Batches, Links,
          NoValue, NoLink  \* the values of a row that is absent, and no rule

VARIABLES rows,  \* [id, snap, reviewed] of an email; id 0: no row
          log    \* [made, id, prev, next, undone] of a batch and an email

vars == <<rows, log>>

Present(e) == rows[e].id # 0
Put(e, id, value, reviewed) ==
    rows' = [rows EXCEPT ![e] = [id |-> id, snap |-> value, reviewed |-> reviewed]]

Blank == [made |-> FALSE, id |-> 0, prev |-> NoValue, next |-> NoValue, undone |-> FALSE]
Enter(b, e, next) ==
    log' = [log EXCEPT ![b][e] = [made |-> TRUE, id |-> rows[e].id, prev |-> rows[e].snap,
                                  next |-> next, undone |-> FALSE]]

Init == log = [b \in Batches |-> [e \in Emails |-> Blank]]

\* An email is classified, or a late answer writes over its value.
Classify(e) ==
    /\ IF Present(e) THEN rows'[e].id = rows[e].id ELSE rows'[e].id # 0
    /\ Put(e, rows'[e].id, rows'[e].snap, rows[e].reviewed)
    /\ UNCHANGED log

\* A batch rewrites a row, or deletes it to have it classified again.
Free(b, e) == Present(e) /\ ~rows[e].reviewed /\ ~log[b][e].made
Revise(b, e) ==
    /\ Free(b, e)
    /\ Put(e, rows[e].id, rows'[e].snap, FALSE)
    /\ Enter(b, e, rows'[e].snap)
Release(b, e) ==
    /\ Free(b, e)
    /\ Put(e, 0, NoValue, FALSE)
    /\ Enter(b, e, NoValue)

\* What became of the release: classified, or put back.
Released(b, e) == log[b][e].made /\ log[b][e].next = NoValue /\ ~log[b][e].undone
Settle(b, e) ==
    /\ Released(b, e)
    /\ log' = [log EXCEPT ![b][e].next = log'[b][e].next]
    /\ UNCHANGED rows \/ (~Present(e) /\ Put(e, log[b][e].id, log'[b][e].next, FALSE))

\* A rule that is gone since is left out of the value.
Undo(b, e) ==
    /\ log[b][e].made /\ ~log[b][e].undone /\ ~rows[e].reviewed
    /\ IF log[b][e].next = NoValue THEN ~Present(e)
       ELSE Present(e) /\ rows[e].snap = log[b][e].next
    /\ \E value \in {log[b][e].prev, [log[b][e].prev EXCEPT !.link = NoLink]} :
         Put(e, IF Present(e) THEN rows[e].id ELSE log[b][e].id, value, FALSE)
    /\ log' = [log EXCEPT ![b][e].undone = TRUE]

\* A person decides, or replaces a decision.
Decide(e) ==
    /\ Present(e)
    /\ Put(e, rows[e].id, rows[e].snap, ~rows[e].reviewed)
    /\ UNCHANGED log

\* The deletion of a rule takes it out of every value.
Unlink(l) ==
    /\ rows' = [e \in Emails |-> IF rows[e].snap.link = l
                                 THEN [rows[e] EXCEPT !.snap.link = NoLink] ELSE rows[e]]
    /\ UNCHANGED log

Next ==
    \/ \E e \in Emails : Classify(e) \/ Decide(e)
    \/ \E e \in Emails, b \in Batches : Revise(b, e) \/ Release(b, e) \/ Settle(b, e) \/ Undo(b, e)
    \/ \E l \in Links : Unlink(l)

Spec == Init /\ [][Next]_vars
============================================================================
