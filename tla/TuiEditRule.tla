---------------------------- MODULE TuiEditRule ----------------------------
(***************************************************************************)
(* Editing one sender rule in the terminal: the rules list with its toggle *)
(* and its delete (RulesScreen.tsx) and the form, confirm and save of      *)
(* EditRulePrompt.tsx, with rule-edit.ts, against the API, which other     *)
(* clients write to as well.                                               *)
(*                                                                         *)
(* shown is the state the user interface has set, drawn the state its key  *)
(* handler was made for: keys that arrive before the next render (a key    *)
(* repeat, a paste) are judged by drawn, while refs such as busyRef change *)
(* at once.  Answers of the API arrive only when what is shown is drawn.   *)
(* A pattern stands for pattern and match type; the note is left out.      *)
(***************************************************************************)
EXTENDS Naturals, Sequences, SequencesExt, FiniteSets, TLC

CONSTANTS
    Patterns,
    ClassifyCategories, \* the categories a classify rule may have
    NoCategory,         \* a category to be picked
    Gone,               \* in place of a rule that was deleted
    MaxOthers           \* bound: writes of other clients

VARIABLES
    server,     \* the stored rule, or Gone
    others,     \* writes other clients made
    rule,       \* the rule as the list has it
    draft,      \* the form
    shown,      \* the step of the prompt, or the list
    drawn,
    busy,       \* busyRef
    calls       \* PATCH and DELETE requests in flight

editVars == <<server, others, rule, draft, shown, drawn, busy, calls>>

Fields == {"pattern", "action", "category", "enabled"}
Categories == ClassifyCategories \cup {"delete"}
Rules ==
    [pattern : Patterns, action : {"classify", "trash"}, category : Categories, enabled : BOOLEAN]

ASSUME EditAssumption == NoCategory \notin Categories \cup {"classify", "trash"} /\ Gone \notin Rules

Step(kind) == [kind |-> kind, patch |-> <<>>, warning |-> FALSE, preview |-> "skipped", dryRun |-> "skipped"]

Differing(a, b) == {f \in Fields : a[f] # b[f]}

-----------------------------------------------------------------------------

\* The whole form is sent.
PatchOfAll(original, d) == [f \in {f \in Fields : d[f] # NoCategory} |-> d[f]]

\* changedFields: what differs from the rule as it was listed.
Patch(original, d) ==
    [f \in {f \in Differing(original, d) : d[f] # NoCategory} |-> d[f]]

\* withAction: trash comes with the category delete, classify with the
\* rule's own category or none.
WithAction(d, action, original) ==
    IF action = d.action THEN d
    ELSE [d EXCEPT !.action = action,
                   !.category = IF original.action = action THEN original.category
                                ELSE IF action = "trash" THEN "delete" ELSE NoCategory]

\* Enabling a trash rule is no change of what it matches.
WarnsOfMatches(original, d, patch) ==
    d.action = "trash" /\ (original.action # "trash" \/ "pattern" \in DOMAIN patch)

\* needsTrashWarning: the edit makes the rule move mail it did not move.
NeedsTrashWarning(original, d, patch) ==
    /\ d.action = "trash"
    /\ \/ original.action # "trash"
       \/ "pattern" \in DOMAIN patch
       \/ "enabled" \in DOMAIN patch /\ d.enabled

NeedsPreview(original, d, patch) ==
    "pattern" \in DOMAIN patch \/ NeedsTrashWarning(original, d, patch)

CanDryRunSavedRule(original) == original.action = "trash" /\ original.enabled

Loading(run) == IF run THEN "loading" ELSE "skipped"
ChecksSettled(s) == s.preview # "loading" /\ s.dryRun # "loading"

ConfirmStep(original, d) ==
    LET patch == Patch(original, d)
        warning == NeedsTrashWarning(original, d, patch)
    IN  [kind |-> "confirm", patch |-> patch, warning |-> warning,
         preview |-> Loading(NeedsPreview(original, d, patch)),
         dryRun |-> Loading(warning /\ CanDryRunSavedRule(original))]

-----------------------------------------------------------------------------

EditInit ==
    /\ server \in Rules
    /\ others = 0
    /\ rule = server
    /\ draft = rule
    /\ shown = Step("list")
    /\ drawn = shown
    /\ busy = FALSE
    /\ calls = <<>>

EditRender ==
    /\ drawn # shown
    /\ drawn' = shown
    /\ UNCHANGED <<server, others, rule, draft, shown, busy, calls>>

Show(step) == shown' = step

\* The guard looks at the step that was drawn.
FreeAsDrawn == drawn.kind \notin {"saving", "toggling", "deleting"}

\* Only one request at a time is let out.
Free == ~busy

\* A request leaves; from is the rule it was composed for.
Send(kind, patch, warned) ==
    /\ busy' = TRUE
    /\ calls' = Append(calls, [kind |-> kind, patch |-> patch, warned |-> warned, from |-> rule,
                               at |-> "sent", merged |-> server, raced |-> FALSE])

-----------------------------------------------------------------------------
(* The list.                                                               *)

\* Leaving the screen and opening it again lists the rules.
Relist ==
    /\ drawn.kind = "list" /\ Free
    /\ rule # server
    /\ rule' = server
    /\ Show(Step("list"))
    /\ UNCHANGED <<server, others, draft, drawn, busy, calls>>

Toggle ==
    /\ drawn.kind = "list" /\ Free /\ rule # Gone
    /\ Send("toggle", [f \in {"enabled"} |-> ~rule.enabled], FALSE)
    /\ Show(Step("toggling"))
    /\ UNCHANGED <<server, others, rule, draft, drawn>>

OpenEdit ==
    /\ drawn.kind = "list" /\ shown.kind = "list" /\ Free /\ rule # Gone
    /\ draft' = rule
    /\ Show(Step("form"))
    /\ UNCHANGED <<server, others, rule, drawn, busy, calls>>

\* d, and then y or n on the question as it was drawn.
AskDelete ==
    /\ drawn.kind = "list" /\ shown.kind = "list" /\ Free /\ rule # Gone
    /\ Show(Step("asking"))
    /\ UNCHANGED <<server, others, rule, draft, drawn, busy, calls>>

ConfirmDelete ==
    /\ drawn.kind = "asking" /\ Free
    /\ Send("delete", <<>>, FALSE)
    /\ Show(Step("deleting"))
    /\ UNCHANGED <<server, others, rule, draft, drawn>>

DeclineDelete ==
    /\ drawn.kind = "asking" /\ Free
    /\ Show(Step("list"))
    /\ UNCHANGED <<server, others, rule, draft, drawn, busy, calls>>

-----------------------------------------------------------------------------
(* The form and its confirm step.                                          *)

InForm == drawn.kind = "form" /\ shown.kind = "form"

EditField ==
    /\ InForm
    /\ \/ \E p \in Patterns : draft' = [draft EXCEPT !.pattern = p]
       \/ \E c \in Categories : draft' = [draft EXCEPT !.category = c]
       \/ draft' = [draft EXCEPT !.enabled = ~@]
       \/ \E a \in {"classify", "trash"} : draft' = WithAction(draft, a, rule)
    /\ UNCHANGED <<server, others, rule, shown, drawn, busy, calls>>

\* Enter on "Review changes": never a save, and nothing without a change.
Review ==
    /\ InForm
    /\ ~(draft.action = "classify" /\ draft.category = NoCategory)
    /\ DOMAIN Patch(rule, draft) # {}
    /\ Show(ConfirmStep(rule, draft))
    /\ UNCHANGED <<server, others, rule, draft, drawn, busy, calls>>

Cancel ==
    /\ drawn.kind = "form" /\ shown.kind \in {"form", "confirm"}
    /\ Show(Step("list"))
    /\ UNCHANGED <<server, others, rule, draft, drawn, busy, calls>>

\* The checks are read only; a late answer finds its step gone.
CheckSettles ==
    /\ drawn = shown /\ shown.kind = "confirm"
    /\ \/ shown.preview = "loading" /\ Show([shown EXCEPT !.preview = "settled"])
       \/ shown.preview = "loading" /\ Show(Step("form"))
       \/ shown.dryRun = "loading" /\ Show([shown EXCEPT !.dryRun = "settled"])
    /\ UNCHANGED <<server, others, rule, draft, drawn, busy, calls>>

BackToForm ==
    /\ drawn.kind = "confirm" /\ Free
    /\ Show(Step("form"))
    /\ UNCHANGED <<server, others, rule, draft, drawn, busy, calls>>

\* y, on what was drawn: the prompt itself may have gone back already.
Save ==
    /\ drawn.kind = "confirm" /\ Free
    /\ ChecksSettled(drawn)
    /\ Send("edit", drawn.patch, drawn.warning)
    /\ Show(Step("saving"))
    /\ UNCHANGED <<server, others, rule, draft, drawn>>

-----------------------------------------------------------------------------
(* The API: update reads the rule, merges the patch and writes all of it.  *)

Merged(base, patch) == [f \in Fields |-> IF f \in DOMAIN patch THEN patch[f] ELSE base[f]]

UpdateRead(i) ==
    /\ calls[i].at = "sent" /\ calls[i].kind # "delete" /\ server # Gone
    /\ calls' = [calls EXCEPT ![i].at = "read", ![i].merged = Merged(server, calls[i].patch)]
    /\ UNCHANGED <<server, others, rule, draft, shown, drawn, busy>>

UpdateWrite(i) ==
    /\ calls[i].at = "read" /\ server # Gone
    /\ server' = calls[i].merged
    /\ calls' = [calls EXCEPT ![i].at = "written"]
    /\ UNCHANGED <<others, rule, draft, shown, drawn, busy>>

RemoveRuns(i) ==
    /\ calls[i].at = "sent" /\ calls[i].kind = "delete" /\ server # Gone
    /\ server' = Gone
    /\ calls' = [calls EXCEPT ![i].at = "written"]
    /\ UNCHANGED <<others, rule, draft, shown, drawn, busy>>

Answered(i) ==
    /\ drawn = shown
    /\ calls' = RemoveAt(calls, i)
    /\ busy' = FALSE
    /\ UNCHANGED <<server, others, drawn>>

\* The saved rule replaces the listed one, which a delete takes out.
UpdateDone(i) ==
    /\ calls[i].at = "written"
    /\ Answered(i)
    /\ rule' = IF calls[i].kind = "delete" THEN Gone ELSE calls[i].merged
    /\ Show(Step("list"))
    /\ UNCHANGED draft

\* Refused, no such rule, or no answer, whether it was written or not: the
\* form again, as it was typed, over the rule as it was listed.
UpdateFails(i) ==
    /\ calls[i].at \in {"sent", "written"} \/ server = Gone
    /\ Answered(i)
    /\ Show(Step(IF calls[i].kind = "edit" THEN "form" ELSE "list"))
    /\ UNCHANGED <<rule, draft>>

\* Another client changes a field, or deletes the rule.
OtherWrites ==
    /\ others < MaxOthers /\ server # Gone
    /\ \/ \E r \in Rules : Cardinality(Differing(r, server)) = 1 /\ server' = r
       \/ server' = Gone
    /\ others' = others + 1
    /\ calls' = [i \in DOMAIN calls |->
                    IF calls[i].at = "read" THEN [calls[i] EXCEPT !.raced = TRUE] ELSE calls[i]]
    /\ UNCHANGED <<rule, draft, shown, drawn, busy>>

EditNext ==
    \/ EditRender \/ Relist \/ Toggle \/ OpenEdit
    \/ AskDelete \/ ConfirmDelete \/ DeclineDelete
    \/ EditField \/ Review \/ Cancel \/ CheckSettles \/ BackToForm \/ Save
    \/ \E i \in DOMAIN calls : UpdateRead(i) \/ UpdateWrite(i) \/ RemoveRuns(i) \/ UpdateDone(i) \/ UpdateFails(i)
    \/ OtherWrites

EditSpec == EditInit /\ [][EditNext]_editVars

-----------------------------------------------------------------------------

\* A burst of keys never has a second write of this terminal in flight.
OneWriteAtATime == Len(calls) <= 1

Writes(i) == i \in DOMAIN calls' /\ calls[i].at = "read" /\ calls'[i].at = "written"

\* A save changes no field the user left alone, however stale the list: what
\* other clients wrote there stays.  The exception is a write of theirs
\* between the read and the write of update, which is merged away.
NoLostUpdate ==
    [][\A i \in DOMAIN calls : Writes(i) =>
            \/ calls[i].raced
            \/ Differing(server, server') \subseteq
                   IF calls[i].kind = "edit" THEN Differing(calls[i].from, draft) ELSE {"enabled"}]_editVars

\* An edit that lets a rule move mail it did not move was confirmed under
\* the warning, unless the rule was no longer what the form had been
\* filled with: by another client, or by a save of its own that was not
\* answered.  A toggle in the list asks nothing.
WarnedBeforeTrash ==
    [][\A i \in DOMAIN calls :
        Writes(i) /\ calls[i].kind = "edit" /\ ~calls[i].raced /\ calls[i].from = server =>
            LET moves(r) == r.action = "trash" /\ r.enabled IN
            moves(server') /\ (~moves(server) \/ server.pattern # server'.pattern) =>
                calls[i].warned]_editVars
=============================================================================
