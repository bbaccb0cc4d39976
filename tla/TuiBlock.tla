------------------------------ MODULE TuiBlock ------------------------------
(***************************************************************************)
(* Blocking a sender from the list or a message of the terminal, and       *)
(* taking that back: u (unsubscribe, then a rule for the address), x (the  *)
(* picker of AddRulePrompt.tsx) and z (delete the rule this session made   *)
(* last), from useBlockActions.ts and sender-block.ts, against the API.    *)
(*                                                                         *)
(* The rule z would remove is state of App; prompt, picker and busy belong *)
(* to the screen, which the list and a message each have of their own:     *)
(* requests that outlive their screen are answered all the same.  Keys     *)
(* act on what was drawn last and answers arrive when what is shown is     *)
(* drawn; keys of one burst on two screens are left out.                   *)
(***************************************************************************)
EXTENDS Naturals, Sequences, SequencesExt

CONSTANTS
    Senders,
    NoSender,
    MaxRules,    \* bound: rules ever made
    MaxRequests  \* bound: requests in flight

VARIABLES
    stored,     \* the address rules of the API
    made,       \* rules ever made
    ui,         \* what the terminal shows
    drawnUi,    \* the same, as it was drawn last
    requests,   \* in flight, in the order they left
    latest,     \* the newest rule of this session, answered and not undone
    crossed,    \* calls of this session have been let overlap
    goneElsewhere \* rules removed by others, or by an undo not answered

blockVars == <<stored, made, ui, drawnUi, requests, latest, crossed, goneElsewhere>>

NoRule == 0
Closed == [step |-> "closed", sender |-> NoSender]

RuleOf(s) == {r \in stored : r.sender = s}

-----------------------------------------------------------------------------

BlockInit ==
    /\ stored = {} /\ made = 0
    /\ ui = [place |-> "list", prompt |-> NoRule, picker |-> Closed, busy |-> FALSE, recent |-> NoRule]
    /\ drawnUi = ui
    /\ requests = <<>>
    /\ latest = NoRule
    /\ crossed = FALSE
    /\ goneElsewhere = {}

BlockRender ==
    /\ drawnUi # ui
    /\ drawnUi' = ui
    /\ UNCHANGED <<stored, made, ui, requests, latest, crossed, goneElsewhere>>

KeysKeep == UNCHANGED <<stored, made, drawnUi, latest, goneElsewhere>>

\* The ways in which calls overlap.
Crosses(way) == crossed' = (crossed \/ way)

\* The guard looks at what was drawn.
BusyRefAsDrawn == drawnUi.busy

\* busyRef of useBlockActions: one call of u or z at a time; the picker does
\* not set it.
BusyRef == \E i \in DOMAIN requests : requests[i].kind # "picker" /\ ~requests[i].gone

Leave(kind, sender, rule) ==
    /\ Len(requests) < MaxRequests
    /\ requests' = Append(requests, [kind |-> kind, sender |-> sender, rule |-> rule, gone |-> FALSE,
                                     at |-> IF kind = "unsubscribe" THEN "match" ELSE "sent"])

\* The keys of the screen, which the picker takes over while it is open.
Active == drawnUi.picker = Closed /\ ui.place = drawnUi.place
KeysFree == Active /\ drawnUi.prompt = NoRule /\ ~drawnUi.busy

KeyUnsubscribe(s) ==
    /\ KeysFree /\ ~BusyRef
    /\ Leave("unsubscribe", s, NoRule)
    /\ ui' = [ui EXCEPT !.busy = TRUE]
    /\ Crosses(ui.prompt # NoRule \/ ui.picker # Closed)
    /\ KeysKeep

KeyBlock(s) ==
    /\ KeysFree
    /\ ui' = [ui EXCEPT !.picker = [step |-> "scope", sender |-> s]]
    /\ UNCHANGED requests
    /\ Crosses(requests # <<>> \/ ui.prompt # NoRule)
    /\ KeysKeep

KeyUndoRule ==
    /\ KeysFree /\ ~BusyRef
    /\ drawnUi.recent # NoRule
    /\ ui' = [ui EXCEPT !.prompt = drawnUi.recent]
    /\ UNCHANGED requests
    /\ Crosses(ui.picker # Closed \/ ui.recent # drawnUi.recent)
    /\ KeysKeep

\* y on the prompt as it was drawn, though n may have closed it.
KeyYes ==
    /\ Active /\ drawnUi.prompt # NoRule
    /\ IF BusyRef THEN /\ ui' = [ui EXCEPT !.prompt = NoRule]
                       /\ UNCHANGED requests
                  ELSE /\ ui' = [ui EXCEPT !.prompt = NoRule, !.busy = TRUE]
                       /\ Leave("delete", NoSender, drawnUi.prompt)
    /\ Crosses(FALSE)
    /\ KeysKeep

KeyNo ==
    /\ Active /\ drawnUi.prompt # NoRule
    /\ ui' = [ui EXCEPT !.prompt = NoRule]
    /\ UNCHANGED requests
    /\ Crosses(FALSE)
    /\ KeysKeep

\* To the other screen.  In a message b works while a call is in flight.
KeyLeave ==
    /\ Active /\ drawnUi.prompt = NoRule
    /\ drawnUi.place = "detail" \/ ~drawnUi.busy
    /\ ui' = [ui EXCEPT !.place = IF @ = "list" THEN "detail" ELSE "list",
                        !.prompt = NoRule, !.picker = Closed, !.busy = FALSE]
    /\ requests' = [i \in DOMAIN requests |-> [requests[i] EXCEPT !.gone = TRUE]]
    /\ Crosses(requests # <<>>)
    /\ KeysKeep

-----------------------------------------------------------------------------
(* The picker: scope, action and category, the preview, then y.            *)

PickerStep(from, to) ==
    /\ drawnUi = ui /\ ui.picker.step = from
    /\ ui' = [ui EXCEPT !.picker.step = to]
    /\ UNCHANGED requests
    /\ Crosses(FALSE)
    /\ KeysKeep

PickerChoose == PickerStep("scope", "confirm")
PreviewSettles == PickerStep("confirm", "ready")

PickerCancel ==
    /\ drawnUi.picker.step \in {"scope", "confirm", "ready"}
    /\ ui' = [ui EXCEPT !.picker = Closed]
    /\ UNCHANGED requests
    /\ Crosses(ui.picker.step = "saving")
    /\ KeysKeep

\* The step is no ref: each y of a burst saves, after an n as well.
PickerSave ==
    /\ drawnUi.picker.step = "ready"
    /\ ui' = IF ui.picker = Closed THEN ui ELSE [ui EXCEPT !.picker.step = "saving"]
    /\ Leave("picker", drawnUi.picker.sender, NoRule)
    /\ Crosses(ui.picker.step # "ready")
    /\ KeysKeep

-----------------------------------------------------------------------------
(* The API.  A rule of another client is for an address, or covers it.     *)

At(i, at, rule) == requests' = [requests EXCEPT ![i].at = at, ![i].rule = rule]
ServerKeeps == UNCHANGED <<ui, drawnUi, latest, crossed>>

\* Before u makes a rule: an enabled one may cover the sender already.
MatchFinds(i) ==
    /\ requests[i].at = "match"
    /\ At(i, IF \E r \in RuleOf(requests[i].sender) : r.enabled THEN "covered" ELSE "sent", NoRule)
    /\ UNCHANGED <<stored, made, goneElsewhere>>
    /\ ServerKeeps

CreateRuns(i) ==
    /\ requests[i].at = "sent" /\ requests[i].kind # "delete"
    /\ IF RuleOf(requests[i].sender) # {}
       THEN /\ At(i, "duplicate", NoRule)
            /\ UNCHANGED <<stored, made>>
       ELSE /\ made < MaxRules
            /\ made' = made + 1
            /\ stored' = stored \cup {[id |-> made', sender |-> requests[i].sender, enabled |-> TRUE]}
            /\ At(i, "created", made')
    /\ UNCHANGED goneElsewhere
    /\ ServerKeeps

DeleteRuns(i) ==
    /\ requests[i].at = "sent" /\ requests[i].kind = "delete"
    /\ stored' = {r \in stored : r.id # requests[i].rule}
    /\ At(i, IF stored' = stored THEN "missing" ELSE "removed", requests[i].rule)
    /\ UNCHANGED <<made, goneElsewhere>>
    /\ ServerKeeps

\* Another client makes a rule, enabled or not, or deletes one.
OtherClient ==
    /\ \/ /\ made < MaxRules
          /\ made' = made + 1
          /\ \E s \in Senders, e \in BOOLEAN :
                RuleOf(s) = {} /\ stored' = stored \cup {[id |-> made', sender |-> s, enabled |-> e]}
          /\ UNCHANGED goneElsewhere
       \/ /\ \E r \in stored : stored' = stored \ {r} /\ goneElsewhere' = goneElsewhere \cup {r.id}
          /\ UNCHANGED made
    /\ UNCHANGED requests
    /\ ServerKeeps

\* A call ends: busy goes, or the picker, if their screen is still there.
Ends(i, recent) ==
    /\ drawnUi = ui
    /\ requests' = RemoveAt(requests, i)
    /\ ui' = IF requests[i].gone THEN [ui EXCEPT !.recent = recent]
             ELSE IF requests[i].kind = "picker" THEN [ui EXCEPT !.recent = recent, !.picker = Closed]
             ELSE [ui EXCEPT !.recent = recent, !.busy = FALSE]
    /\ UNCHANGED <<stored, made, drawnUi>>

\* onRuleCreated, from u and from the picker.
Remembers(i) == requests[i].rule

CreatedAnswered(i) ==
    /\ requests[i].at = "created"
    /\ Ends(i, Remembers(i))
    /\ latest' = IF latest < requests[i].rule THEN requests[i].rule ELSE latest
    /\ UNCHANGED <<crossed, goneElsewhere>>

\* A rule that was removed is not forgotten.
ForgetsMissing(i) == IF requests[i].at = "missing" THEN NoRule ELSE ui.recent

\* undoOutcome: removed, or gone already; whatever is remembered by now.
Forgets(i) == NoRule

DeleteAnswered(i) ==
    /\ requests[i].at \in {"removed", "missing"}
    /\ Ends(i, Forgets(i))
    /\ latest' = IF latest = requests[i].rule THEN NoRule ELSE latest
    /\ UNCHANGED <<crossed, goneElsewhere>>

\* Covered, a duplicate, refused, or no answer: nothing is remembered.
EndsWithout(i) ==
    /\ Ends(i, ui.recent)
    /\ goneElsewhere' = IF requests[i].at = "removed" THEN goneElsewhere \cup {requests[i].rule} ELSE goneElsewhere
    /\ UNCHANGED <<latest, crossed>>

BlockNext ==
    \/ BlockRender
    \/ \E s \in Senders : KeyUnsubscribe(s) \/ KeyBlock(s)
    \/ KeyUndoRule \/ KeyYes \/ KeyNo \/ KeyLeave
    \/ PickerChoose \/ PreviewSettles \/ PickerCancel \/ PickerSave
    \/ \E i \in DOMAIN requests :
          MatchFinds(i) \/ CreateRuns(i) \/ DeleteRuns(i) \/ CreatedAnswered(i) \/ DeleteAnswered(i) \/ EndsWithout(i)
    \/ OtherClient

BlockSpec == BlockInit /\ [][BlockNext]_blockVars

-----------------------------------------------------------------------------

\* z offers the newest rule this session was told that it made, or none once
\* that one is undone: a repeated u or y has no second call in flight, so that
\* answers come in the order of what they changed.  The exceptions are two
\* of u, x and z pressed in one burst, a key after y or n in the same
\* burst in the picker, and a screen left with its call in flight (b works then): an older rule may be offered, or the
\* answer to an undo forgets the newer one.
OffersLatest == crossed \/ ui.recent = latest

\* What z offers is a rule that stands, unless others removed it, or its
\* removal is in flight or was not answered: it never offers again what it
\* removed.
OfferStands ==
    LET stands(rule) ==
            \/ \E r \in stored : r.id = rule
            \/ rule \in goneElsewhere
            \/ \E i \in DOMAIN requests : requests[i].kind = "delete" /\ requests[i].rule = rule
    IN  ui.recent # NoRule => stands(ui.recent)
=============================================================================
