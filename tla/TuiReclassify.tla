--------------------------- MODULE TuiReclassify ---------------------------
(***************************************************************************)
(* Re-running one rule over classified mail from the terminal              *)
(* (ReclassifyScreen.tsx, reclassify-view.ts): a dry run for the options,  *)
(* an apply after y, with a second y when it expects AI calls, and the     *)
(* undo of the batch the screen applied.                                   *)
(*                                                                         *)
(* options, preview, confirm and busy are refs, changed at once, with one  *)
(* call in flight; the batch to undo is state, so that keys see it as it   *)
(* was drawn last.  Of the server there is how often this screen changed   *)
(* rows: what a dry run or an apply finds is arbitrary, the other writers  *)
(* being many.                                                             *)
(***************************************************************************)
EXTENDS Naturals, FiniteSets

CONSTANTS
    Options,        \* scope and release mode
    DefaultOptions, \* DEFAULT_RECLASSIFY_OPTIONS
    None,
    MaxWrites       \* bound: applies and undos that change rows

Calls == [kind : {"dryRun", "apply", "undo"}, options : Options, batch : Nat \cup {None},
          done : BOOLEAN, changed : BOOLEAN]

ASSUME DefaultAssumption == DefaultOptions \in Options /\ None \notin Calls

VARIABLES
    options, preview, confirm, call,
    batch,          \* lastBatchId
    drawnBatch,     \* the same, in the closure of the key handler
    writes,         \* own writes that changed rows
    unanswered,     \* an undo took effect unanswered, since the last dry run
    presses         \* y keys since the dry run loaded

reclassifyVars == <<options, preview, confirm, call, batch, drawnBatch, writes, unanswered, presses>>

Preview(state, opts) == [state |-> state, options |-> opts, changes |-> FALSE, costs |-> FALSE, at |-> 0]
Stale == Preview("stale", DefaultOptions)

Call(kind, opts, b) == [kind |-> kind, options |-> opts, batch |-> b, done |-> FALSE, changed |-> FALSE]

-----------------------------------------------------------------------------

DryRun(opts) ==
    /\ options' = opts
    /\ preview' = Preview("loading", opts)
    /\ call' = Call("dryRun", opts, None)

ReclassifyInit ==
    /\ options = DefaultOptions
    /\ preview = Preview("loading", DefaultOptions)
    /\ confirm = None
    /\ call = Call("dryRun", DefaultOptions, None)
    /\ batch = None /\ drawnBatch = None
    /\ writes = 0
    /\ unanswered = FALSE
    /\ presses = 0

ReclassifyRender ==
    /\ drawnBatch # batch
    /\ drawnBatch' = batch
    /\ UNCHANGED <<options, preview, confirm, call, batch, writes, unanswered, presses>>

\* Keys wait for the call in flight.
AtRest == call = None /\ confirm = None

\* s, m and r: other options, or the same again.
KeyOptions(opts) ==
    /\ AtRest
    /\ DryRun(opts)
    /\ UNCHANGED <<confirm, batch, drawnBatch, writes, unanswered, presses>>

\* The cost, and the options the dry run was for, are not looked at.
GateOfLoaded == IF preview.state # "done" THEN "wait" ELSE IF preview.changes THEN "apply" ELSE "nothing"

\* applyGate: only a loaded dry run for these options, with something to
\* change.
Gate ==
    IF preview.state # "done" \/ preview.options # options THEN "wait"
    ELSE IF ~preview.changes THEN "nothing"
    ELSE IF preview.costs THEN "confirmCost" ELSE "apply"

Pressed == presses' = IF presses < 2 THEN presses + 1 ELSE presses

KeyApply ==
    /\ AtRest
    /\ Pressed
    /\ \/ /\ Gate = "confirmCost"
          /\ confirm' = [kind |-> "cost", options |-> options, batch |-> None]
          /\ UNCHANGED call
       \/ /\ Gate = "apply"
          /\ call' = Call("apply", options, None)
          /\ UNCHANGED confirm
    /\ UNCHANGED <<options, preview, batch, drawnBatch, writes, unanswered>>

KeyUndo ==
    /\ AtRest
    /\ drawnBatch # None
    /\ confirm' = [kind |-> "undo", options |-> options, batch |-> drawnBatch]
    /\ UNCHANGED <<options, preview, call, batch, drawnBatch, writes, unanswered, presses>>

\* y on an open confirm, and only y.
KeyConfirm ==
    /\ call = None /\ confirm # None
    /\ confirm' = None
    /\ call' = IF confirm.kind = "cost" THEN Call("apply", confirm.options, None)
                                        ELSE Call("undo", confirm.options, confirm.batch)
    /\ IF confirm.kind = "cost" THEN Pressed ELSE UNCHANGED presses
    /\ UNCHANGED <<options, preview, batch, drawnBatch, writes, unanswered>>

KeyCancel ==
    /\ call = None /\ confirm # None
    /\ confirm' = None
    /\ UNCHANGED <<options, preview, call, batch, drawnBatch, writes, unanswered, presses>>

-----------------------------------------------------------------------------
(* The call takes effect on the server, and is answered or not.            *)

Runs ==
    /\ call # None /\ ~call.done
    /\ \E changed \in BOOLEAN :
          /\ changed => call.kind = "dryRun" \/ writes < MaxWrites
          /\ call' = [call EXCEPT !.done = TRUE, !.changed = changed]
          /\ writes' = IF changed /\ call.kind # "dryRun" THEN writes + 1 ELSE writes
    /\ UNCHANGED <<options, preview, confirm, batch, drawnBatch, unanswered, presses>>

ReclassifyAnswered(kind) ==
    /\ call # None /\ call.kind = kind /\ call.done
    /\ drawnBatch = batch
    /\ call' = None

DryRunLoads ==
    /\ ReclassifyAnswered("dryRun")
    /\ \E costs \in BOOLEAN :
          preview' = [state |-> "done", options |-> call.options, changes |-> call.changed,
                      costs |-> costs /\ call.changed, at |-> writes]
    /\ presses' = 0
    /\ unanswered' = FALSE
    /\ UNCHANGED <<options, confirm, batch, drawnBatch, writes>>

\* The dry run stays on the screen.
AfterApplyKept == preview

\* The rows changed: the dry run no longer describes them.
AfterApply == Stale

ApplyAnswered ==
    /\ ReclassifyAnswered("apply")
    /\ preview' = AfterApply
    /\ batch' = IF call.changed THEN writes ELSE batch
    /\ UNCHANGED <<options, confirm, drawnBatch, writes, unanswered, presses>>

UndoAnswered ==
    /\ ReclassifyAnswered("undo")
    /\ preview' = Stale
    /\ batch' = None
    /\ UNCHANGED <<options, confirm, drawnBatch, writes, unanswered, presses>>

\* No answer, or a refusal.  An undo leaves the dry run on the screen.
CallFails ==
    /\ call # None /\ drawnBatch = batch
    /\ call' = None
    /\ preview' = CASE call.kind = "dryRun" -> Preview("error", call.options)
                    [] call.kind = "apply" -> Stale
                    [] call.kind = "undo" -> preview
    /\ unanswered' = (unanswered \/ (call.kind = "undo" /\ call.changed))
    /\ UNCHANGED <<options, confirm, batch, drawnBatch, writes, presses>>

ReclassifyNext ==
    \/ ReclassifyRender
    \/ \E opts \in Options : KeyOptions(opts)
    \/ KeyApply \/ KeyUndo \/ KeyConfirm \/ KeyCancel
    \/ Runs \/ DryRunLoads \/ ApplyAnswered \/ UndoAnswered \/ CallFails

ReclassifySpec == ReclassifyInit /\ [][ReclassifyNext]_reclassifyVars

-----------------------------------------------------------------------------

Applying == call # None /\ call.kind = "apply" /\ ~call.done

\* What is applied is what the dry run on the screen shows: the same
\* options, something to change, and no write of this screen after it.  The
\* exception is an undo that took effect but was not answered: it leaves the
\* dry run standing, and y applies over it.
AppliesWhatWasShown ==
    Applying => /\ preview.state = "done" /\ preview.options = call.options /\ preview.changes
                /\ preview.at = writes \/ unanswered

\* A run that expects AI calls takes two y, however fast the keys come, both
\* after its dry run was loaded.
CostAskedTwice == Applying /\ preview.costs => presses >= 2
=============================================================================
