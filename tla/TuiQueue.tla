------------------------------ MODULE TuiQueue ------------------------------
(***************************************************************************)
(* The lists of mail to review in the terminal (App.tsx, the list keys of  *)
(* ListScreen.tsx, approve and next of DetailScreen.tsx): which list the   *)
(* user asked for, which one he sees, and the fetches in between, each of  *)
(* which replaces the items when it is answered.                           *)
(*                                                                         *)
(* As in TuiEditRule, keys act on what was drawn last and answers arrive   *)
(* when what is shown is drawn.                                            *)
(***************************************************************************)
EXTENDS Naturals, Sequences, SequencesExt

CONSTANTS
    Unloaded,
    MaxLoads, \* bound: fetches in flight
    MaxActs   \* bound: approvals, rejections and syncs in flight

VARIABLES
    queue,      \* state of App and of the screen it shows
    drawnQueue, \* the same, as it was drawn last
    loads,      \* fetches in flight, in the order they left
    acts,       \* approvals, rejections and syncs in flight
    tangled     \* a load was answered out of order, or left for a tab that
                \* was no longer asked for, and no other in its place since

queueVars == <<queue, drawnQueue, loads, acts, tangled>>

\* A tab is a view, review or actionable, of recent or of all mail.
FirstTab == [view |-> "review", all |-> FALSE]

Load(tab, by) == [tab |-> tab, by |-> by, live |-> TRUE]

-----------------------------------------------------------------------------

\* What keys look at.
Drawn(q) == [mode |-> q.mode, tab |-> q.tab, loading |-> q.loading, busy |-> q.busy, empty |-> q.empty]

Settled == drawnQueue = Drawn(queue)

\* launched: the terminal was started on one message (initialId).
QueueInit ==
    \E launched \in BOOLEAN :
        /\ queue = [mode |-> IF launched THEN "detail" ELSE "list", tab |-> FirstTab,
                    loading |-> ~launched, busy |-> FALSE,
                    items |-> Unloaded, empty |-> TRUE, launched |-> launched]
        /\ drawnQueue = Drawn(queue)
        /\ loads = IF launched THEN <<>> ELSE <<Load(FirstTab, "effect")>>
        /\ acts = <<>>
        /\ tangled = FALSE

\* A load leaves, after those in flight.
Sends(flying, load) ==
    /\ Len(flying) < MaxLoads
    /\ loads' = Append(flying, load)
    /\ tangled' = (tangled \/ load.tab # queue'.tab)

SendsNone(flying) == loads' = flying /\ tangled' = tangled

Cancelled(by) == [i \in DOMAIN loads |-> [loads[i] EXCEPT !.live = @ /\ loads[i].by # by]]

\* The effect that loads the list at the start depends on refresh, which is
\* made anew for every tab: it cancels its last load and loads again.
EffectRuns == ~queue.launched /\ queue.tab # drawnQueue.tab

QueueRender ==
    /\ ~Settled
    /\ drawnQueue' = Drawn(queue)
    /\ UNCHANGED <<queue, acts>>
    /\ IF EffectRuns THEN Sends(Cancelled("effect"), Load(queue.tab, "effect"))
                     ELSE SendsNone(loads)

\* Another screen: what the screen left behind has in flight no longer
\* touches its busy flag.  An error stays.
Showing(q, mode) ==
    IF q.mode = "error" THEN q ELSE [q EXCEPT !.mode = mode, !.busy = @ /\ q.mode = mode]

Leaves == acts' = [i \in DOMAIN acts |-> [acts[i] EXCEPT !.gone = TRUE]]

-----------------------------------------------------------------------------

OnList == drawnQueue.mode = "list" /\ ~drawnQueue.busy

\* t and w ask for the other tab of the one drawn, with the load that goes
\* with it.
Switched(tab, key) ==
    IF key = "t" THEN [tab EXCEPT !.view = IF drawnQueue.tab.view = "review" THEN "actionable" ELSE "review"]
                 ELSE [tab EXCEPT !.all = ~drawnQueue.tab.all]

\* The load is left to the effect.
ReloadTabByEffect(tab) == SendsNone(loads)

ReloadTab(tab) == Sends(loads, Load(tab, "reload"))

KeySwitch(key) ==
    /\ OnList /\ ~drawnQueue.loading
    /\ queue' = [queue EXCEPT !.tab = Switched(@, key), !.loading = TRUE]
    /\ ReloadTab(Switched(drawnQueue.tab, key))
    /\ UNCHANGED <<drawnQueue, acts>>

KeyOpen ==
    /\ OnList
    /\ \/ queue' = Showing(queue, "detail") /\ ~drawnQueue.loading /\ ~drawnQueue.empty
       \/ queue' = Showing(queue, "other")
    /\ Leaves
    /\ SendsNone(Cancelled("next"))
    /\ UNCHANGED drawnQueue

\* Back to the list, which is loaded if it was empty.  In a message b works
\* while a call is in flight.
KeyBackToList ==
    /\ drawnQueue.mode \in {"detail", "other"}
    /\ Leaves
    /\ IF drawnQueue.empty
       THEN /\ queue' = [Showing(queue, "list") EXCEPT !.loading = TRUE]
            /\ Sends(Cancelled("next"), Load(drawnQueue.tab, "reload"))
       ELSE /\ queue' = Showing(queue, "list")
            /\ SendsNone(Cancelled("next"))
    /\ UNCHANGED drawnQueue

\* a, r and s: from the message, or from the list.  busy is no ref: a second
\* key of a burst acts as well.
KeyAct ==
    /\ ~drawnQueue.busy
    /\ drawnQueue.mode = "detail" \/ (OnList /\ ~drawnQueue.loading)
    /\ Len(acts) < MaxActs
    /\ LET gone == queue.mode # drawnQueue.mode IN
       /\ acts' = Append(acts, [tab |-> drawnQueue.tab, detail |-> drawnQueue.mode = "detail", gone |-> gone])
       /\ queue' = [queue EXCEPT !.busy = @ \/ ~gone]
    /\ SendsNone(loads)
    /\ UNCHANGED drawnQueue

\* n: the next of the items, or of a list loaded for it.
KeyNext ==
    /\ drawnQueue.mode = "detail" /\ ~drawnQueue.busy /\ queue.mode = "detail"
    /\ queue' = [queue EXCEPT !.busy = TRUE]
    /\ Sends(loads, Load(drawnQueue.tab, "next"))
    /\ UNCHANGED <<drawnQueue, acts>>

-----------------------------------------------------------------------------

\* The list is refreshed for the tab the key was pressed in.
ActAnswered(i) ==
    /\ Settled
    /\ queue' = [queue EXCEPT !.busy = @ /\ acts[i].gone]
    /\ acts' = RemoveAt(acts, i)
    /\ \/ Sends(loads, Load(acts[i].tab, IF acts[i].detail THEN "acted" ELSE "refresh"))
       \/ SendsNone(loads)
    /\ UNCHANGED drawnQueue

\* A cancelled load leaves the flag alone, whoever sent it.
ClearsIfLive(load) == load.by = "effect"

\* Which loads end "Loading": reload always, the effect unless cancelled.
Clears(load) == load.by = "reload" \/ (load.by = "effect" /\ load.live)

Lands(i) ==
    /\ Settled
    /\ loads' = RemoveAt(loads, i)
    /\ UNCHANGED drawnQueue

AfterLoad(load) ==
    [queue EXCEPT !.loading = @ /\ ~Clears(load), !.busy = @ /\ ~(load.by = "next" /\ load.live)]

\* The items are replaced, whatever tab they are of.  An approval in a
\* message goes on to the next one, from whatever screen.
LoadAnswered(i) ==
    /\ Lands(i)
    /\ tangled' = (i # 1 \/ (tangled /\ (loads' # <<>> \/ loads[i].tab # queue.tab)))
    /\ \E empty \in BOOLEAN, next \in {"detail", "done", "stay"} :
          LET q == [AfterLoad(loads[i]) EXCEPT !.items = loads[i].tab, !.empty = empty] IN
          /\ CASE loads[i].by = "acted" -> next # "stay"
               [] loads[i].by = "next" -> next # "done"
               [] OTHER -> next = "stay"
          /\ next = "detail" => ~empty
          /\ queue' = IF next = "stay" THEN q ELSE Showing(q, next)
          /\ acts' = IF queue'.mode = queue.mode THEN acts ELSE [j \in DOMAIN acts |-> [acts[j] EXCEPT !.gone = TRUE]]

\* Fatal, but for n and for a load the effect has cancelled.
LoadFails(i) ==
    /\ Lands(i)
    /\ tangled' = tangled
    /\ queue' = IF loads[i].by = "next" \/ (loads[i].by = "effect" /\ ~loads[i].live)
                THEN AfterLoad(loads[i])
                ELSE [AfterLoad(loads[i]) EXCEPT !.mode = "error"]
    /\ UNCHANGED acts

QueueNext ==
    \/ QueueRender
    \/ \E key \in {"t", "w"} : KeySwitch(key)
    \/ KeyOpen \/ KeyBackToList \/ KeyAct \/ KeyNext
    \/ \E i \in DOMAIN acts : ActAnswered(i)
    \/ \E i \in DOMAIN loads : LoadAnswered(i) \/ LoadFails(i)

QueueSpec == QueueInit /\ [][QueueNext]_queueVars

-----------------------------------------------------------------------------

\* Once every load was answered, the items are those of the tab in the
\* title.  The exceptions are loads answered out of order, of which every
\* switch has two in flight, and a key burst that sends a load for a tab
\* already left (t and w at once, or t while an approval is in flight).
ItemsOfTab ==
    loads = <<>> /\ Settled /\ queue.items # Unloaded /\ queue.mode # "error" =>
        queue.items = queue.tab \/ tangled

\* "Loading" always has a load in flight that will end it: no order of
\* switches, cancelled effects and failures leaves the list without keys.
LoadingEnds ==
    queue.loading /\ queue.mode # "error" /\ Settled =>
        \E i \in DOMAIN loads : Clears(loads[i])
=============================================================================
