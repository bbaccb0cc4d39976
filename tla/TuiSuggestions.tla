--------------------------- MODULE TuiSuggestions ---------------------------
(***************************************************************************)
(* Accepting suggested rules in the terminal (SuggestionsScreen.tsx): a    *)
(* panel that previews every glob of a family, y once all previews are in, *)
(* and one create after the other.  What is suggested is SenderSuggestions' *)
(* matter.                                                                 *)
(***************************************************************************)
EXTENDS Naturals, FiniteSets

CONSTANTS
    Families,
    Proposed,  \* the rules proposed for each family, all globs
    NoFamily,
    MaxPanels  \* bound: panels opened

ASSUME ProposedAssumption == DOMAIN Proposed = Families

VARIABLES
    panel,      \* the family asked about, and the globs whose preview is in
    drawnPanel,
    previews,   \* previews in flight
    creating,   \* the family being created (busyRef), and what is left of it
    finished,   \* the families ticked off
    rules,      \* rules of the API
    refused,    \* creates that failed, or that others undid
    panels,     \* panels opened
    started     \* families begun

suggestionsVars == <<panel, drawnPanel, previews, creating, finished, rules, refused, panels, started>>

NoPanel == [family |-> NoFamily, previewed |-> {}, busy |-> FALSE]
Nothing == [family |-> NoFamily, left |-> {}]

SuggestionsInit ==
    /\ panel = NoPanel /\ drawnPanel = panel
    /\ previews = {}
    /\ creating = Nothing
    /\ finished = {} /\ rules = {} /\ refused = {}
    /\ panels = 0 /\ started = 0

SuggestionsRender ==
    /\ drawnPanel # panel
    /\ drawnPanel' = panel
    /\ UNCHANGED <<panel, previews, creating, finished, rules, refused, panels, started>>

CreatingAsDrawn == drawnPanel.busy

\* busyRef, set at once.
Creating == creating.family # NoFamily

PanelKeeps == UNCHANGED <<drawnPanel, finished, rules, refused>>

\* c: a preview of every glob.
KeyConsider(f) ==
    /\ drawnPanel.family = NoFamily /\ ~drawnPanel.busy /\ ~Creating
    /\ Proposed[f] # {}
    /\ panels < MaxPanels
    /\ panel' = [panel EXCEPT !.family = f, !.previewed = {}]
    /\ previews' = previews \cup {[family |-> f, glob |-> g] : g \in Proposed[f]}
    /\ panels' = panels + 1
    /\ PanelKeeps /\ UNCHANGED <<creating, started>>

\* previewsReady: of every glob, a count or an error is in.
Ready(p) == Proposed[p.family] \subseteq p.previewed

KeyAccept ==
    /\ drawnPanel.family # NoFamily /\ ~Creating
    /\ Ready(drawnPanel)
    /\ panel' = [NoPanel EXCEPT !.busy = TRUE]
    /\ creating' = [family |-> drawnPanel.family, left |-> Proposed[drawnPanel.family]]
    /\ started' = started + 1
    /\ PanelKeeps /\ UNCHANGED <<previews, panels>>

KeyRefuse ==
    /\ drawnPanel.family # NoFamily /\ ~Creating
    /\ panel' = [panel EXCEPT !.family = NoFamily, !.previewed = {}]
    /\ PanelKeeps /\ UNCHANGED <<previews, creating, panels, started>>

-----------------------------------------------------------------------------

\* An answer is kept if the panel is still about its family.
PreviewArrives(p) ==
    /\ drawnPanel = panel
    /\ previews' = previews \ {p}
    /\ panel' = IF panel.family = p.family THEN [panel EXCEPT !.previewed = @ \cup {p.glob}] ELSE panel
    /\ UNCHANGED <<drawnPanel, creating, finished, rules, refused, panels, started>>

\* A rule that fails ends the family.
LeftUnlessFailed(g, failed) == IF failed THEN {} ELSE creating.left \ {g}

\* The others are created all the same.
Left(g, failed) == creating.left \ {g}

\* Created, there already, or failed.
CreateNext(g) ==
    /\ g \in creating.left
    /\ \E failed \in BOOLEAN :
          /\ creating' = [creating EXCEPT !.left = Left(g, failed)]
          /\ rules' = IF failed THEN rules ELSE rules \cup {g}
          /\ refused' = IF failed THEN refused \cup {g} ELSE refused
    /\ UNCHANGED <<panel, drawnPanel, previews, finished, panels, started>>

\* The family is ticked off, whatever failed.
CreateEnds ==
    /\ Creating /\ creating.left = {}
    /\ drawnPanel = panel
    /\ creating' = Nothing
    /\ panel' = [panel EXCEPT !.busy = FALSE]
    /\ finished' = finished \cup {creating.family}
    /\ UNCHANGED <<drawnPanel, previews, rules, refused, panels, started>>

OthersDelete ==
    /\ \E g \in rules : rules' = rules \ {g} /\ refused' = refused \cup {g}
    /\ UNCHANGED <<panel, drawnPanel, previews, creating, finished, panels, started>>

SuggestionsNext ==
    \/ SuggestionsRender
    \/ \E f \in Families : KeyConsider(f)
    \/ KeyAccept \/ KeyRefuse
    \/ \E p \in previews : PreviewArrives(p)
    \/ \E g \in creating.left : CreateNext(g)
    \/ CreateEnds \/ OthersDelete

SuggestionsSpec == SuggestionsInit /\ [][SuggestionsNext]_suggestionsVars

-----------------------------------------------------------------------------

\* A family ticked off has each of its rules, but for those the API refused
\* by name or others deleted: one failure does not keep the rest from being
\* made.
TickedIsStored == \A f \in finished : Proposed[f] \subseteq rules \cup refused

\* Each panel starts at most one round of creates, however many y arrive
\* before the next render.
OneRoundPerPanel == started <= panels
=============================================================================
