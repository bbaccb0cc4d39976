------------------------------- MODULE MCTui -------------------------------
EXTENDS TuiEditRule, TuiReclassify, TuiQueue, TuiBlock, TuiMailbox, TuiSuggestions

MCProposed == [f \in {"a", "b"} |-> IF f = "a" THEN {"a1", "a2"} ELSE {"b1"}]

SenderSymmetry == Permutations(Senders)

\* The screens share nothing but the API, of which each models what it
\* touches: a behaviour is one of one screen, with the others at their start.
VARIABLE screen

AllVars == <<screen, editVars, reclassifyVars, queueVars, blockVars, mailboxVars, suggestionsVars>>

MCInit ==
    /\ screen \in {"edit", "reclassify", "queue", "block", "mailbox", "suggestions"}
    /\ EditInit /\ ReclassifyInit /\ QueueInit /\ BlockInit /\ MailboxInit /\ SuggestionsInit
    /\ screen = "edit" \/ server = CHOOSE r \in Rules : TRUE
    /\ screen = "queue" \/ ~queue.launched

MCNext ==
    /\ UNCHANGED screen
    /\ \/ /\ screen = "edit" /\ EditNext
          /\ UNCHANGED <<reclassifyVars, queueVars, blockVars, mailboxVars, suggestionsVars>>
       \/ /\ screen = "reclassify" /\ ReclassifyNext
          /\ UNCHANGED <<editVars, queueVars, blockVars, mailboxVars, suggestionsVars>>
       \/ /\ screen = "queue" /\ QueueNext
          /\ UNCHANGED <<editVars, reclassifyVars, blockVars, mailboxVars, suggestionsVars>>
       \/ /\ screen = "block" /\ BlockNext
          /\ UNCHANGED <<editVars, reclassifyVars, queueVars, mailboxVars, suggestionsVars>>
       \/ /\ screen = "mailbox" /\ MailboxNext
          /\ UNCHANGED <<editVars, reclassifyVars, queueVars, blockVars, suggestionsVars>>
       \/ /\ screen = "suggestions" /\ SuggestionsNext
          /\ UNCHANGED <<editVars, reclassifyVars, queueVars, blockVars, mailboxVars>>

MCSpec == MCInit /\ [][MCNext]_AllVars

\* What was confirmed is written, once, however the keys repeat.
WritesAsConfirmed == OneWriteAtATime /\ OneWritePerConfirm /\ OneRoundPerPanel /\ TickedIsStored

\* A reclassification is applied as its dry run was shown, its cost agreed to.
AppliesWhatWasConfirmed == AppliesWhatWasShown /\ CostAskedTwice

\* What is listed is of the title above it, and comes to be listed.
ShownIsCurrent == ItemsOfTab /\ LoadingEnds /\ RowsAreCurrent

\* z offers the newest rule made here, and one that stands.
UndoOffers == OffersLatest /\ OfferStands
=============================================================================
