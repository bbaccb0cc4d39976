----------------------------- MODULE MCMailbox -----------------------------
(***************************************************************************)
(* Instances of MailboxSystem for TLC.                                     *)
(***************************************************************************)
EXTENDS MailboxSystem, TLC

CONSTANTS m1, m2, i1, i2, i3, p1, p2, a1, a2, u1, u2, c1, c2

\* Message-IDs: all different, or one message without.
MidDistinct == [m \in Msgs |-> <<m>>]
MidOneNone == [m \in Msgs |-> IF m = m1 THEN None ELSE <<m>>]

\* Which messages are in INBOX at the start.
AllDelivered == [m \in Msgs |-> IF m = m1 THEN 1 ELSE 2]
NoneDelivered == [m \in Msgs |-> 0]
FirstDelivered == [m \in Msgs |-> IF m = m1 THEN 1 ELSE 0]

\* Apply, undo and reconcile requests in one process, or spread over two.
RawSymmetry == Permutations(RawIds)

OneProc == [t \in Tasks |-> p1]
TwoProcs == [t \in Tasks |-> IF t \in {a2, u2, c2} THEN p2 ELSE p1]
============================================================================
