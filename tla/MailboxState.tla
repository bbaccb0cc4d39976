--------------------------- MODULE MailboxState ---------------------------
(***************************************************************************)
(* The state that the mailbox writer, reconcile and the IMAP server share, *)
(* for one email account: the server's INBOX and Trash folders, the        *)
(* RawEmail and MailboxAction tables, and the jobs that are running in the *)
(* API processes.  Null is 0 for a number and None for a name.             *)
(***************************************************************************)
EXTENDS Integers, FiniteSets

CONSTANTS
    Msgs,        \* messages (contents) that may be delivered to the account
    None,        \* the null name
    Mid,         \* Mid[m]: Message-ID in the server's envelope of m, or None
    Garbled,     \* messages whose stored headers yield no Message-ID
    InitUid,     \* InitUid[m]: UID of m in INBOX initially, 0: not delivered
    RawIds,      \* ids of RawEmail rows
    MaxRows,     \* bound: number of MailboxAction rows
    MaxUid,      \* bound: largest UID of a folder
    MaxValidity, \* bound: changes of UIDVALIDITY, and one
    ChunkSize,   \* MOVE_CHUNK_SIZE
    Uidplus,     \* the server has UIDPLUS
    Procs,       \* API processes that share the database and the mailbox
    MoveTasks, UndoTasks, RecTasks,  \* request slots: apply, undo, reconcile
    ProcOf,      \* the process a task runs in
    Faults       \* what may go wrong: see FaultKinds

FaultKinds ==
    {"imap",      \* an IMAP command fails or its answer is lost
     "db",        \* a database statement fails
     "crash",     \* a process dies
     "hand",      \* the user moves or deletes mail in a mail client
     "validity",  \* the server changes a folder's UIDVALIDITY
     "legacy",    \* RawEmail rows without a stored UIDVALIDITY
     "overlap"}   \* reconcile runs while an undo is in progress

Tasks == MoveTasks \cup UndoTasks \cup RecTasks
RowIds == 1..MaxRows
Folders == {"INBOX", "Trash"}
MessageIds == {Mid[m] : m \in Msgs} \cup {None}

ASSUME MailboxAssumption ==
    /\ IsFiniteSet(Msgs) /\ None \notin Msgs \cup RawIds
    /\ DOMAIN Mid = Msgs /\ Garbled \subseteq Msgs
    /\ InitUid \in [Msgs -> Nat]
    /\ \A m, n \in Msgs : InitUid[m] = InitUid[n] /\ InitUid[m] # 0 => m = n
    /\ \A m \in Msgs : InitUid[m] <= Cardinality({n \in Msgs : InitUid[n] # 0})
    /\ MaxRows \in Nat /\ MaxUid \in Nat /\ MaxValidity \in Nat \ {0}
    /\ ChunkSize \in Nat \ {0} /\ Uidplus \in BOOLEAN
    /\ MoveTasks \cap UndoTasks = {} /\ MoveTasks \cap RecTasks = {}
    /\ UndoTasks \cap RecTasks = {}
    /\ ProcOf \in [Tasks -> Procs]
    /\ Faults \subseteq FaultKinds

VARIABLES
    box,      \* box[m]: folder that holds m, "none" before, "gone" after
    uid,      \* uid[m]: UID of m in its folder
    nextUid,  \* UIDNEXT of each folder
    validity, \* UIDVALIDITY of each folder
    raws,     \* RawEmail rows (all with mailbox INBOX)
    skipped,  \* RawEmails that have a `skipped` move row
    rows,     \* MailboxAction rows of the other statuses
    busy,     \* processes whose MailboxWriterService.busy has the account
    pc, mv, rs, rc  \* where each task is, and the locals of its job

server == <<box, uid, nextUid, validity>>
db == <<raws, skipped, rows>>
jobs == <<busy, pc, mv, rs, rc>>
vars == <<box, uid, nextUid, validity, raws, skipped, rows, busy, pc, mv, rs, rc>>

(***************************************************************************)
(* Tables.  `old` is createdAt < now - RECONCILE_MIN_AGE_MS; `hit` is a    *)
(* history variable: the message the server moved for the row.             *)
(***************************************************************************)
Status == {"free", "pending", "succeeded", "failed", "unknown", "undone"}
Row == [action : {"move", "restore"}, status : Status, raw : RawIds \cup {None},
        srcUid : Nat, srcVal : Nat, destUid : Nat, destVal : Nat,
        mid : MessageIds, undoOf : Nat, old : BOOLEAN, hit : Msgs \cup {None}]
FreeRow == [action |-> "move", status |-> "free", raw |-> None,
            srcUid |-> 0, srcVal |-> 0, destUid |-> 0, destVal |-> 0,
            mid |-> None, undoOf |-> 0, old |-> FALSE, hit |-> None]
Raw == [msg : Msgs \cup {None}, uid : Nat, val : Nat]
FreeRaw == [msg |-> None, uid |-> 0, val |-> 0]

\* extractMessageId(rawSource)
StoredMid(m) == IF m \in Garbled THEN None ELSE Mid[m]

\* ACTIVE_MOVE_STATUSES: what the partial unique indexes treat as active.
Active(r) == rows[r].action = "move" /\ rows[r].status \in {"pending", "succeeded", "unknown"}
\* The user has had it trashed: succeeded, or undone since.
Trashed(r) == rows[r].action = "move" /\ rows[r].status \in {"succeeded", "undone"}

\* Rows are numbered in the order of their creation.
NextRow(r) == r \in RowIds /\ rows[r].status = "free" /\ \A q \in 1..(r-1) : rows[q].status # "free"
TableFull == \A r \in RowIds : rows[r].status # "free"

(***************************************************************************)
(* Jobs.                                                                   *)
(***************************************************************************)
Target == [raw : RawIds, uid : Nat, val : Nat, mid : MessageIds]
Answer == {"none",     \* no UID MOVE was sent yet
           "copyuid",  \* OK with COPYUID
           "ok",       \* OK without COPYUID
           "false",    \* messageMove returned false
           "threw"}    \* messageMove threw

MoveJob == [undone : SUBSET RawIds, seen : SUBSET MessageIds,
            todo : SUBSET Target, val : Nat, batch : SUBSET Target,
            skip : SUBSET RawIds, held : SUBSET RowIds, answer : Answer,
            dest : [RowIds -> Nat], destVal : Nat,
            out : [RowIds -> {"succeeded", "failed", "unknown"}]]
NoMoveJob == [undone |-> {}, seen |-> {}, todo |-> {}, val |-> 0, batch |-> {},
              skip |-> {}, held |-> {}, answer |-> "none",
              dest |-> [r \in RowIds |-> 0], destVal |-> 0,
              out |-> [r \in RowIds |-> "unknown"]]

UndoJob == [orig : Nat, destUid : Nat, destVal : Nat, uid : Nat, val : Nat,
            row : Nat, answer : Answer, got : Nat, gotVal : Nat]
NoUndoJob == [orig |-> 0, destUid |-> 0, destVal |-> 0, uid |-> 0, val |-> 0,
              row |-> 0, answer |-> "none", got |-> 0, gotVal |-> 0]

Probe == [val : Nat, present : {"yes", "no", "na"}, hits : SUBSET Nat]
NoProbe == [val |-> 0, present |-> "na", hits |-> {}]
RecJob == [todo : SUBSET RowIds, snap : [RowIds -> Row], cur : Nat,
           claimed : BOOLEAN, source : Probe, uid : Nat, val : Nat,
           verdict : {"none", "stayed", "arrived"}]
NoRecJob == [todo |-> {}, snap |-> [r \in RowIds |-> FreeRow], cur |-> 0,
             claimed |-> FALSE, source |-> NoProbe, uid |-> 0, val |-> 0,
             verdict |-> "none"]

MovePcs == {"m_scan", "m_acquire", "m_connect", "m_fetch", "m_history",
            "m_insert", "m_send", "m_judge", "m_record"}
UndoPcs == {"u_claim", "u_locate", "u_insert", "u_send", "u_judge",
            "u_record", "u_relink", "u_release"}
RecPcs == {"r_source", "r_dest", "r_write"}

TypeOK ==
    /\ box \in [Msgs -> Folders \cup {"none", "gone"}]
    /\ uid \in [Msgs -> Nat]
    /\ nextUid \in [Folders -> Nat] /\ validity \in [Folders -> Nat]
    /\ raws \in [RawIds -> Raw] /\ skipped \subseteq RawIds
    /\ rows \in [RowIds -> Row]
    /\ busy \subseteq Procs
    /\ pc \in [Tasks -> {"idle"} \cup MovePcs \cup UndoPcs \cup RecPcs]
    /\ mv \in [MoveTasks -> MoveJob]
    /\ rs \in [UndoTasks -> UndoJob]
    /\ rc \in [RecTasks -> RecJob]

(***************************************************************************)
(* The IMAP server, and the lookups of imap-lookup.ts.                     *)
(***************************************************************************)
MsgsAt(f, u) == {m \in Msgs : box[m] = f /\ uid[m] = u}
Present(f, u) == MsgsAt(f, u) # {}
EnvelopeMid(f, u) == Mid[CHOOSE m \in Msgs : box[m] = f /\ uid[m] = u]

\* findAllByMessageId: every UID in f with exactly this Message-ID.
Hits(f, mid) == {uid[m] : m \in {n \in Msgs : mid # None /\ box[n] = f /\ Mid[n] = mid}}
\* searchByMessageId finds u: the highest such UID, 0 if there is none.
Found(f, mid, u) ==
    IF Hits(f, mid) = {} THEN u = 0
    ELSE u \in Hits(f, mid) /\ \A v \in Hits(f, mid) : v <= u

\* UIDs of the messages in moved, renumbered from first in their old order.
Renumbered(moved, first) ==
    [m \in Msgs |-> IF m \in moved
                    THEN first + Cardinality({n \in moved : uid[n] < uid[m]})
                    ELSE uid[m]]

\* UID MOVE of the source UIDs of the rows in `held`, from one folder to the
\* other: the server moves the messages in `moved` and answers `answer`.  A
\* UIDPLUS server names every message it moved in COPYUID; an error or a lost
\* answer says nothing of what was moved.
HasRoom(moved, f) == nextUid[f] + Cardinality(moved) <= MaxUid + 1
Named(held, f) == {m \in Msgs : box[m] = f /\ \E r \in held : rows[r].srcUid = uid[m]}
UidMove(held, from, to, moved, answer) ==
    /\ moved # {} => HasRoom(moved, to)
    /\ answer \in {"ok", "copyuid"} =>
         /\ moved = Named(held, from)
         /\ answer = IF Uidplus /\ moved # {} THEN "copyuid" ELSE "ok"
    /\ answer \in {"false", "threw"} => "imap" \in Faults \/ ~HasRoom(Named(held, from), to)
    /\ box' = [m \in Msgs |-> IF m \in moved THEN to ELSE box[m]]
    /\ uid' = Renumbered(moved, nextUid[to])
    /\ nextUid' = [nextUid EXCEPT ![to] = @ + Cardinality(moved)]
    /\ validity' = validity
    /\ rows' = [r \in RowIds |->
         IF r \in held /\ \E m \in moved : uid[m] = rows[r].srcUid
         THEN [rows[r] EXCEPT !.hit = CHOOSE m \in moved : uid[m] = rows[r].srcUid]
         ELSE rows[r]]
\* What COPYUID says of row r: the UID its message got, 0 when it names none.
CopyUid(r, held, to, moved, answer) ==
    IF answer = "copyuid" /\ r \in held /\ \E m \in moved : uid[m] = rows[r].srcUid
    THEN Renumbered(moved, nextUid[to])[CHOOSE m \in moved : uid[m] = rows[r].srcUid]
    ELSE 0

\* An active move of the RawEmail or of the UID: what (8) looks for, and what
\* the two partial unique indexes refuse.
ActiveMoveOfIgnoringUnknown(raw, u, val) == \E r \in RowIds :
    /\ Active(r) /\ rows[r].status # "unknown"
    /\ rows[r].raw = raw \/ (rows[r].srcUid = u /\ rows[r].srcVal = val)
ActiveMoveOf(raw, u, val) == \E r \in RowIds :
    Active(r) /\ (rows[r].raw = raw \/ (rows[r].srcUid = u /\ rows[r].srcVal = val))

\* relinkRawEmail: point the RawEmail at the restored UID, unless the UID is
\* unknown or another RawEmail holds it.
Relinked(raw, u, v) ==
    IF raw = None \/ u = 0 \/ \E r \in RawIds : raws[r].msg # None /\ raws[r].uid = u
    THEN raws
    ELSE [raws EXCEPT ![raw] = [msg |-> @.msg, uid |-> u, val |-> IF v = 0 THEN @.val ELSE v]]

\* The task's request is over: its locals are gone.
Forget(t) ==
    /\ pc' = [pc EXCEPT ![t] = "idle"]
    /\ mv' = [q \in MoveTasks |-> IF q = t THEN NoMoveJob ELSE mv[q]]
    /\ rs' = [q \in UndoTasks |-> IF q = t THEN NoUndoJob ELSE rs[q]]
    /\ rc' = [q \in RecTasks |-> IF q = t THEN NoRecJob ELSE rc[q]]
\* `finally { this.busy.delete(accountId) }`
Leave(t) == Forget(t) /\ busy' = busy \ {ProcOf[t]}
Goto(t, label) == pc' = [pc EXCEPT ![t] = label]
============================================================================
