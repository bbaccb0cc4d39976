----------------------------- MODULE EmailSync -----------------------------
(***************************************************************************)
(* The two ingestion paths of one account's INBOX, which share its         *)
(* SyncState row: EmailSyncService.syncAccount, which stores RawEmail rows *)
(* for the pipeline, and ImapIngestionService.ingestAccount, which stores  *)
(* EmailMessage rows that nothing reads.  The API runs any number of       *)
(* requests of both at once.  A message is numbered by its delivery.       *)
(***************************************************************************)
EXTENDS Integers, FiniteSets

CONSTANTS
    SyncTasks, IngestTasks,  \* requests of the two kinds
    MaxMsgs,      \* bound: deliveries, and so UIDs
    MaxValidity,  \* bound: changes of UIDVALIDITY
    Limit,        \* options.limit of an ingest request
    Faults        \* what may go wrong: see FaultKinds

FaultKinds == {"imap", "db", "crash", "validity", "nosource"}
Tasks == SyncTasks \cup IngestTasks
Uids == 1..MaxMsgs

ASSUME SyncAssumption ==
    /\ SyncTasks \cap IngestTasks = {}
    /\ MaxMsgs \in Nat /\ MaxValidity \in Nat \ {0} /\ Limit \in Nat
    /\ Faults \subseteq FaultKinds

VARIABLES
    inbox,      \* inbox[u]: the message with UID u, 0: none
    delivered,  \* number of messages delivered
    nextUid, validity,  \* UIDNEXT and UIDVALIDITY of INBOX
    raws,       \* raws[u]: the RawEmail row for UID u, or NoRow
    mails,      \* UIDs with an EmailMessage row
    cursor,     \* SyncState: lastSyncedUid and status
    jobs        \* a request for each task

server == <<inbox, delivered, nextUid, validity>>
db == <<raws, mails, cursor>>
vars == <<inbox, delivered, nextUid, validity, raws, mails, cursor, jobs>>

NoRow == [msg |-> 0, val |-> 0]
Row == [msg : 0..MaxMsgs, val : 0..MaxValidity]
SyncState == [last : 0..MaxMsgs, status : {"IDLE", "SYNCING", "ERROR"}]

\* since: the watermark read at the start; todo: what the FETCH will answer;
\* val: UIDVALIDITY when INBOX was opened; last: lastUid
Job == [at : {"idle", "mark", "open", "fetch", "finish", "error"}, dryRun : BOOLEAN,
        since : 0..MaxMsgs, todo : SUBSET Uids, val : 0..MaxValidity, last : 0..MaxMsgs]
NoJob == [at |-> "idle", dryRun |-> FALSE, since |-> 0, todo |-> {}, val |-> 0, last |-> 0]

TypeOK ==
    /\ inbox \in [Uids -> 0..MaxMsgs]
    /\ delivered \in 0..MaxMsgs
    /\ nextUid \in 1..MaxMsgs + 1 /\ validity \in 1..MaxValidity
    /\ raws \in [Uids -> Row] /\ mails \subseteq Uids
    /\ cursor \in SyncState
    /\ jobs \in [Tasks -> Job]

Init ==
    /\ inbox = [u \in Uids |-> 0]
    /\ delivered = 0 /\ nextUid = 1 /\ validity = 1
    /\ raws = [u \in Uids |-> NoRow] /\ mails = {}
    /\ cursor = [last |-> 0, status |-> "IDLE"]
    /\ jobs = [t \in Tasks |-> NoJob]

----------------------------------------------------------------------------
(* A request.                                                              *)

Go(t, to) == jobs' = [jobs EXCEPT ![t].at = to]
Return(t) == jobs' = [jobs EXCEPT ![t] = NoJob]
Present == {u \in Uids : inbox[u] # 0}

\* syncState.upsert creates the row or reads it.
Begin(t) ==
    /\ jobs[t].at = "idle"
    /\ \E dry \in BOOLEAN :
         jobs' = [jobs EXCEPT ![t] =
           [NoJob EXCEPT !.at = "mark", !.dryRun = dry, !.since = cursor.last, !.last = cursor.last]]
    /\ UNCHANGED <<server, db>>

\* The first write is outside the try block: when it fails, nothing is undone.
Mark(t) ==
    /\ jobs[t].at = "mark"
    /\ \/ cursor' = [cursor EXCEPT !.status = "SYNCING"] /\ Go(t, "open")
       \/ "db" \in Faults /\ Return(t) /\ UNCHANGED cursor
    /\ UNCHANGED <<server, raws, mails>>

Largest(S) == {u \in S : \A v \in S : v <= u}

ListedBelowNewest(since) == {u \in Present : u > since} \ Largest(Present)
\* FETCH since+1:* on a mailbox that is not empty.  n:* with n beyond the
\* largest UID names the message with the largest UID.
Listed(since) == {u \in Present : u > since} \cup Largest(Present)

\* fetchMessages with newestFirst: the `limit` largest of the listed UIDs.
Newest(uids) == {u \in uids : Cardinality({v \in uids : v > u}) < Limit}

Opened(t, at, uids, last) ==
    jobs' = [jobs EXCEPT ![t] =
      [@ EXCEPT !.at = at, !.todo = uids, !.val = validity, !.last = last]]

SyncOpen(t) ==
    /\ jobs[t].at = "open" /\ t \in SyncTasks
    /\ IF Present = {} THEN Return(t)
       ELSE Opened(t, "fetch", Listed(jobs[t].since), jobs[t].last)
    /\ UNCHANGED <<server, db>>

\* The MailClient fetches every body before the first one is stored.
IngestOpen(t) ==
    /\ jobs[t].at = "open" /\ t \in IngestTasks
    /\ IF Present = {} THEN Opened(t, "finish", {}, 0)
       ELSE LET uids == Newest(Listed(jobs[t].since))
            IN \E last \in Largest(uids \cup {jobs[t].since}) : Opened(t, "fetch", uids, last)
    /\ UNCHANGED <<server, db>>

StoredRefreshed(u, val) ==
    [msg |-> IF raws[u] = NoRow THEN inbox[u] ELSE raws[u].msg, val |-> val]
\* rawEmail.upsert with an empty update.
Stored(u, val) == IF raws[u] = NoRow THEN [msg |-> inbox[u], val |-> val] ELSE raws[u]

\* One message of the FETCH is answered and stored.  A message that left
\* INBOX since is not answered; one without source is only counted.
SyncFetch(t) ==
    /\ jobs[t].at = "fetch" /\ t \in SyncTasks /\ jobs[t].val = validity
    /\ \E u \in jobs[t].todo :
         LET done == [jobs[t] EXCEPT !.todo = @ \ {u}]
             skip == jobs[t].dryRun \/ inbox[u] = 0
         IN \/ /\ skip \/ "nosource" \in Faults
               /\ jobs' = [jobs EXCEPT ![t] = done]
               /\ UNCHANGED raws
            \/ /\ ~skip
               /\ jobs' = [jobs EXCEPT ![t] = [done EXCEPT !.last = IF u > @ THEN u ELSE @]]
               /\ raws' = [raws EXCEPT ![u] = Stored(u, jobs[t].val)]
    /\ UNCHANGED <<server, mails, cursor>>

\* emailMessage.upsert: an error is logged and the loop goes on.
IngestStore(t) ==
    /\ jobs[t].at = "fetch" /\ t \in IngestTasks
    /\ \E u \in jobs[t].todo :
         /\ jobs' = [jobs EXCEPT ![t].todo = @ \ {u}]
         /\ \/ ~jobs[t].dryRun /\ mails' = mails \cup {u}
            \/ (jobs[t].dryRun \/ "db" \in Faults) /\ UNCHANGED mails
    /\ UNCHANGED <<server, raws, cursor>>

AdvancedToEnd(t) == IF jobs[t].dryRun THEN cursor.last ELSE nextUid - 1
\* The watermark of this run replaces the one in the row, whatever it is now.
Advanced(t) == IF jobs[t].dryRun THEN cursor.last ELSE jobs[t].last

Finish(t) ==
    /\ jobs[t].at = "finish" \/ (jobs[t].at = "fetch" /\ jobs[t].todo = {})
    /\ cursor' = [last |-> Advanced(t), status |-> "IDLE"]
    /\ Return(t)
    /\ UNCHANGED <<server, raws, mails>>

\* An IMAP command, the connection or a statement fails inside the try block.
Throw(t) ==
    /\ \/ jobs[t].at = "open" /\ "imap" \in Faults
       \/ jobs[t].at \in {"fetch", "finish"} /\ "db" \in Faults
       \/ jobs[t].at = "fetch" /\ t \in SyncTasks /\ ("imap" \in Faults \/ jobs[t].val # validity)
    /\ Go(t, "error")
    /\ UNCHANGED <<server, db>>

\* The catch block; its own write may fail and is then ignored.
Catch(t) ==
    /\ jobs[t].at = "error"
    /\ \/ cursor' = [cursor EXCEPT !.status = "ERROR"]
       \/ "db" \in Faults /\ UNCHANGED cursor
    /\ Return(t)
    /\ UNCHANGED <<server, raws, mails>>

Step(t) ==
    \/ Mark(t) \/ SyncOpen(t) \/ IngestOpen(t) \/ SyncFetch(t) \/ IngestStore(t)
    \/ Finish(t) \/ Throw(t) \/ Catch(t)

----------------------------------------------------------------------------
(* The mail server and the process.                                        *)

Deliver ==
    /\ delivered < MaxMsgs /\ nextUid <= MaxMsgs
    /\ delivered' = delivered + 1 /\ nextUid' = nextUid + 1
    /\ inbox' = [inbox EXCEPT ![nextUid] = delivered']
    /\ UNCHANGED <<validity, db, jobs>>

\* A message is deleted or moved, by the user or by the mailbox writer.
Expunge(u) ==
    /\ inbox[u] # 0
    /\ inbox' = [inbox EXCEPT ![u] = 0]
    /\ UNCHANGED <<delivered, nextUid, validity, db, jobs>>

\* The server numbers INBOX afresh, in the old order.
ResetValidity ==
    /\ "validity" \in Faults /\ validity < MaxValidity
    /\ validity' = validity + 1
    /\ LET rank(m) == Cardinality({u \in Present : inbox[u] <= m})
       IN inbox' = [u \in Uids |->
                      IF \E v \in Present : rank(inbox[v]) = u
                      THEN inbox[CHOOSE v \in Present : rank(inbox[v]) = u] ELSE 0]
    /\ nextUid' = Cardinality(Present) + 1
    /\ UNCHANGED <<delivered, db, jobs>>

Crash ==
    /\ "crash" \in Faults /\ \E t \in Tasks : jobs[t].at # "idle"
    /\ jobs' = [t \in Tasks |-> NoJob]
    /\ UNCHANGED <<server, db>>

Next ==
    \/ \E t \in Tasks : Begin(t) \/ Step(t)
    \/ \E u \in Uids : Expunge(u)
    \/ Deliver \/ ResetValidity \/ Crash

Spec == Init /\ [][Next]_vars

----------------------------------------------------------------------------
(* Properties                                                              *)

\* The watermark only passes stored messages: what is in INBOX at or below
\* it is in RawEmail, or no later sync would ever fetch it.
NoneSkipped == \A u \in Uids :
    inbox[u] # 0 /\ u <= cursor.last => raws[u].msg = inbox[u]

\* While a RawEmail's UIDVALIDITY is INBOX's, its UID names no other message:
\* what the mailbox writer trusts when it moves by UID.
RowNamesMessage == \A u \in Uids :
    inbox[u] # 0 /\ raws[u].val = validity => raws[u].msg = inbox[u]

\* As long as live runs keep reaching their end, whatever becomes of the
\* others, a message that stays in INBOX is stored.
RunsEnd == []<><<\E t \in SyncTasks : ~jobs[t].dryRun /\ Finish(t)>>_vars
EveryMessageStored == RunsEnd => \A u \in Uids :
    inbox[u] # 0 ~> (inbox[u] = 0 \/ raws[u].msg = inbox[u])
============================================================================
