--------------------------- MODULE EmailAccounts ---------------------------
(***************************************************************************)
(* Email accounts and their credentials: the Google connect flow, the      *)
(* refresh tokens it stores, getImapCredentials, which mints an access     *)
(* token for every IMAP user and may rotate or condemn the refresh token,  *)
(* and the removal of an account.  HTTP requests interleave at every await. *)
(*                                                                         *)
(* A refresh token is a number; Google knows whose it is and whether it is *)
(* still good.  Encryption is left out: no definition looks inside one.    *)
(***************************************************************************)
EXTENDS Integers, FiniteSets

CONSTANTS
    Ids,        \* account ids: used once
    Users,      \* Google accounts, by email
    Flows,      \* connect flows, each in one browser
    Minters,    \* sync, ingest, apply, undo and reconcile requests
    Removers,   \* DELETE requests
    MaxTokens,  \* bound: refresh tokens Google issues
    MaxFaults   \* bound: network errors, and deaths of the process

VARIABLES
    accounts,   \* EmailAccount rows
    owner,      \* whose each issued token is
    live,       \* the tokens Google accepts
    flows, mints, removals,
    faults      \* network errors and deaths so far

accountVars == <<accounts, owner, live, flows, mints, removals, faults>>
Fault == faults < MaxFaults /\ faults' = faults + 1

NoUser == "none"

ASSUME AccountsAssumption ==
    /\ MaxTokens \in Nat /\ MaxFaults \in Nat
    /\ NoUser \notin Users /\ 0 \notin Ids

Tokens == 1..MaxTokens
\* state: an id not used yet, a row, a deleted row; token 0: none;
\* flagged: needsReauth; mail: it has RawEmails; audit: it has MailboxActions
Account == [state : {"unused", "row", "gone"}, auth : {"password", "oauth"},
            user : Users \cup {NoUser}, token : 0..MaxTokens,
            flagged : BOOLEAN, mail : BOOLEAN, audit : BOOLEAN]
Unused == [state |-> "unused", auth |-> "password", user |-> NoUser, token |-> 0,
           flagged |-> FALSE, mail |-> FALSE, audit |-> FALSE]

\* id 0: a flow started with a label, to connect a new account
Flow == [at : {"idle", "pending", "exchange", "found", "update", "create"},
         id : Ids \cup {0}, token : 0..MaxTokens]
NoFlow == [at |-> "idle", id |-> 0, token |-> 0]
\* token: the one read, or after a rotation the one to store
Mint == [at : {"idle", "read", "ask", "store", "mark", "use"}, id : Ids \cup {0},
         token : 0..MaxTokens]
NoMint == [at |-> "idle", id |-> 0, token |-> 0]

AccountsTypeOK ==
    /\ accounts \in [Ids -> Account]
    /\ \A a \in Ids : accounts[a].state # "row" => accounts[a].token = 0 /\ ~accounts[a].flagged
    /\ owner \in [Tokens -> Users \cup {NoUser}]
    /\ live \subseteq {t \in Tokens : owner[t] # NoUser}
    /\ flows \in [Flows -> Flow] /\ mints \in [Minters -> Mint]
    /\ removals \in [Removers -> Ids \cup {0}]
    /\ faults \in 0..MaxFaults

AccountsInit ==
    /\ accounts = [a \in Ids |-> Unused]
    /\ owner = [t \in Tokens |-> NoUser] /\ live = {}
    /\ flows = [f \in Flows |-> NoFlow] /\ mints = [m \in Minters |-> NoMint]
    /\ removals = [r \in Removers |-> 0]
    /\ faults = 0

Exists(a) == a \in Ids /\ accounts[a].state = "row"
OwnedBy(t) == IF t \in Tokens THEN owner[t] ELSE NoUser
FreeIds == {a \in Ids : accounts[a].state = "unused"}

\* Google issues a token to user u, while the bound lasts.
Issued(t, u) ==
    /\ t \in Tokens /\ owner[t] = NoUser /\ \A s \in Tokens : s < t => owner[s] # NoUser
    /\ owner' = [owner EXCEPT ![t] = u]

\* POST /email-accounts: the password is stored.
CreatePassword(a, u) ==
    /\ a \in FreeIds
    /\ accounts' = [accounts EXCEPT ![a] = [Unused EXCEPT !.state = "row", !.user = u]]
    /\ UNCHANGED <<owner, live, flows, mints, removals, faults>>

FlagOnly(a, t) ==
    accounts' = IF Exists(a) THEN [accounts EXCEPT ![a].flagged = FALSE] ELSE accounts
\* updateRefreshToken, or the update of createOAuthAccount: the row must exist.
TokenStored(a, t) ==
    accounts' = IF Exists(a) THEN [accounts EXCEPT ![a].token = t, ![a].flagged = FALSE]
                ELSE accounts

----------------------------------------------------------------------------
(* Connecting: start, consent in the browser, callback.                    *)

FlowGoes(f, at) == flows' = [flows EXCEPT ![f].at = at]
FlowEnds(f) == flows' = [flows EXCEPT ![f] = NoFlow]

\* createAuthUrl remembers the state in memory.
Start(f) ==
    /\ flows[f].at = "idle"
    /\ \E id \in Ids \cup {0} : flows' = [flows EXCEPT ![f] = [NoFlow EXCEPT !.at = "pending", !.id = id]]
    /\ UNCHANGED <<accounts, owner, live, mints, removals, faults>>

\* consumeState: a state is good for one callback, and for ten minutes.  A
\* callback with an error, or without a code, leaves it for another one.
Callback(f) ==
    /\ flows[f].at = "pending"
    /\ FlowGoes(f, "exchange") \/ FlowEnds(f)
    /\ UNCHANGED <<accounts, owner, live, mints, removals, faults>>

\* exchangeCode: whoever consented, with a refresh token or without.
Exchange(f) ==
    /\ flows[f].at = "exchange"
    /\ \/ \E u \in Users, t \in Tokens :
            /\ Issued(t, u) /\ live' = live \cup {t}
            /\ flows' = [flows EXCEPT ![f].at = "found", ![f].token = t]
       \/ FlowEnds(f) /\ UNCHANGED <<owner, live>>
    /\ UNCHANGED <<accounts, mints, removals, faults>>

AnyUser(a, u) == Exists(a)
SameUser(a, u) == Exists(a) /\ accounts[a].user = u

\* The oauth accounts createOAuthAccount finds for an email.
Connected(u) == {a \in Ids : Exists(a) /\ accounts[a].auth = "oauth" /\ accounts[a].user = u}

\* The callback looks for the account: the one named at the start, which must
\* be the user's who consented, or any Gmail account of that user.
Find(f) ==
    /\ flows[f].at = "found"
    /\ LET u == OwnedBy(flows[f].token) id == flows[f].id
       IN \/ id # 0 /\ SameUser(id, u) /\ FlowGoes(f, "update")
          \/ id # 0 /\ ~SameUser(id, u) /\ FlowEnds(f)
          \/ id = 0 /\ \E a \in Connected(u) :
                         flows' = [flows EXCEPT ![f].at = "update", ![f].id = a]
          \/ id = 0 /\ Connected(u) = {} /\ FlowGoes(f, "create")
    /\ UNCHANGED <<accounts, owner, live, mints, removals, faults>>

Update(f) ==
    /\ flows[f].at = "update"
    /\ TokenStored(flows[f].id, flows[f].token)
    /\ FlowEnds(f)
    /\ UNCHANGED <<owner, live, mints, removals, faults>>

\* The insert; a database that fails it ends the callback with an error page.
Create(f) ==
    /\ flows[f].at = "create"
    /\ \/ \E a \in FreeIds :
            accounts' = [accounts EXCEPT ![a] =
              [Unused EXCEPT !.state = "row", !.auth = "oauth", !.user = OwnedBy(flows[f].token),
                             !.token = flows[f].token]]
       \/ UNCHANGED accounts
    /\ FlowEnds(f)
    /\ UNCHANGED <<owner, live, mints, removals, faults>>

FlowStep(f) == Callback(f) \/ Exchange(f) \/ Find(f) \/ Update(f) \/ Create(f)

----------------------------------------------------------------------------
(* getImapCredentials                                                      *)

MintEnds(m) == mints' = [mints EXCEPT ![m] = NoMint]

\* Every caller reads the account first and refuses one that needs reauth.
MintBegin(m, a) ==
    /\ mints[m].at = "idle" /\ Exists(a) /\ ~accounts[a].flagged
    /\ mints' = [mints EXCEPT ![m] = [NoMint EXCEPT !.at = "read", !.id = a]]
    /\ UNCHANGED <<accounts, owner, live, flows, removals, faults>>

\* getImapCredentials reads it again.
MintRead(m) ==
    /\ mints[m].at = "read"
    /\ LET a == mints[m].id
       IN \/ /\ Exists(a) /\ accounts[a].auth = "password"
             /\ mints' = [mints EXCEPT ![m].at = "use"]
          \/ /\ Exists(a) /\ accounts[a].auth = "oauth"
             /\ mints' = [mints EXCEPT ![m].at = "ask", ![m].token = accounts[a].token]
          \/ ~Exists(a) /\ MintEnds(m)
    /\ UNCHANGED <<accounts, owner, live, flows, removals, faults>>

\* refreshAccessToken: a new token of the same user may come with the answer,
\* and the old one may or may not live on.
MintMinted(m) ==
    /\ mints[m].at = "ask" /\ mints[m].token \in live
    /\ \/ /\ mints' = [mints EXCEPT ![m].at = "use"]
          /\ UNCHANGED <<owner, live>>
       \/ \E t \in Tokens :
            /\ Issued(t, OwnedBy(mints[m].token))
            /\ \E old \in SUBSET {mints[m].token} : live' = (live \ old) \cup {t}
            /\ mints' = [mints EXCEPT ![m].at = "store", ![m].token = t]
    /\ UNCHANGED <<accounts, flows, removals, faults>>

AnyError(m) == TRUE
InvalidGrant(m) == mints[m].token \notin live

\* An answer of Google's that is an error, or none: only invalid_grant
\* condemns the token.
MintFailed(m) ==
    /\ mints[m].at = "ask"
    /\ \/ mints[m].token \notin live /\ UNCHANGED faults
       \/ mints[m].token \in live /\ Fault
    /\ IF InvalidGrant(m) THEN mints' = [mints EXCEPT ![m].at = "mark"] ELSE MintEnds(m)
    /\ UNCHANGED <<accounts, owner, live, flows, removals>>

MintStore(m) ==
    /\ mints[m].at = "store"
    /\ TokenStored(mints[m].id, mints[m].token)
    /\ IF Exists(mints[m].id) THEN mints' = [mints EXCEPT ![m].at = "use"] ELSE MintEnds(m)
    /\ UNCHANGED <<owner, live, flows, removals, faults>>

ThrowsUnmarked(a) == accounts
MarkNeedsReauth(a) == IF Exists(a) THEN [accounts EXCEPT ![a].flagged = TRUE] ELSE accounts
MintMark(m) ==
    /\ mints[m].at = "mark"
    /\ accounts' = MarkNeedsReauth(mints[m].id)
    /\ MintEnds(m)
    /\ UNCHANGED <<owner, live, flows, removals, faults>>

\* With the credentials a caller stores mail, moves mail, or neither.
Use(m) ==
    /\ mints[m].at = "use"
    /\ LET a == mints[m].id
       IN \/ Exists(a) /\ accounts' = [accounts EXCEPT ![a].mail = TRUE]
          \/ Exists(a) /\ accounts[a].mail /\ accounts' = [accounts EXCEPT ![a].audit = TRUE]
          \/ UNCHANGED accounts
    /\ MintEnds(m)
    /\ UNCHANGED <<owner, live, flows, removals, faults>>

MintStep(m) == MintRead(m) \/ MintMinted(m) \/ MintFailed(m) \/ MintStore(m) \/ MintMark(m) \/ Use(m)

----------------------------------------------------------------------------
(* DELETE /email-accounts/:id                                              *)

RemoveBegin(r, a) ==
    /\ removals[r] = 0 /\ Exists(a) /\ ~accounts[a].mail /\ ~accounts[a].audit
    /\ removals' = [removals EXCEPT ![r] = a]
    /\ UNCHANGED <<accounts, owner, live, flows, mints, faults>>

Cascades(a) == TRUE
\* MailboxAction rows restrict the delete; RawEmail rows go with the account.
Restricted(a) == ~accounts[a].audit

RemoveDelete(r) ==
    /\ removals[r] # 0
    /\ LET a == removals[r]
       IN accounts' = IF Exists(a) /\ Restricted(a)
                      THEN [accounts EXCEPT ![a] = [@ EXCEPT !.state = "gone", !.token = 0,
                                                             !.flagged = FALSE]]
                      ELSE accounts
    /\ removals' = [removals EXCEPT ![r] = 0]
    /\ UNCHANGED <<owner, live, flows, mints, faults>>

----------------------------------------------------------------------------
Revoke(t) ==
    /\ t \in live /\ live' = live \ {t}
    /\ UNCHANGED <<accounts, owner, flows, mints, removals, faults>>

\* The states of flows are lost with the process, and its requests.
AccountsCrash ==
    /\ Fault
    /\ flows' = [f \in Flows |-> NoFlow] /\ mints' = [m \in Minters |-> NoMint]
    /\ removals' = [r \in Removers |-> 0]
    /\ UNCHANGED <<accounts, owner, live>>

AccountsNext ==
    \/ \E a \in Ids, u \in Users : CreatePassword(a, u)
    \/ \E f \in Flows : Start(f) \/ FlowStep(f)
    \/ \E m \in Minters : MintStep(m) \/ \E a \in Ids : MintBegin(m, a)
    \/ \E r \in Removers : RemoveDelete(r) \/ \E a \in Ids : RemoveBegin(r, a)
    \/ \E t \in Tokens : Revoke(t)
    \/ AccountsCrash

AccountsSpec == AccountsInit /\ [][AccountsNext]_accountVars

\* Requests end, and each account is synced again and again.
AccountsFairness == \A m \in Minters :
    /\ WF_accountVars(MintStep(m))
    /\ \A a \in Ids : SF_accountVars(MintBegin(m, a))

----------------------------------------------------------------------------
(* Properties                                                              *)

\* "Consented Google account does not match": an account only ever holds
\* refresh tokens of the user whose mailbox it is.
TokenOfUser == \A a \in Ids :
    accounts[a].token # 0 => OwnedBy(accounts[a].token) = accounts[a].user

\* Only a token that Google itself refused makes an account need reauth, not a
\* network error; a token stored since may be good.
FlagIsEarned == [][\A a \in Ids : accounts'[a].flagged /\ ~accounts[a].flagged =>
    \E m \in Minters : mints[m].id = a /\ mints[m].token # 0 /\ mints[m].token \notin live]_accountVars

\* "Stays failed until a human re-consents": the flag is taken away only
\* together with the token it was about.
FlaggedUntilConsent == [][\A a \in Ids :
    accounts[a].flagged /\ Exists(a) /\ ~accounts'[a].flagged =>
        accounts'[a].token # accounts[a].token \/ accounts'[a].state = "gone"]_accountVars

\* The flag follows the token it is about.
FlagFollowsToken == FlagIsEarned /\ FlaggedUntilConsent

\* "It never silently degrades": a token that is no longer good is noticed.
DeadIsFlagged == \A a \in Ids :
    (Exists(a) /\ accounts[a].auth = "oauth" /\ accounts[a].token \notin live)
        ~> (~Exists(a) \/ accounts[a].flagged \/ accounts[a].token \in live)

\* The audit trail of mailbox writes outlives every attempt to delete its
\* account, also the one whose check came before the first write.
AuditKept == [][\A a \in Ids : accounts'[a].state = "gone" /\ Exists(a) => ~accounts[a].audit]_accountVars
============================================================================
