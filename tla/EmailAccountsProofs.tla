------------------------ MODULE EmailAccountsProofs ------------------------
(***************************************************************************)
(* An account only ever holds refresh tokens of the Google account it was  *)
(* connected to; only a token that Google refused flags it, and only       *)
(* another token takes the flag away; and no deletion takes an account     *)
(* whose mailbox writes are on record.                                     *)
(***************************************************************************)
EXTENDS EmailAccounts, TLAPS

----------------------------------------------------------------------------
(* The inductive invariant.                                                *)

IsIssued(t) == t \in Tokens /\ owner[t] # NoUser
\* What an id was once given to is never another user's.
Given(a, t) == a \in Ids /\ accounts[a].state # "unused" /\ owner[t] = accounts[a].user

Carries(f) == flows[f].at \in {"found", "update", "create"}
Stores(m) == mints[m].at = "store"

\* An account holds an issued token of its user, and an OAuth account one.
RowsRight == \A a \in Ids :
    /\ accounts[a].token # 0 => IsIssued(accounts[a].token) /\ Given(a, accounts[a].token)
    /\ accounts[a].state = "row" /\ accounts[a].auth = "oauth" => accounts[a].token # 0

\* A callback brings an issued token, to an account of its user.
FlowsRight == \A f \in Flows :
    /\ Carries(f) => IsIssued(flows[f].token)
    /\ flows[f].at = "update" => Given(flows[f].id, flows[f].token)

\* A request works with a token of its account's user; one about to flag the
\* account has seen its token refused.
MintsRight == \A m \in Minters :
    /\ mints[m].at # "idle" => mints[m].id \in Ids /\ accounts[mints[m].id].state # "unused"
    /\ mints[m].token # 0 => IsIssued(mints[m].token) /\ Given(mints[m].id, mints[m].token)
    /\ mints[m].at \in {"ask", "store", "mark"} => mints[m].token # 0
    /\ mints[m].at = "mark" => mints[m].token \notin live

\* A token on its way to be stored is in no account, and nobody else has it.
BroughtIsNew == \A f \in Flows : Carries(f) =>
    /\ \A a \in Ids : accounts[a].token # flows[f].token
    /\ \A g \in Flows \ {f} : Carries(g) => flows[g].token # flows[f].token
StoredIsNew == \A m \in Minters : Stores(m) =>
    /\ \A a \in Ids : accounts[a].token # mints[m].token
    /\ \A n \in Minters \ {m} : Stores(n) => mints[n].token # mints[m].token
BroughtIsNotStored == \A f \in Flows, m \in Minters :
    Carries(f) /\ Stores(m) => mints[m].token # flows[f].token

Right == /\ AccountsTypeOK /\ RowsRight /\ FlowsRight /\ MintsRight
         /\ BroughtIsNew /\ StoredIsNew /\ BroughtIsNotStored

USE AccountsAssumption DEF AccountsAssumption, Tokens

----------------------------------------------------------------------------
LEMMA AccountsInitRight == AccountsInit => Right
  BY DEF AccountsInit, Right, AccountsTypeOK, RowsRight, FlowsRight, MintsRight, BroughtIsNew,
         StoredIsNew, BroughtIsNotStored, Carries, Stores, Account, Unused, Flow, NoFlow, Mint, NoMint

\* The records that steps begin with.
LEMMA EmptyRecords ==
    /\ Unused \in Account /\ Unused.token = 0 /\ Unused.auth = "password"
    /\ ~Unused.flagged /\ ~Unused.audit
    /\ NoFlow \in Flow /\ NoFlow.at = "idle"
    /\ NoMint \in Mint /\ NoMint.at = "idle" /\ NoMint.token = 0
  BY DEF Unused, Account, NoFlow, Flow, NoMint, Mint

----------------------------------------------------------------------------
(* What becomes of a flow, a request or a row when some of its fields change. *)

FlowOnly(f) == flows' \in [Flows -> Flow] /\ \A g \in Flows \ {f} : flows'[g] = flows[g]
MintOnly(m) == mints' \in [Minters -> Mint] /\ \A n \in Minters \ {m} : mints'[n] = mints[n]
RowOnly(a) == accounts' \in [Ids -> Account] /\ \A b \in Ids \ {a} : accounts'[b] = accounts[b]
\* A row keeps these; one that is not there holds nothing.
RowStays(a) == /\ accounts'[a].state = accounts[a].state /\ accounts'[a].auth = accounts[a].auth
               /\ accounts'[a].user = accounts[a].user
Empty == \A a \in Ids : accounts'[a].state # "row" => accounts'[a].token = 0 /\ ~accounts'[a].flagged

LEMMA FlowGoesDoes ==
  ASSUME AccountsTypeOK, NEW f \in Flows, NEW at \in {"exchange", "update", "create"}, FlowGoes(f, at)
  PROVE  FlowOnly(f) /\ flows'[f].at = at /\ flows'[f].id = flows[f].id /\ flows'[f].token = flows[f].token
<1> DEFINE x == [flows[f] EXCEPT !.at = at]
<1>1. flows[f] \in Flow /\ flows \in [Flows -> Flow]
  BY DEF AccountsTypeOK
<1>2. x \in Flow /\ x.at = at /\ x.id = flows[f].id /\ x.token = flows[f].token
  BY <1>1 DEF Flow
<1>3. flows' = [flows EXCEPT ![f] = x]
  BY DEF FlowGoes
<1> QED
  BY <1>1, <1>2, <1>3 DEF FlowOnly

LEMMA FlowPutDoes ==
  ASSUME AccountsTypeOK, NEW f \in Flows, NEW x \in Flow, flows' = [flows EXCEPT ![f] = x]
  PROVE  FlowOnly(f) /\ flows'[f] = x
  BY DEF AccountsTypeOK, FlowOnly

LEMMA FlowEndsDoes ==
  ASSUME AccountsTypeOK, NEW f \in Flows, FlowEnds(f)
  PROVE  FlowOnly(f) /\ flows'[f].at = "idle"
  BY EmptyRecords, FlowPutDoes DEF FlowEnds

LEMMA MintPutDoes ==
  ASSUME AccountsTypeOK, NEW m \in Minters, NEW x \in Mint, mints' = [mints EXCEPT ![m] = x]
  PROVE  MintOnly(m) /\ mints'[m] = x
  BY DEF AccountsTypeOK, MintOnly

LEMMA MintEndsDoes ==
  ASSUME AccountsTypeOK, NEW m \in Minters, MintEnds(m)
  PROVE  MintOnly(m) /\ mints'[m].at = "idle" /\ mints'[m].token = 0
  BY EmptyRecords, MintPutDoes DEF MintEnds

LEMMA MintGoesDoes ==
  ASSUME AccountsTypeOK, NEW m \in Minters, NEW at \in {"ask", "store", "mark", "use"}, NEW t \in 0..MaxTokens,
         mints' = [mints EXCEPT ![m] = [mints[m] EXCEPT !.at = at, !.token = t]]
  PROVE  MintOnly(m) /\ mints'[m].at = at /\ mints'[m].id = mints[m].id /\ mints'[m].token = t
<1> DEFINE x == [mints[m] EXCEPT !.at = at, !.token = t]
<1>1. mints[m] \in Mint
  BY DEF AccountsTypeOK
<1>2. x \in Mint /\ x.at = at /\ x.id = mints[m].id /\ x.token = t
  BY <1>1 DEF Mint
<1> QED
  BY <1>2, MintPutDoes

LEMMA MintAtDoes ==
  ASSUME AccountsTypeOK, NEW m \in Minters, NEW at \in {"ask", "store", "mark", "use"},
         mints' = [mints EXCEPT ![m].at = at]
  PROVE  MintOnly(m) /\ mints'[m].at = at /\ mints'[m].id = mints[m].id /\ mints'[m].token = mints[m].token
<1> DEFINE x == [mints[m] EXCEPT !.at = at]
<1>1. mints[m] \in Mint
  BY DEF AccountsTypeOK
<1>2. x \in Mint /\ x.at = at /\ x.id = mints[m].id /\ x.token = mints[m].token
  BY <1>1 DEF Mint
<1>3. mints' = [mints EXCEPT ![m] = x]
  OBVIOUS
<1> QED
  BY <1>2, <1>3, MintPutDoes

LEMMA RowPutDoes ==
  ASSUME AccountsTypeOK, NEW a \in Ids, NEW r \in Account, accounts' = [accounts EXCEPT ![a] = r],
         r.state # "row" => r.token = 0 /\ ~r.flagged
  PROVE  RowOnly(a) /\ accounts'[a] = r /\ Empty
  BY DEF AccountsTypeOK, RowOnly, Empty

LEMMA TokenStoredDoes ==
  ASSUME AccountsTypeOK, NEW a, NEW t \in 0..MaxTokens, TokenStored(a, t)
  PROVE  IF Exists(a) THEN /\ RowOnly(a) /\ RowStays(a) /\ accounts'[a].token = t /\ Empty
                           /\ accounts'[a].audit = accounts[a].audit
         ELSE UNCHANGED accounts
<1>1. CASE Exists(a)
  <2> DEFINE r == [accounts[a] EXCEPT !.token = t, !.flagged = FALSE]
  <2>1. accounts[a] \in Account /\ a \in Ids /\ accounts[a].state = "row"
    BY <1>1 DEF AccountsTypeOK, Exists
  <2>2. /\ r \in Account /\ r.token = t /\ r.state = accounts[a].state /\ r.auth = accounts[a].auth
        /\ r.user = accounts[a].user /\ r.audit = accounts[a].audit
    BY <2>1 DEF Account
  <2>3. accounts' = [accounts EXCEPT ![a] = r]
    BY <1>1, <2>1 DEF TokenStored, AccountsTypeOK
  <2> HIDE DEF r
  <2> QED
    BY <1>1, <2>1, <2>2, <2>3, RowPutDoes DEF RowStays
<1> QED
  BY <1>1 DEF TokenStored

\* The row of an account that was removed.
LEMMA GoneRow ==
  ASSUME NEW r \in Account
  PROVE  LET row == [r EXCEPT !.state = "gone", !.token = 0, !.flagged = FALSE]
         IN /\ row \in Account /\ row.state = "gone" /\ row.token = 0 /\ row.flagged = FALSE
            /\ row.user = r.user
<1> DEFINE row == [r EXCEPT !.state = "gone", !.token = 0, !.flagged = FALSE]
<1>1. 0 \in 0..MaxTokens
  OBVIOUS
<1>2. row \in Account
  BY <1>1 DEF Account
<1>3. row.state = "gone" /\ row.token = 0 /\ row.user = r.user
  BY DEF Account
<1>4. row.flagged = FALSE
  BY DEF Account
<1> QED
  BY <1>2, <1>3, <1>4

\* A mark of a row that is there changes nothing of whose it is.
LEMMA MarkDoes ==
  ASSUME AccountsTypeOK, NEW a,
         \/ UNCHANGED accounts
         \/ Exists(a) /\ accounts' = [accounts EXCEPT ![a].flagged = TRUE]
         \/ Exists(a) /\ accounts' = [accounts EXCEPT ![a].mail = TRUE]
         \/ Exists(a) /\ accounts' = [accounts EXCEPT ![a].audit = TRUE]
  PROVE  /\ accounts' \in [Ids -> Account] /\ Empty
         /\ \A b \in Ids : RowStays(b) /\ accounts'[b].token = accounts[b].token
<1>1. ASSUME NEW r \in Account, Exists(a), accounts' = [accounts EXCEPT ![a] = r],
             r.state = accounts[a].state, r.auth = accounts[a].auth, r.user = accounts[a].user,
             r.token = accounts[a].token
      PROVE  /\ accounts' \in [Ids -> Account] /\ Empty
             /\ \A b \in Ids : RowStays(b) /\ accounts'[b].token = accounts[b].token
  BY <1>1, RowPutDoes DEF Exists, RowOnly, RowStays
<1>2. CASE UNCHANGED accounts
  BY <1>2 DEF AccountsTypeOK, Empty, RowStays
<1>3. CASE Exists(a)
  <2>1. accounts[a] \in Account /\ accounts \in [Ids -> Account] /\ a \in Ids
    BY <1>3 DEF AccountsTypeOK, Exists
  <2>2. CASE accounts' = [accounts EXCEPT ![a].flagged = TRUE]
    <3> DEFINE r == [accounts[a] EXCEPT !.flagged = TRUE]
    <3>1. /\ r \in Account /\ r.state = accounts[a].state /\ r.auth = accounts[a].auth
          /\ r.user = accounts[a].user /\ r.token = accounts[a].token
      BY <2>1 DEF Account
    <3>2. accounts' = [accounts EXCEPT ![a] = r]
      BY <2>2
    <3> QED
      BY <1>1, <1>3, <3>1, <3>2
  <2>3. CASE accounts' = [accounts EXCEPT ![a].mail = TRUE]
    <3> DEFINE r == [accounts[a] EXCEPT !.mail = TRUE]
    <3>1. /\ r \in Account /\ r.state = accounts[a].state /\ r.auth = accounts[a].auth
          /\ r.user = accounts[a].user /\ r.token = accounts[a].token
      BY <2>1 DEF Account
    <3>2. accounts' = [accounts EXCEPT ![a] = r]
      BY <2>3
    <3> QED
      BY <1>1, <1>3, <3>1, <3>2
  <2>4. CASE accounts' = [accounts EXCEPT ![a].audit = TRUE]
    <3> DEFINE r == [accounts[a] EXCEPT !.audit = TRUE]
    <3>1. /\ r \in Account /\ r.state = accounts[a].state /\ r.auth = accounts[a].auth
          /\ r.user = accounts[a].user /\ r.token = accounts[a].token
      BY <2>1 DEF Account
    <3>2. accounts' = [accounts EXCEPT ![a] = r]
      BY <2>4
    <3> QED
      BY <1>1, <1>3, <3>1, <3>2
  <2> QED
    BY <1>2, <2>2, <2>3, <2>4
<1> QED
  BY <1>2, <1>3

----------------------------------------------------------------------------
(* Each action keeps the invariant: what it does, field by field, and then *)
(* each part.                                                              *)

LEMMA CreatePasswordKeeps ==
  ASSUME Right, NEW a \in Ids, NEW u \in Users, CreatePassword(a, u)
  PROVE  Right'
<1>1. UNCHANGED <<owner, live, flows, mints, removals, faults>>
  BY DEF CreatePassword
<1>2. /\ RowOnly(a)
      /\ Empty
      /\ accounts[a].state = "unused" /\ accounts'[a].state = "row"
      /\ accounts'[a].auth = "password" /\ accounts'[a].token = 0
  <2> DEFINE r == [Unused EXCEPT !.state = "row", !.user = u]
  <2>1. r \in Account /\ r.state = "row" /\ r.auth = "password" /\ r.token = 0
    BY EmptyRecords DEF Account
  <2>2. accounts' = [accounts EXCEPT ![a] = r] /\ accounts[a].state = "unused"
    BY DEF CreatePassword, FreeIds
  <2> HIDE DEF r
  <2> QED
    BY <2>1, <2>2, RowPutDoes DEF Right
<1>3. AccountsTypeOK'
  BY <1>1, <1>2 DEF Right, AccountsTypeOK, FlowOnly, MintOnly, RowOnly, RowStays, Empty
<1>4. RowsRight'
  BY <1>1, <1>2 DEF Right, RowsRight, IsIssued, Given, FlowOnly, MintOnly, RowOnly, RowStays, Empty
<1>5. FlowsRight'
  BY <1>1, <1>2 DEF Right, RowsRight, FlowsRight, IsIssued, Given, Carries, FlowOnly,
     MintOnly, RowOnly, RowStays, Empty
<1>6. MintsRight'
  BY <1>1, <1>2 DEF Right, RowsRight, MintsRight, IsIssued, Given, FlowOnly, MintOnly,
     RowOnly, RowStays, Empty
<1>7. BroughtIsNew'
  BY <1>1, <1>2 DEF Right, RowsRight, FlowsRight, BroughtIsNew, IsIssued, Carries, FlowOnly,
     MintOnly, RowOnly, RowStays, Empty
<1>8. StoredIsNew'
  BY <1>1, <1>2 DEF Right, RowsRight, MintsRight, StoredIsNew, IsIssued, Stores, FlowOnly,
     MintOnly, RowOnly, RowStays, Empty
<1>9. BroughtIsNotStored'
  BY <1>1, <1>2 DEF Right, FlowsRight, MintsRight, BroughtIsNotStored, IsIssued, Carries,
     Stores, FlowOnly, MintOnly, RowOnly, RowStays, Empty
<1> QED
  BY <1>3, <1>4, <1>5, <1>6, <1>7, <1>8, <1>9 DEF Right

LEMMA StartKeeps ==
  ASSUME Right, NEW f \in Flows, Start(f)
  PROVE  Right'
<1>1. UNCHANGED <<accounts, owner, live, mints, removals, faults>>
  BY DEF Start
<1>2. /\ FlowOnly(f)
      /\ flows'[f].at = "pending"
  <2>1. PICK id \in Ids \cup {0} : flows' = [flows EXCEPT ![f] = [NoFlow EXCEPT !.at = "pending", !.id = id]]
    BY DEF Start
  <2> DEFINE x == [NoFlow EXCEPT !.at = "pending", !.id = id]
  <2>2. x \in Flow /\ x.at = "pending"
    BY EmptyRecords DEF Flow
  <2> HIDE DEF x
  <2>3. flows' = [flows EXCEPT ![f] = x]
    BY <2>1 DEF x
  <2> QED
    BY <2>2, <2>3, FlowPutDoes DEF Right
<1>3. AccountsTypeOK'
  BY <1>1, <1>2 DEF Right, AccountsTypeOK, FlowOnly, MintOnly, RowOnly, RowStays, Empty
<1>4. RowsRight'
  BY <1>1, <1>2 DEF Right, RowsRight, IsIssued, Given, FlowOnly, MintOnly, RowOnly, RowStays, Empty
<1>5. FlowsRight'
  BY <1>1, <1>2 DEF Right, RowsRight, FlowsRight, IsIssued, Given, Carries, FlowOnly,
     MintOnly, RowOnly, RowStays, Empty
<1>6. MintsRight'
  BY <1>1, <1>2 DEF Right, RowsRight, MintsRight, IsIssued, Given, FlowOnly, MintOnly,
     RowOnly, RowStays, Empty
<1>7. BroughtIsNew'
  BY <1>1, <1>2 DEF Right, RowsRight, FlowsRight, BroughtIsNew, IsIssued, Carries, FlowOnly,
     MintOnly, RowOnly, RowStays, Empty
<1>8. StoredIsNew'
  BY <1>1, <1>2 DEF Right, RowsRight, MintsRight, StoredIsNew, IsIssued, Stores, FlowOnly,
     MintOnly, RowOnly, RowStays, Empty
<1>9. BroughtIsNotStored'
  BY <1>1, <1>2 DEF Right, FlowsRight, MintsRight, BroughtIsNotStored, IsIssued, Carries,
     Stores, FlowOnly, MintOnly, RowOnly, RowStays, Empty
<1> QED
  BY <1>3, <1>4, <1>5, <1>6, <1>7, <1>8, <1>9 DEF Right

LEMMA CallbackKeeps ==
  ASSUME Right, NEW f \in Flows, Callback(f)
  PROVE  Right'
<1>1. UNCHANGED <<accounts, owner, live, mints, removals, faults>>
  BY DEF Callback
<1>2. /\ FlowOnly(f)
      /\ flows'[f].at \in {"idle", "exchange"}
  BY FlowGoesDoes, FlowEndsDoes DEF Callback, Right
<1>3. AccountsTypeOK'
  BY <1>1, <1>2 DEF Right, AccountsTypeOK, FlowOnly, MintOnly, RowOnly, RowStays, Empty
<1>4. RowsRight'
  BY <1>1, <1>2 DEF Right, RowsRight, IsIssued, Given, FlowOnly, MintOnly, RowOnly, RowStays, Empty
<1>5. FlowsRight'
  BY <1>1, <1>2 DEF Right, RowsRight, FlowsRight, IsIssued, Given, Carries, FlowOnly,
     MintOnly, RowOnly, RowStays, Empty
<1>6. MintsRight'
  BY <1>1, <1>2 DEF Right, RowsRight, MintsRight, IsIssued, Given, FlowOnly, MintOnly,
     RowOnly, RowStays, Empty
<1>7. BroughtIsNew'
  BY <1>1, <1>2 DEF Right, RowsRight, FlowsRight, BroughtIsNew, IsIssued, Carries, FlowOnly,
     MintOnly, RowOnly, RowStays, Empty
<1>8. StoredIsNew'
  BY <1>1, <1>2 DEF Right, RowsRight, MintsRight, StoredIsNew, IsIssued, Stores, FlowOnly,
     MintOnly, RowOnly, RowStays, Empty
<1>9. BroughtIsNotStored'
  BY <1>1, <1>2 DEF Right, FlowsRight, MintsRight, BroughtIsNotStored, IsIssued, Carries,
     Stores, FlowOnly, MintOnly, RowOnly, RowStays, Empty
<1> QED
  BY <1>3, <1>4, <1>5, <1>6, <1>7, <1>8, <1>9 DEF Right

LEMMA ExchangeKeeps ==
  ASSUME Right, NEW f \in Flows, Exchange(f)
  PROVE  Right'
<1>1. UNCHANGED <<accounts, mints, removals, faults>>
  BY DEF Exchange
<1>2. /\ owner' \in [Tokens -> Users \cup {NoUser}]
      /\ \A s \in Tokens : owner[s] # NoUser => owner'[s] = owner[s]
      /\ live' \subseteq {s \in Tokens : owner'[s] # NoUser}
      /\ \A s \in live' : s \in live \/ owner[s] = NoUser
  BY DEF Exchange, Issued, Right, AccountsTypeOK
<1>3. /\ FlowOnly(f)
      /\ \/ flows'[f].at = "idle" /\ UNCHANGED <<owner, live>>
         \/ \E t \in Tokens :
              /\ flows'[f].at = "found" /\ flows'[f].token = t
              /\ owner[t] = NoUser /\ owner'[t] # NoUser
  <2>1. ASSUME NEW u \in Users, NEW t \in Tokens,
               flows' = [flows EXCEPT ![f].at = "found", ![f].token = t]
        PROVE  FlowOnly(f) /\ flows'[f].at = "found" /\ flows'[f].token = t
    <3> DEFINE x == [flows[f] EXCEPT !.at = "found", !.token = t]
    <3>1. flows[f] \in Flow /\ flows \in [Flows -> Flow] /\ t \in 0..MaxTokens
      BY DEF Right, AccountsTypeOK
    <3>2. x \in Flow /\ x.at = "found" /\ x.token = t
      BY <3>1 DEF Flow
    <3>3. flows' = [flows EXCEPT ![f] = x]
      BY <2>1, <3>1
    <3> HIDE DEF x
    <3> QED
      BY <3>2, <3>3, FlowPutDoes DEF Right
  <2>2. CASE FlowEnds(f) /\ UNCHANGED <<owner, live>>
    BY <2>2, FlowEndsDoes DEF Right
  <2>3. CASE \E u \in Users, t \in Tokens :
               Issued(t, u) /\ flows' = [flows EXCEPT ![f].at = "found", ![f].token = t]
    BY <2>1, <2>3 DEF Issued, Right, AccountsTypeOK
  <2> QED
    BY <2>2, <2>3 DEF Exchange
<1>4. AccountsTypeOK'
  BY <1>1, <1>2, <1>3 DEF Right, AccountsTypeOK, FlowOnly, MintOnly, RowOnly, RowStays, Empty
<1>5. RowsRight'
  BY <1>1, <1>2, <1>3 DEF Right, RowsRight, IsIssued, Given, FlowOnly, MintOnly, RowOnly,
     RowStays, Empty
<1>6. FlowsRight'
  BY <1>1, <1>2, <1>3 DEF Right, RowsRight, FlowsRight, IsIssued, Given, Carries, FlowOnly,
     MintOnly, RowOnly, RowStays, Empty
<1>7. MintsRight'
  BY <1>1, <1>2, <1>3 DEF Right, RowsRight, MintsRight, IsIssued, Given, FlowOnly, MintOnly,
     RowOnly, RowStays, Empty
<1>8. BroughtIsNew'
  BY <1>1, <1>2, <1>3 DEF Right, RowsRight, FlowsRight, BroughtIsNew, IsIssued, Carries,
     FlowOnly, MintOnly, RowOnly, RowStays, Empty
<1>9. StoredIsNew'
  BY <1>1, <1>2, <1>3 DEF Right, RowsRight, MintsRight, StoredIsNew, IsIssued, Stores,
     FlowOnly, MintOnly, RowOnly, RowStays, Empty
<1>10. BroughtIsNotStored'
  BY <1>1, <1>2, <1>3 DEF Right, FlowsRight, MintsRight, BroughtIsNotStored, IsIssued,
     Carries, Stores, FlowOnly, MintOnly, RowOnly, RowStays, Empty
<1> QED
  BY <1>4, <1>5, <1>6, <1>7, <1>8, <1>9, <1>10 DEF Right

LEMMA FindKeeps ==
  ASSUME Right, NEW f \in Flows, Find(f)
  PROVE  Right'
<1>1. UNCHANGED <<accounts, owner, live, mints, removals, faults>>
  BY DEF Find
<1>2. flows[f].at = "found" /\ IsIssued(flows[f].token)
  BY DEF Find, Right, FlowsRight, Carries
<1>3. /\ FlowOnly(f)
      /\ \/ flows'[f].at = "idle"
         \/ flows'[f].at = "create" /\ flows'[f].token = flows[f].token
         \/ /\ flows'[f].at = "update" /\ flows'[f].token = flows[f].token
            /\ Given(flows'[f].id, flows'[f].token)
  <2> DEFINE u == OwnedBy(flows[f].token)  id == flows[f].id
  <2>1. CASE id # 0 /\ SameUser(id, u) /\ FlowGoes(f, "update")
    BY <1>2, <2>1, FlowGoesDoes DEF Right, SameUser, Exists, Given, OwnedBy, IsIssued
  <2>2. CASE FlowEnds(f)
    BY <2>2, FlowEndsDoes DEF Right
  <2>3. ASSUME NEW a \in Connected(u), flows' = [flows EXCEPT ![f].at = "update", ![f].id = a]
        PROVE  /\ FlowOnly(f) /\ flows'[f].at = "update" /\ flows'[f].token = flows[f].token
               /\ Given(flows'[f].id, flows'[f].token)
    <3> DEFINE x == [flows[f] EXCEPT !.at = "update", !.id = a]
    <3>1. flows[f] \in Flow /\ flows \in [Flows -> Flow] /\ a \in Ids
      BY DEF Right, AccountsTypeOK, Connected
    <3>2. x \in Flow /\ x.at = "update" /\ x.id = a /\ x.token = flows[f].token
      BY <3>1 DEF Flow
    <3>3. flows' = [flows EXCEPT ![f] = x]
      BY <2>3, <3>1
    <3> HIDE DEF x
    <3>4. FlowOnly(f) /\ flows'[f] = x
      BY <3>2, <3>3, FlowPutDoes DEF Right
    <3>5. Given(a, flows[f].token)
      BY <1>2 DEF Connected, Exists, Given, OwnedBy, IsIssued
    <3> QED
      BY <3>2, <3>4, <3>5
  <2>4. CASE FlowGoes(f, "create")
    BY <2>4, FlowGoesDoes DEF Right
  <2> QED
    BY <2>1, <2>2, <2>3, <2>4 DEF Find
<1>4. AccountsTypeOK'
  BY <1>1, <1>2, <1>3 DEF Right, AccountsTypeOK, FlowOnly, MintOnly, RowOnly, RowStays, Empty
<1>5. RowsRight'
  BY <1>1, <1>2, <1>3 DEF Right, RowsRight, IsIssued, Given, FlowOnly, MintOnly, RowOnly,
     RowStays, Empty
<1>6. FlowsRight'
  BY <1>1, <1>2, <1>3 DEF Right, RowsRight, FlowsRight, IsIssued, Given, Carries, FlowOnly,
     MintOnly, RowOnly, RowStays, Empty
<1>7. MintsRight'
  BY <1>1, <1>2, <1>3 DEF Right, RowsRight, MintsRight, IsIssued, Given, FlowOnly, MintOnly,
     RowOnly, RowStays, Empty
<1>8. BroughtIsNew'
  BY <1>1, <1>2, <1>3 DEF Right, RowsRight, FlowsRight, BroughtIsNew, IsIssued, Carries,
     FlowOnly, MintOnly, RowOnly, RowStays, Empty
<1>9. StoredIsNew'
  BY <1>1, <1>2, <1>3 DEF Right, RowsRight, MintsRight, StoredIsNew, IsIssued, Stores,
     FlowOnly, MintOnly, RowOnly, RowStays, Empty
<1>10. BroughtIsNotStored'
  BY <1>1, <1>2, <1>3 DEF Right, FlowsRight, MintsRight, BroughtIsNotStored, IsIssued,
     Carries, Stores, FlowOnly, MintOnly, RowOnly, RowStays, Empty
<1> QED
  BY <1>4, <1>5, <1>6, <1>7, <1>8, <1>9, <1>10 DEF Right

LEMMA UpdateKeeps ==
  ASSUME Right, NEW f \in Flows, Update(f)
  PROVE  Right'
<1>1. UNCHANGED <<owner, live, mints, removals, faults>>
  BY DEF Update
<1>2. /\ FlowOnly(f)
      /\ flows[f].at = "update" /\ flows'[f].at = "idle"
  BY FlowEndsDoes DEF Update, Right
<1>3. IF Exists(flows[f].id)
      THEN /\ RowOnly(flows[f].id) /\ RowStays(flows[f].id) /\ Empty
           /\ accounts'[flows[f].id].token = flows[f].token
      ELSE UNCHANGED accounts
  <2>1. flows[f].token \in 0..MaxTokens
    BY DEF Flow, Right, AccountsTypeOK
  <2> QED
    BY <2>1, TokenStoredDoes DEF Update, Right
<1>4. Exists(flows[f].id) => flows[f].id \in Ids /\ accounts[flows[f].id].state = "row"
  BY DEF Exists
<1>5. AccountsTypeOK'
  BY <1>1, <1>2, <1>3, <1>4 DEF Right, AccountsTypeOK, FlowOnly, MintOnly, RowOnly, RowStays, Empty
<1>6. RowsRight'
  <2>1. CASE ~Exists(flows[f].id)
    BY <1>1, <1>3, <2>1 DEF Right, RowsRight, IsIssued, Given
  <2>2. CASE Exists(flows[f].id)
    <3>1. IsIssued(flows[f].token) /\ Given(flows[f].id, flows[f].token)
      BY <1>2, <2>2 DEF Right, FlowsRight, IsIssued, Given, Carries
    <3> QED
      BY <1>1, <1>3, <1>4, <2>2, <3>1 DEF Right, RowsRight, IsIssued, Given, RowOnly, RowStays
  <2> QED
    BY <2>1, <2>2
<1>7. FlowsRight'
  BY <1>1, <1>2, <1>3, <1>4 DEF Right, RowsRight, FlowsRight, IsIssued, Given, Carries,
     FlowOnly, MintOnly, RowOnly, RowStays, Empty
<1>8. MintsRight'
  BY <1>1, <1>2, <1>3, <1>4 DEF Right, RowsRight, MintsRight, IsIssued, Given, FlowOnly,
     MintOnly, RowOnly, RowStays, Empty
<1>9. BroughtIsNew'
  BY <1>1, <1>2, <1>3, <1>4 DEF Right, RowsRight, FlowsRight, BroughtIsNew, IsIssued,
     Carries, FlowOnly, MintOnly, RowOnly, RowStays, Empty
<1>10. StoredIsNew'
  <2>1. CASE ~Exists(flows[f].id)
    BY <1>1, <1>3, <2>1 DEF Right, StoredIsNew, Stores
  <2>2. CASE Exists(flows[f].id)
    <3>1. \A n \in Minters : Stores(n) => mints[n].token # flows[f].token
      BY <1>2 DEF Right, BroughtIsNotStored, Carries, Stores
    <3> QED
      BY <1>1, <1>3, <1>4, <2>2, <3>1 DEF Right, StoredIsNew, Stores, RowOnly
  <2> QED
    BY <2>1, <2>2
<1>11. BroughtIsNotStored'
  BY <1>1, <1>2, <1>3, <1>4 DEF Right, FlowsRight, MintsRight, BroughtIsNotStored, IsIssued,
     Carries, Stores, FlowOnly, MintOnly, RowOnly, RowStays, Empty
<1> QED
  BY <1>5, <1>6, <1>7, <1>8, <1>9, <1>10, <1>11 DEF Right

LEMMA CreateKeeps ==
  ASSUME Right, NEW f \in Flows, Create(f)
  PROVE  Right'
<1>1. UNCHANGED <<owner, live, mints, removals, faults>>
  BY DEF Create
<1>2. /\ FlowOnly(f)
      /\ flows[f].at = "create" /\ flows'[f].at = "idle"
  BY FlowEndsDoes DEF Create, Right
<1>3. IsIssued(flows[f].token)
  BY DEF Create, Right, FlowsRight, Carries
<1>4. \/ UNCHANGED accounts
      \/ \E a \in Ids :
           /\ RowOnly(a) /\ Empty
           /\ accounts[a].state = "unused" /\ accounts'[a].state = "row"
           /\ accounts'[a].token = flows[f].token /\ accounts'[a].user = owner[flows[f].token]
  <2> DEFINE u == OwnedBy(flows[f].token)  t == flows[f].token
             r == [Unused EXCEPT !.state = "row", !.auth = "oauth", !.user = u, !.token = t]
  <2>1. u \in Users \cup {NoUser} /\ u = owner[t] /\ t \in 0..MaxTokens
    BY <1>3 DEF OwnedBy, IsIssued, Right, AccountsTypeOK
  <2> HIDE DEF u, t
  <2>2. r \in Account /\ r.state = "row" /\ r.token = t /\ r.user = u
    BY <2>1, EmptyRecords DEF Account
  <2> HIDE DEF r
  <2>3. ASSUME NEW a \in FreeIds, accounts' = [accounts EXCEPT ![a] = r]
        PROVE  /\ RowOnly(a) /\ Empty /\ accounts[a].state = "unused" /\ accounts'[a] = r
    BY <2>2, <2>3, RowPutDoes DEF FreeIds, Right
  <2>4. UNCHANGED accounts \/ \E a \in FreeIds : accounts' = [accounts EXCEPT ![a] = r]
    BY DEF Create, r, u, t
  <2> QED
    BY <2>1, <2>2, <2>3, <2>4 DEF t, FreeIds
<1>5. AccountsTypeOK'
  BY <1>1, <1>2, <1>3, <1>4 DEF Right, AccountsTypeOK, FlowOnly, MintOnly, RowOnly, RowStays, Empty
<1>6. RowsRight'
  BY <1>1, <1>2, <1>3, <1>4 DEF Right, RowsRight, IsIssued, Given, FlowOnly, MintOnly,
     RowOnly, RowStays, Empty
<1>7. FlowsRight'
  BY <1>1, <1>2, <1>3, <1>4 DEF Right, RowsRight, FlowsRight, IsIssued, Given, Carries,
     FlowOnly, MintOnly, RowOnly, RowStays, Empty
<1>8. MintsRight'
  BY <1>1, <1>2, <1>3, <1>4 DEF Right, RowsRight, MintsRight, IsIssued, Given, FlowOnly,
     MintOnly, RowOnly, RowStays, Empty
<1>9. BroughtIsNew'
  BY <1>1, <1>2, <1>3, <1>4 DEF Right, RowsRight, FlowsRight, BroughtIsNew, IsIssued,
     Carries, FlowOnly, MintOnly, RowOnly, RowStays, Empty
<1>10. StoredIsNew'
  <2>1. CASE UNCHANGED accounts
    BY <1>1, <2>1 DEF Right, StoredIsNew, Stores
  <2>2. CASE \E a \in Ids : RowOnly(a) /\ accounts'[a].token = flows[f].token
    <3>1. \A n \in Minters : Stores(n) => mints[n].token # flows[f].token
      BY <1>2 DEF Right, BroughtIsNotStored, Carries, Stores
    <3> QED
      BY <1>1, <2>2, <3>1 DEF Right, StoredIsNew, Stores, RowOnly
  <2> QED
    BY <1>4, <2>1, <2>2
<1>11. BroughtIsNotStored'
  BY <1>1, <1>2, <1>3, <1>4 DEF Right, FlowsRight, MintsRight, BroughtIsNotStored, IsIssued,
     Carries, Stores, FlowOnly, MintOnly, RowOnly, RowStays, Empty
<1> QED
  BY <1>5, <1>6, <1>7, <1>8, <1>9, <1>10, <1>11 DEF Right

LEMMA MintBeginKeeps ==
  ASSUME Right, NEW m \in Minters, NEW a \in Ids, MintBegin(m, a)
  PROVE  Right'
<1>1. UNCHANGED <<accounts, owner, live, flows, removals, faults>>
  BY DEF MintBegin
<1>2. /\ MintOnly(m)
      /\ mints'[m].at = "read" /\ mints'[m].id = a /\ mints'[m].token = 0
      /\ accounts[a].state = "row"
  <2> DEFINE x == [NoMint EXCEPT !.at = "read", !.id = a]
  <2>1. x \in Mint /\ x.at = "read" /\ x.id = a /\ x.token = 0
    BY EmptyRecords DEF Mint
  <2>2. mints' = [mints EXCEPT ![m] = x] /\ accounts[a].state = "row"
    BY DEF MintBegin, Exists
  <2> HIDE DEF x
  <2> QED
    BY <2>1, <2>2, MintPutDoes DEF Right
<1>3. AccountsTypeOK'
  BY <1>1, <1>2 DEF Right, AccountsTypeOK, FlowOnly, MintOnly, RowOnly, RowStays, Empty
<1>4. RowsRight'
  BY <1>1, <1>2 DEF Right, RowsRight, IsIssued, Given, FlowOnly, MintOnly, RowOnly, RowStays, Empty
<1>5. FlowsRight'
  BY <1>1, <1>2 DEF Right, RowsRight, FlowsRight, IsIssued, Given, Carries, FlowOnly,
     MintOnly, RowOnly, RowStays, Empty
<1>6. MintsRight'
  BY <1>1, <1>2 DEF Right, RowsRight, MintsRight, IsIssued, Given, FlowOnly, MintOnly,
     RowOnly, RowStays, Empty
<1>7. BroughtIsNew'
  BY <1>1, <1>2 DEF Right, RowsRight, FlowsRight, BroughtIsNew, IsIssued, Carries, FlowOnly,
     MintOnly, RowOnly, RowStays, Empty
<1>8. StoredIsNew'
  BY <1>1, <1>2 DEF Right, RowsRight, MintsRight, StoredIsNew, IsIssued, Stores, FlowOnly,
     MintOnly, RowOnly, RowStays, Empty
<1>9. BroughtIsNotStored'
  BY <1>1, <1>2 DEF Right, FlowsRight, MintsRight, BroughtIsNotStored, IsIssued, Carries,
     Stores, FlowOnly, MintOnly, RowOnly, RowStays, Empty
<1> QED
  BY <1>3, <1>4, <1>5, <1>6, <1>7, <1>8, <1>9 DEF Right

LEMMA MintReadKeeps ==
  ASSUME Right, NEW m \in Minters, MintRead(m)
  PROVE  Right'
<1>1. UNCHANGED <<accounts, owner, live, flows, removals, faults>>
  BY DEF MintRead
<1>2. /\ MintOnly(m)
      /\ mints[m].at = "read"
      /\ \/ mints'[m].at = "idle" /\ mints'[m].token = 0
         \/ mints'[m].at = "use" /\ mints'[m].id = mints[m].id /\ mints'[m].token = mints[m].token
         \/ /\ mints'[m].at = "ask" /\ mints'[m].id = mints[m].id
            /\ mints'[m].token = accounts[mints[m].id].token
            /\ accounts[mints[m].id].state = "row" /\ accounts[mints[m].id].auth = "oauth"
  <2> DEFINE a == mints[m].id
  <2>1. CASE MintEnds(m)
    BY <2>1, MintEndsDoes DEF MintRead, Right
  <2>2. CASE mints' = [mints EXCEPT ![m].at = "use"]
    BY <2>2, MintAtDoes DEF MintRead, Right
  <2>3. CASE /\ Exists(a) /\ accounts[a].auth = "oauth"
             /\ mints' = [mints EXCEPT ![m].at = "ask", ![m].token = accounts[a].token]
    <3>1. accounts[a].token \in 0..MaxTokens /\ accounts[a].state = "row"
      BY <2>3 DEF Exists, Account, Right, AccountsTypeOK
    <3>2. mints' = [mints EXCEPT ![m] = [mints[m] EXCEPT !.at = "ask", !.token = accounts[a].token]]
      BY <2>3 DEF Right, AccountsTypeOK
    <3> QED
      BY <2>3, <3>1, <3>2, MintGoesDoes DEF MintRead, Right
  <2> QED
    BY <2>1, <2>2, <2>3 DEF MintRead
<1>3. AccountsTypeOK'
  BY <1>1, <1>2 DEF Right, AccountsTypeOK, FlowOnly, MintOnly, RowOnly, RowStays, Empty
<1>4. RowsRight'
  BY <1>1, <1>2 DEF Right, RowsRight, IsIssued, Given, FlowOnly, MintOnly, RowOnly, RowStays, Empty
<1>5. FlowsRight'
  BY <1>1, <1>2 DEF Right, RowsRight, FlowsRight, IsIssued, Given, Carries, FlowOnly,
     MintOnly, RowOnly, RowStays, Empty
<1>6. MintsRight'
  BY <1>1, <1>2 DEF Right, RowsRight, MintsRight, IsIssued, Given, FlowOnly, MintOnly,
     RowOnly, RowStays, Empty
<1>7. BroughtIsNew'
  BY <1>1, <1>2 DEF Right, RowsRight, FlowsRight, BroughtIsNew, IsIssued, Carries, FlowOnly,
     MintOnly, RowOnly, RowStays, Empty
<1>8. StoredIsNew'
  BY <1>1, <1>2 DEF Right, RowsRight, MintsRight, StoredIsNew, IsIssued, Stores, FlowOnly,
     MintOnly, RowOnly, RowStays, Empty
<1>9. BroughtIsNotStored'
  BY <1>1, <1>2 DEF Right, FlowsRight, MintsRight, BroughtIsNotStored, IsIssued, Carries,
     Stores, FlowOnly, MintOnly, RowOnly, RowStays, Empty
<1> QED
  BY <1>3, <1>4, <1>5, <1>6, <1>7, <1>8, <1>9 DEF Right

LEMMA MintMintedKeeps ==
  ASSUME Right, NEW m \in Minters, MintMinted(m)
  PROVE  Right'
<1>1. UNCHANGED <<accounts, flows, removals, faults>>
  BY DEF MintMinted
<1>2. /\ IsIssued(mints[m].token)
      /\ Given(mints[m].id, mints[m].token)
      /\ mints[m].token # 0
  BY DEF MintMinted, Right, MintsRight, IsIssued
<1>3. /\ OwnedBy(mints[m].token) = owner[mints[m].token]
      /\ owner[mints[m].token] \in Users
  BY <1>2 DEF OwnedBy, IsIssued, Right, AccountsTypeOK
<1>4. /\ owner' \in [Tokens -> Users \cup {NoUser}]
      /\ \A s \in Tokens : owner[s] # NoUser => owner'[s] = owner[s]
      /\ live' \subseteq {s \in Tokens : owner'[s] # NoUser}
      /\ \A s \in live' : s \in live \/ owner[s] = NoUser
  BY <1>2, <1>3 DEF MintMinted, Issued, Right, AccountsTypeOK, IsIssued
<1>5. /\ MintOnly(m)
      /\ mints[m].at = "ask" /\ mints'[m].id = mints[m].id
      /\ \/ mints'[m].at = "use" /\ mints'[m].token = mints[m].token /\ UNCHANGED <<owner, live>>
         \/ \E t \in Tokens :
              /\ mints'[m].at = "store" /\ mints'[m].token = t
              /\ owner[t] = NoUser /\ owner'[t] = owner[mints[m].token]
  <2>1. CASE mints' = [mints EXCEPT ![m].at = "use"] /\ UNCHANGED <<owner, live>>
    BY <2>1, MintAtDoes DEF MintMinted, Right
  <2>2. ASSUME NEW t \in Tokens, mints' = [mints EXCEPT ![m].at = "store", ![m].token = t]
        PROVE  /\ MintOnly(m) /\ mints'[m].id = mints[m].id
               /\ mints'[m].at = "store" /\ mints'[m].token = t
    <3>1. mints' = [mints EXCEPT ![m] = [mints[m] EXCEPT !.at = "store", !.token = t]]
      BY <2>2 DEF Right, AccountsTypeOK
    <3>2. t \in 0..MaxTokens
      OBVIOUS
    <3> QED
      BY <3>1, <3>2, MintGoesDoes DEF Right
  <2> QED
    BY <1>3, <2>1, <2>2 DEF MintMinted, Issued, Right, AccountsTypeOK
<1>6. AccountsTypeOK'
  BY <1>1, <1>2, <1>3, <1>4, <1>5 DEF Right, AccountsTypeOK, FlowOnly, MintOnly, RowOnly,
     RowStays, Empty
<1>7. RowsRight'
  BY <1>1, <1>2, <1>3, <1>4, <1>5 DEF Right, RowsRight, IsIssued, Given, FlowOnly, MintOnly,
     RowOnly, RowStays, Empty
<1>8. FlowsRight'
  BY <1>1, <1>2, <1>3, <1>4, <1>5 DEF Right, RowsRight, FlowsRight, IsIssued, Given,
     Carries, FlowOnly, MintOnly, RowOnly, RowStays, Empty
<1>9. MintsRight'
  BY <1>1, <1>2, <1>3, <1>4, <1>5 DEF Right, RowsRight, MintsRight, IsIssued, Given,
     FlowOnly, MintOnly, RowOnly, RowStays, Empty
<1>10. BroughtIsNew'
  BY <1>1, <1>2, <1>3, <1>4, <1>5 DEF Right, RowsRight, FlowsRight, BroughtIsNew, IsIssued,
     Carries, FlowOnly, MintOnly, RowOnly, RowStays, Empty
<1>11. StoredIsNew'
  BY <1>1, <1>2, <1>3, <1>4, <1>5 DEF Right, RowsRight, MintsRight, StoredIsNew, IsIssued,
     Stores, FlowOnly, MintOnly, RowOnly, RowStays, Empty
<1>12. BroughtIsNotStored'
  BY <1>1, <1>2, <1>3, <1>4, <1>5 DEF Right, FlowsRight, MintsRight, BroughtIsNotStored,
     IsIssued, Carries, Stores, FlowOnly, MintOnly, RowOnly, RowStays, Empty
<1> QED
  BY <1>6, <1>7, <1>8, <1>9, <1>10, <1>11, <1>12 DEF Right

LEMMA MintFailedKeeps ==
  ASSUME Right, NEW m \in Minters, MintFailed(m)
  PROVE  Right'
<1>1. UNCHANGED <<accounts, owner, live, flows, removals>>
  BY DEF MintFailed
<1>2. /\ MintOnly(m)
      /\ mints[m].at = "ask"
      /\ \/ mints'[m].at = "idle" /\ mints'[m].token = 0
         \/ /\ mints'[m].at = "mark" /\ mints'[m].id = mints[m].id
            /\ mints'[m].token = mints[m].token /\ mints[m].token \notin live
  BY MintEndsDoes, MintAtDoes DEF MintFailed, InvalidGrant, Right
<1>3. faults' \in 0..MaxFaults
  BY DEF MintFailed, Fault, Right, AccountsTypeOK
<1>4. AccountsTypeOK'
  BY <1>1, <1>2, <1>3 DEF Right, AccountsTypeOK, FlowOnly, MintOnly, RowOnly, RowStays, Empty
<1>5. RowsRight'
  BY <1>1, <1>2, <1>3 DEF Right, RowsRight, IsIssued, Given, FlowOnly, MintOnly, RowOnly,
     RowStays, Empty
<1>6. FlowsRight'
  BY <1>1, <1>2, <1>3 DEF Right, RowsRight, FlowsRight, IsIssued, Given, Carries, FlowOnly,
     MintOnly, RowOnly, RowStays, Empty
<1>7. MintsRight'
  BY <1>1, <1>2, <1>3 DEF Right, RowsRight, MintsRight, IsIssued, Given, FlowOnly, MintOnly,
     RowOnly, RowStays, Empty
<1>8. BroughtIsNew'
  BY <1>1, <1>2, <1>3 DEF Right, RowsRight, FlowsRight, BroughtIsNew, IsIssued, Carries,
     FlowOnly, MintOnly, RowOnly, RowStays, Empty
<1>9. StoredIsNew'
  BY <1>1, <1>2, <1>3 DEF Right, RowsRight, MintsRight, StoredIsNew, IsIssued, Stores,
     FlowOnly, MintOnly, RowOnly, RowStays, Empty
<1>10. BroughtIsNotStored'
  BY <1>1, <1>2, <1>3 DEF Right, FlowsRight, MintsRight, BroughtIsNotStored, IsIssued,
     Carries, Stores, FlowOnly, MintOnly, RowOnly, RowStays, Empty
<1> QED
  BY <1>4, <1>5, <1>6, <1>7, <1>8, <1>9, <1>10 DEF Right

LEMMA MintStoreKeeps ==
  ASSUME Right, NEW m \in Minters, MintStore(m)
  PROVE  Right'
<1>1. UNCHANGED <<owner, live, flows, removals, faults>>
  BY DEF MintStore
<1>2. /\ MintOnly(m)
      /\ mints[m].at = "store"
      /\ \/ mints'[m].at = "idle" /\ mints'[m].token = 0
         \/ mints'[m].at = "use" /\ mints'[m].id = mints[m].id /\ mints'[m].token = mints[m].token
  BY MintEndsDoes, MintAtDoes DEF MintStore, Right
<1>3. IF Exists(mints[m].id)
      THEN /\ RowOnly(mints[m].id) /\ RowStays(mints[m].id) /\ Empty
           /\ accounts'[mints[m].id].token = mints[m].token
      ELSE UNCHANGED accounts
  <2>1. mints[m].token \in 0..MaxTokens
    BY DEF Mint, Right, AccountsTypeOK
  <2> QED
    BY <2>1, TokenStoredDoes DEF MintStore, Right
<1>4. Exists(mints[m].id) => mints[m].id \in Ids /\ accounts[mints[m].id].state = "row"
  BY DEF Exists
<1>5. AccountsTypeOK'
  BY <1>1, <1>2, <1>3, <1>4 DEF Right, AccountsTypeOK, FlowOnly, MintOnly, RowOnly, RowStays, Empty
<1>6. RowsRight'
  <2>1. CASE ~Exists(mints[m].id)
    BY <1>1, <1>3, <2>1 DEF Right, RowsRight, IsIssued, Given
  <2>2. CASE Exists(mints[m].id)
    <3>1. IsIssued(mints[m].token) /\ Given(mints[m].id, mints[m].token)
      BY <1>2, <2>2 DEF Right, MintsRight, IsIssued, Given
    <3> QED
      BY <1>1, <1>3, <1>4, <2>2, <3>1 DEF Right, RowsRight, IsIssued, Given, RowOnly, RowStays
  <2> QED
    BY <2>1, <2>2
<1>7. FlowsRight'
  BY <1>1, <1>2, <1>3, <1>4 DEF Right, RowsRight, FlowsRight, IsIssued, Given, Carries,
     FlowOnly, MintOnly, RowOnly, RowStays, Empty
<1>8. MintsRight'
  BY <1>1, <1>2, <1>3, <1>4 DEF Right, RowsRight, MintsRight, IsIssued, Given, FlowOnly,
     MintOnly, RowOnly, RowStays, Empty
<1>9. BroughtIsNew'
  <2>1. CASE ~Exists(mints[m].id)
    BY <1>1, <1>3, <2>1 DEF Right, BroughtIsNew, Carries
  <2>2. CASE Exists(mints[m].id)
    <3>1. \A g \in Flows : Carries(g) => flows[g].token # mints[m].token
      BY <1>2 DEF Right, BroughtIsNotStored, Stores
    <3> QED
      BY <1>1, <1>3, <1>4, <2>2, <3>1 DEF Right, BroughtIsNew, Carries, RowOnly
  <2> QED
    BY <2>1, <2>2
<1>10. StoredIsNew'
  BY <1>1, <1>2, <1>3, <1>4 DEF Right, RowsRight, MintsRight, StoredIsNew, IsIssued, Stores,
     FlowOnly, MintOnly, RowOnly, RowStays, Empty
<1>11. BroughtIsNotStored'
  BY <1>1, <1>2, <1>3, <1>4 DEF Right, FlowsRight, MintsRight, BroughtIsNotStored, IsIssued,
     Carries, Stores, FlowOnly, MintOnly, RowOnly, RowStays, Empty
<1> QED
  BY <1>5, <1>6, <1>7, <1>8, <1>9, <1>10, <1>11 DEF Right

LEMMA MintMarkKeeps ==
  ASSUME Right, NEW m \in Minters, MintMark(m)
  PROVE  Right'
<1>1. UNCHANGED <<owner, live, flows, removals, faults>>
  BY DEF MintMark
<1>2. /\ MintOnly(m)
      /\ mints'[m].at = "idle" /\ mints'[m].token = 0
  BY MintEndsDoes DEF MintMark, Right
<1>3. /\ accounts' \in [Ids -> Account] /\ Empty
      /\ \A b \in Ids : RowStays(b) /\ accounts'[b].token = accounts[b].token
  <2>1. CASE Exists(mints[m].id)
    <3>1. accounts' = [accounts EXCEPT ![mints[m].id].flagged = TRUE]
      BY <2>1 DEF MintMark, MarkNeedsReauth
    <3> QED
      BY <2>1, <3>1, MarkDoes DEF Right
  <2>2. CASE ~Exists(mints[m].id)
    <3>1. UNCHANGED accounts
      BY <2>2 DEF MintMark, MarkNeedsReauth
    <3> QED
      BY <3>1 DEF Right, AccountsTypeOK, Empty, RowStays
  <2> QED
    BY <2>1, <2>2
<1>4. AccountsTypeOK'
  BY <1>1, <1>2, <1>3 DEF Right, AccountsTypeOK, FlowOnly, MintOnly, RowOnly, RowStays, Empty
<1>5. RowsRight'
  BY <1>1, <1>2, <1>3 DEF Right, RowsRight, IsIssued, Given, FlowOnly, MintOnly, RowOnly,
     RowStays, Empty
<1>6. FlowsRight'
  BY <1>1, <1>2, <1>3 DEF Right, RowsRight, FlowsRight, IsIssued, Given, Carries, FlowOnly,
     MintOnly, RowOnly, RowStays, Empty
<1>7. MintsRight'
  BY <1>1, <1>2, <1>3 DEF Right, RowsRight, MintsRight, IsIssued, Given, FlowOnly, MintOnly,
     RowOnly, RowStays, Empty
<1>8. BroughtIsNew'
  BY <1>1, <1>2, <1>3 DEF Right, RowsRight, FlowsRight, BroughtIsNew, IsIssued, Carries,
     FlowOnly, MintOnly, RowOnly, RowStays, Empty
<1>9. StoredIsNew'
  BY <1>1, <1>2, <1>3 DEF Right, RowsRight, MintsRight, StoredIsNew, IsIssued, Stores,
     FlowOnly, MintOnly, RowOnly, RowStays, Empty
<1>10. BroughtIsNotStored'
  BY <1>1, <1>2, <1>3 DEF Right, FlowsRight, MintsRight, BroughtIsNotStored, IsIssued,
     Carries, Stores, FlowOnly, MintOnly, RowOnly, RowStays, Empty
<1> QED
  BY <1>4, <1>5, <1>6, <1>7, <1>8, <1>9, <1>10 DEF Right

LEMMA UseKeeps ==
  ASSUME Right, NEW m \in Minters, Use(m)
  PROVE  Right'
<1>1. UNCHANGED <<owner, live, flows, removals, faults>>
  BY DEF Use
<1>2. /\ MintOnly(m)
      /\ mints'[m].at = "idle" /\ mints'[m].token = 0
  BY MintEndsDoes DEF Use, Right
<1>3. /\ accounts' \in [Ids -> Account] /\ Empty
      /\ \A b \in Ids : RowStays(b) /\ accounts'[b].token = accounts[b].token
  BY MarkDoes DEF Use, Right
<1>4. AccountsTypeOK'
  BY <1>1, <1>2, <1>3 DEF Right, AccountsTypeOK, FlowOnly, MintOnly, RowOnly, RowStays, Empty
<1>5. RowsRight'
  BY <1>1, <1>2, <1>3 DEF Right, RowsRight, IsIssued, Given, FlowOnly, MintOnly, RowOnly,
     RowStays, Empty
<1>6. FlowsRight'
  BY <1>1, <1>2, <1>3 DEF Right, RowsRight, FlowsRight, IsIssued, Given, Carries, FlowOnly,
     MintOnly, RowOnly, RowStays, Empty
<1>7. MintsRight'
  BY <1>1, <1>2, <1>3 DEF Right, RowsRight, MintsRight, IsIssued, Given, FlowOnly, MintOnly,
     RowOnly, RowStays, Empty
<1>8. BroughtIsNew'
  BY <1>1, <1>2, <1>3 DEF Right, RowsRight, FlowsRight, BroughtIsNew, IsIssued, Carries,
     FlowOnly, MintOnly, RowOnly, RowStays, Empty
<1>9. StoredIsNew'
  BY <1>1, <1>2, <1>3 DEF Right, RowsRight, MintsRight, StoredIsNew, IsIssued, Stores,
     FlowOnly, MintOnly, RowOnly, RowStays, Empty
<1>10. BroughtIsNotStored'
  BY <1>1, <1>2, <1>3 DEF Right, FlowsRight, MintsRight, BroughtIsNotStored, IsIssued,
     Carries, Stores, FlowOnly, MintOnly, RowOnly, RowStays, Empty
<1> QED
  BY <1>4, <1>5, <1>6, <1>7, <1>8, <1>9, <1>10 DEF Right

LEMMA RemoveDeleteKeeps ==
  ASSUME Right, NEW r \in Removers, RemoveDelete(r)
  PROVE  Right'
<1>1. UNCHANGED <<owner, live, flows, mints, faults>>
  BY DEF RemoveDelete
<1>2. \/ UNCHANGED accounts
      \/ \E a \in Ids :
           /\ RowOnly(a) /\ Empty /\ accounts[a].state = "row"
           /\ accounts'[a].state = "gone" /\ accounts'[a].token = 0 /\ accounts'[a].user = accounts[a].user
  <2> DEFINE a == removals[r]
             row == [accounts[a] EXCEPT !.state = "gone", !.token = 0, !.flagged = FALSE]
  <2>1. CASE Exists(a) /\ Restricted(a)
    <3>1. accounts[a] \in Account /\ a \in Ids /\ accounts[a].state = "row"
      BY <2>1 DEF Exists, Right, AccountsTypeOK
    <3>2. /\ row \in Account /\ row.state = "gone" /\ row.token = 0 /\ row.flagged = FALSE
          /\ row.user = accounts[a].user
      BY <3>1, GoneRow
    <3>3. accounts' = [accounts EXCEPT ![a] = row]
      BY <2>1 DEF RemoveDelete
    <3> HIDE DEF row
    <3> QED
      BY <3>1, <3>2, <3>3, RowPutDoes DEF Right
  <2> QED
    BY <2>1 DEF RemoveDelete
<1>3. removals' \in [Removers -> Ids \cup {0}]
  BY DEF RemoveDelete, Right, AccountsTypeOK
<1>4. AccountsTypeOK'
  BY <1>1, <1>2, <1>3 DEF Right, AccountsTypeOK, FlowOnly, MintOnly, RowOnly, RowStays, Empty
<1>5. RowsRight'
  BY <1>1, <1>2, <1>3 DEF Right, RowsRight, IsIssued, Given, FlowOnly, MintOnly, RowOnly,
     RowStays, Empty
<1>6. FlowsRight'
  BY <1>1, <1>2, <1>3 DEF Right, RowsRight, FlowsRight, IsIssued, Given, Carries, FlowOnly,
     MintOnly, RowOnly, RowStays, Empty
<1>7. MintsRight'
  BY <1>1, <1>2, <1>3 DEF Right, RowsRight, MintsRight, IsIssued, Given, FlowOnly, MintOnly,
     RowOnly, RowStays, Empty
<1>8. BroughtIsNew'
  BY <1>1, <1>2, <1>3 DEF Right, RowsRight, FlowsRight, BroughtIsNew, IsIssued, Carries,
     FlowOnly, MintOnly, RowOnly, RowStays, Empty
<1>9. StoredIsNew'
  BY <1>1, <1>2, <1>3 DEF Right, RowsRight, MintsRight, StoredIsNew, IsIssued, Stores,
     FlowOnly, MintOnly, RowOnly, RowStays, Empty
<1>10. BroughtIsNotStored'
  BY <1>1, <1>2, <1>3 DEF Right, FlowsRight, MintsRight, BroughtIsNotStored, IsIssued,
     Carries, Stores, FlowOnly, MintOnly, RowOnly, RowStays, Empty
<1> QED
  BY <1>4, <1>5, <1>6, <1>7, <1>8, <1>9, <1>10 DEF Right

LEMMA RemoveBeginKeeps ==
  ASSUME Right, NEW r \in Removers, NEW a \in Ids, RemoveBegin(r, a)
  PROVE  Right'
<1>1. UNCHANGED <<accounts, owner, live, flows, mints, faults>>
  BY DEF RemoveBegin
<1>2. removals' \in [Removers -> Ids \cup {0}]
  BY DEF RemoveBegin, Right, AccountsTypeOK
<1>3. AccountsTypeOK'
  BY <1>1, <1>2 DEF Right, AccountsTypeOK, FlowOnly, MintOnly, RowOnly, RowStays, Empty
<1>4. RowsRight'
  BY <1>1, <1>2 DEF Right, RowsRight, IsIssued, Given, FlowOnly, MintOnly, RowOnly, RowStays, Empty
<1>5. FlowsRight'
  BY <1>1, <1>2 DEF Right, RowsRight, FlowsRight, IsIssued, Given, Carries, FlowOnly,
     MintOnly, RowOnly, RowStays, Empty
<1>6. MintsRight'
  BY <1>1, <1>2 DEF Right, RowsRight, MintsRight, IsIssued, Given, FlowOnly, MintOnly,
     RowOnly, RowStays, Empty
<1>7. BroughtIsNew'
  BY <1>1, <1>2 DEF Right, RowsRight, FlowsRight, BroughtIsNew, IsIssued, Carries, FlowOnly,
     MintOnly, RowOnly, RowStays, Empty
<1>8. StoredIsNew'
  BY <1>1, <1>2 DEF Right, RowsRight, MintsRight, StoredIsNew, IsIssued, Stores, FlowOnly,
     MintOnly, RowOnly, RowStays, Empty
<1>9. BroughtIsNotStored'
  BY <1>1, <1>2 DEF Right, FlowsRight, MintsRight, BroughtIsNotStored, IsIssued, Carries,
     Stores, FlowOnly, MintOnly, RowOnly, RowStays, Empty
<1> QED
  BY <1>3, <1>4, <1>5, <1>6, <1>7, <1>8, <1>9 DEF Right

LEMMA RevokeKeeps ==
  ASSUME Right, NEW t \in Tokens, Revoke(t)
  PROVE  Right'
<1>1. UNCHANGED <<accounts, owner, flows, mints, removals, faults>>
  BY DEF Revoke
<1>2. live' = live \ {t}
  BY DEF Revoke
<1>3. AccountsTypeOK'
  BY <1>1, <1>2 DEF Right, AccountsTypeOK, FlowOnly, MintOnly, RowOnly, RowStays, Empty
<1>4. RowsRight'
  BY <1>1, <1>2 DEF Right, RowsRight, IsIssued, Given, FlowOnly, MintOnly, RowOnly, RowStays, Empty
<1>5. FlowsRight'
  BY <1>1, <1>2 DEF Right, RowsRight, FlowsRight, IsIssued, Given, Carries, FlowOnly,
     MintOnly, RowOnly, RowStays, Empty
<1>6. MintsRight'
  BY <1>1, <1>2 DEF Right, RowsRight, MintsRight, IsIssued, Given, FlowOnly, MintOnly,
     RowOnly, RowStays, Empty
<1>7. BroughtIsNew'
  BY <1>1, <1>2 DEF Right, RowsRight, FlowsRight, BroughtIsNew, IsIssued, Carries, FlowOnly,
     MintOnly, RowOnly, RowStays, Empty
<1>8. StoredIsNew'
  BY <1>1, <1>2 DEF Right, RowsRight, MintsRight, StoredIsNew, IsIssued, Stores, FlowOnly,
     MintOnly, RowOnly, RowStays, Empty
<1>9. BroughtIsNotStored'
  BY <1>1, <1>2 DEF Right, FlowsRight, MintsRight, BroughtIsNotStored, IsIssued, Carries,
     Stores, FlowOnly, MintOnly, RowOnly, RowStays, Empty
<1> QED
  BY <1>3, <1>4, <1>5, <1>6, <1>7, <1>8, <1>9 DEF Right

LEMMA AccountsCrashKeeps ==
  ASSUME Right, AccountsCrash
  PROVE  Right'
<1>1. UNCHANGED <<accounts, owner, live>>
  BY DEF AccountsCrash
<1>2. \A f \in Flows : flows'[f].at = "idle"
  BY EmptyRecords DEF AccountsCrash
<1>3. \A m \in Minters : mints'[m].at = "idle" /\ mints'[m].token = 0
  BY EmptyRecords DEF AccountsCrash
<1>4. flows' \in [Flows -> Flow] /\ mints' \in [Minters -> Mint]
  BY EmptyRecords DEF AccountsCrash
<1>5. removals' \in [Removers -> Ids \cup {0}]
  BY DEF AccountsCrash
<1>6. faults' \in 0..MaxFaults
  BY DEF AccountsCrash, Fault, Right, AccountsTypeOK
<1>7. AccountsTypeOK'
  BY <1>1, <1>2, <1>3, <1>4, <1>5, <1>6 DEF Right, AccountsTypeOK, FlowOnly, MintOnly,
     RowOnly, RowStays, Empty
<1>8. RowsRight'
  BY <1>1, <1>2, <1>3, <1>4, <1>5, <1>6 DEF Right, RowsRight, IsIssued, Given, FlowOnly,
     MintOnly, RowOnly, RowStays, Empty
<1>9. FlowsRight'
  BY <1>1, <1>2, <1>3, <1>4, <1>5, <1>6 DEF Right, RowsRight, FlowsRight, IsIssued, Given,
     Carries, FlowOnly, MintOnly, RowOnly, RowStays, Empty
<1>10. MintsRight'
  BY <1>1, <1>2, <1>3, <1>4, <1>5, <1>6 DEF Right, RowsRight, MintsRight, IsIssued, Given,
     FlowOnly, MintOnly, RowOnly, RowStays, Empty
<1>11. BroughtIsNew'
  BY <1>1, <1>2, <1>3, <1>4, <1>5, <1>6 DEF Right, RowsRight, FlowsRight, BroughtIsNew,
     IsIssued, Carries, FlowOnly, MintOnly, RowOnly, RowStays, Empty
<1>12. StoredIsNew'
  BY <1>1, <1>2, <1>3, <1>4, <1>5, <1>6 DEF Right, RowsRight, MintsRight, StoredIsNew,
     IsIssued, Stores, FlowOnly, MintOnly, RowOnly, RowStays, Empty
<1>13. BroughtIsNotStored'
  BY <1>1, <1>2, <1>3, <1>4, <1>5, <1>6 DEF Right, FlowsRight, MintsRight,
     BroughtIsNotStored, IsIssued, Carries, Stores, FlowOnly, MintOnly, RowOnly, RowStays,
     Empty
<1> QED
  BY <1>7, <1>8, <1>9, <1>10, <1>11, <1>12, <1>13 DEF Right

LEMMA RightNext == Right /\ [AccountsNext]_accountVars => Right'
<1>1. UNCHANGED accountVars /\ Right => Right'
  BY DEF accountVars, Right, AccountsTypeOK, RowsRight, FlowsRight, MintsRight, BroughtIsNew,
         StoredIsNew, BroughtIsNotStored, IsIssued, Given, Carries, Stores
<1> QED
  BY <1>1, CreatePasswordKeeps, StartKeeps, CallbackKeeps, ExchangeKeeps, FindKeeps,
     UpdateKeeps, CreateKeeps, MintBeginKeeps, MintReadKeeps, MintMintedKeeps,
     MintFailedKeeps, MintStoreKeeps, MintMarkKeeps, UseKeeps, RemoveDeleteKeeps,
     RemoveBeginKeeps, RevokeKeeps, AccountsCrashKeeps DEF AccountsNext, FlowStep, MintStep

----------------------------------------------------------------------------
\* Right, in every state.
LEMMA AlwaysRight == AccountsSpec => []Right
  BY AccountsInitRight, RightNext, PTL DEF AccountsSpec

\* Types.
THEOREM AccountsTypeCorrect == AccountsSpec => []AccountsTypeOK
<1>1. Right => AccountsTypeOK
  BY DEF Right
<1> QED
  BY <1>1, AlwaysRight, PTL

\* However connects, refreshes and removals interleave: no account ever holds
\* the token of another user's mailbox.
THEOREM TokensOfUsers == AccountsSpec => []TokenOfUser
<1>1. Right => TokenOfUser
  BY DEF Right, RowsRight, IsIssued, Given, TokenOfUser, OwnedBy
<1> QED
  BY <1>1, AlwaysRight, PTL

\* A deletion that was allowed before the first mailbox write does not take
\* the account, nor the record of the writes, once there is one.
THEOREM AuditOutlives == AccountsSpec => AuditKept
<1> DEFINE Kept == \A a \in Ids : accounts'[a].state = "gone" /\ Exists(a) => ~accounts[a].audit
<1>1. Right /\ [AccountsNext]_accountVars => Kept
  <2> SUFFICES ASSUME Right, [AccountsNext]_accountVars, NEW a \in Ids,
                      accounts'[a].state = "gone", Exists(a)
               PROVE  ~accounts[a].audit
    OBVIOUS
  <2>1. accounts[a].state = "row" /\ accounts[a] \in Account /\ accounts \in [Ids -> Account]
    BY DEF Exists, Right, AccountsTypeOK
  <2>2. ASSUME NEW r \in Removers, RemoveDelete(r) PROVE ~accounts[a].audit
    <3>1. removals[r] # a => accounts'[a] = accounts[a]
      BY <2>1, <2>2 DEF RemoveDelete
    <3>2. removals[r] = a /\ ~Restricted(a) => accounts'[a] = accounts[a]
      BY <2>2 DEF RemoveDelete
    <3> QED
      BY <2>1, <3>1, <3>2 DEF Restricted
  <2>3. ASSUME accounts'[a].state = accounts[a].state PROVE FALSE
    BY <2>1, <2>3
  <2>4. ASSUME NEW f \in Flows, FlowStep(f) PROVE accounts'[a].state # "gone"
    <3>1. flows[f].token \in 0..MaxTokens
      BY DEF Flow, Right, AccountsTypeOK
    <3>2. CASE Update(f)
      BY <2>1, <3>1, <3>2, TokenStoredDoes DEF Update, Right, RowOnly, RowStays
    <3>3. CASE Create(f)
      <4>1. accounts'[a] = accounts[a]
        BY <2>1, <3>3 DEF Create, FreeIds
      <4> QED
        BY <2>1, <4>1
    <3> QED
      BY <2>1, <2>4, <3>2, <3>3 DEF FlowStep, Callback, Exchange, Find
  <2>5. ASSUME NEW m \in Minters, MintStep(m) PROVE accounts'[a].state # "gone"
    <3>1. mints[m].token \in 0..MaxTokens
      BY DEF Mint, Right, AccountsTypeOK
    <3>2. CASE MintStore(m)
      BY <2>1, <3>1, <3>2, TokenStoredDoes DEF MintStore, Right, RowOnly, RowStays
    <3>3. CASE MintMark(m)
      <4>1. CASE Exists(mints[m].id)
        <5>1. accounts' = [accounts EXCEPT ![mints[m].id].flagged = TRUE]
          BY <3>3, <4>1 DEF MintMark, MarkNeedsReauth
        <5> QED
          BY <2>1, <4>1, <5>1, MarkDoes DEF Right, RowStays
      <4>2. CASE ~Exists(mints[m].id)
        BY <2>1, <3>3, <4>2 DEF MintMark, MarkNeedsReauth
      <4> QED
        BY <4>1, <4>2
    <3>4. CASE Use(m)
      BY <2>1, <3>4, MarkDoes DEF Use, Right, RowStays
    <3> QED
      BY <2>1, <2>5, <3>2, <3>3, <3>4 DEF MintStep, MintRead, MintMinted, MintFailed
  <2>6. ASSUME NEW b \in Ids, NEW u \in Users, CreatePassword(b, u) PROVE accounts'[a] = accounts[a]
    BY <2>1, <2>6 DEF CreatePassword, FreeIds
  <2>7. UNCHANGED accounts => FALSE
    BY <2>1
  <2> QED
    BY <2>1, <2>2, <2>4, <2>5, <2>6, <2>7 DEF AccountsNext, accountVars, Start, MintBegin,
       RemoveBegin, Revoke,
       AccountsCrash
<1> QED
  BY <1>1, AlwaysRight, PTL DEF AccountsSpec, AuditKept

\* What a step does to the flag of an account: nothing; or it sets it for a
\* token Google refused; or it takes it away with the token or the account.
FlagStep(a) ==
    \/ accounts'[a].flagged = accounts[a].flagged
    \/ /\ accounts'[a].flagged = TRUE
       /\ \E m \in Minters : mints[m].id = a /\ mints[m].token # 0 /\ mints[m].token \notin live
    \/ /\ accounts'[a].flagged = FALSE
       /\ Exists(a) => accounts'[a].token # accounts[a].token \/ accounts'[a].state = "gone"

LEMMA TokenStoredFlag ==
  ASSUME AccountsTypeOK, NEW b \in Ids, NEW t \in 0..MaxTokens, TokenStored(b, t), NEW a \in Ids,
         accounts[a].token # t
  PROVE  FlagStep(a)
<1>1. CASE a # b \/ ~Exists(b)
  <2>1. accounts'[a] = accounts[a]
    BY <1>1 DEF TokenStored, AccountsTypeOK
  <2> QED
    BY <2>1 DEF FlagStep
<1>2. CASE a = b /\ Exists(b)
  <2> DEFINE r == [accounts[a] EXCEPT !.token = t, !.flagged = FALSE]
  <2>1. accounts[a] \in Account
    BY DEF AccountsTypeOK
  <2>2. r.token = t /\ r.flagged = FALSE
    BY <2>1 DEF Account
  <2>3. accounts' = [accounts EXCEPT ![a] = r]
    BY <1>2 DEF TokenStored, AccountsTypeOK
  <2> HIDE DEF r
  <2>4. accounts'[a] = r
    BY <2>3 DEF AccountsTypeOK
  <2> QED
    BY <2>2, <2>4 DEF FlagStep
<1> QED
  BY <1>1, <1>2

LEMMA FlagSteps == Right /\ [AccountsNext]_accountVars => \A a \in Ids : FlagStep(a)
<1> SUFFICES ASSUME Right, [AccountsNext]_accountVars, NEW a \in Ids PROVE FlagStep(a)
  OBVIOUS
<1>1. accounts[a] \in Account /\ accounts \in [Ids -> Account]
  BY DEF Right, AccountsTypeOK
<1>2. accounts'[a] = accounts[a] => FlagStep(a)
  BY DEF FlagStep
<1>3. UNCHANGED accounts => FlagStep(a)
  BY <1>2
<1>4. ASSUME NEW f \in Flows, FlowStep(f) PROVE FlagStep(a)
  <2>1. flows[f].token \in 0..MaxTokens
    BY DEF Flow, Right, AccountsTypeOK
  <2>2. CASE Update(f)
    <3>1. accounts[a].token # flows[f].token
      BY <2>2 DEF Update, Right, BroughtIsNew, Carries
    <3>2. CASE flows[f].id \in Ids
      BY <2>1, <2>2, <3>1, <3>2, TokenStoredFlag DEF Update, Right
    <3>3. CASE flows[f].id \notin Ids
      BY <1>3, <2>2, <3>3 DEF Update, TokenStored, Exists
    <3> QED
      BY <3>2, <3>3
  <2>3. CASE Create(f)
    <3> DEFINE r == [Unused EXCEPT !.state = "row", !.auth = "oauth", !.user = OwnedBy(flows[f].token),
                                   !.token = flows[f].token]
    <3>1. r.flagged = FALSE
      BY DEF Unused
    <3> HIDE DEF r
    <3>2. UNCHANGED accounts \/ \E b \in FreeIds : accounts' = [accounts EXCEPT ![b] = r]
      BY <2>3 DEF Create, r
    <3>3. ASSUME accounts' = [accounts EXCEPT ![a] = r], a \in FreeIds PROVE FlagStep(a)
      BY <1>1, <3>1, <3>3 DEF FlagStep, FreeIds, Exists
    <3>4. ASSUME NEW b \in Ids \ {a}, accounts' = [accounts EXCEPT ![b] = r] PROVE FlagStep(a)
      BY <1>1, <1>2, <3>4
    <3> QED
      BY <1>3, <3>2, <3>3, <3>4 DEF FreeIds
  <2> QED
    BY <1>3, <1>4, <2>2, <2>3 DEF FlowStep, Callback, Exchange, Find
<1>5. ASSUME NEW m \in Minters, MintStep(m) PROVE FlagStep(a)
  <2>1. mints[m].token \in 0..MaxTokens /\ mints[m].id \in Ids \cup {0}
    BY DEF Mint, Right, AccountsTypeOK
  <2>2. CASE MintStore(m)
    <3>1. accounts[a].token # mints[m].token
      BY <2>2 DEF MintStore, Right, StoredIsNew, Stores
    <3>2. mints[m].id \in Ids
      BY <2>2 DEF MintStore, Right, MintsRight
    <3> QED
      BY <2>1, <2>2, <3>1, <3>2, TokenStoredFlag DEF MintStore, Right
  <2>3. CASE MintMark(m)
    <3>1. mints[m].token # 0 /\ mints[m].token \notin live
      BY <2>3 DEF MintMark, Right, MintsRight
    <3>2. mints[m].id # a => accounts'[a] = accounts[a]
      BY <1>1, <2>3 DEF MintMark, MarkNeedsReauth
    <3>3. ASSUME mints[m].id = a, Exists(a) PROVE accounts'[a].flagged = TRUE
      <4>1. accounts' = [accounts EXCEPT ![a] = [accounts[a] EXCEPT !.flagged = TRUE]]
        BY <2>3, <3>3 DEF MintMark, MarkNeedsReauth
      <4>2. [accounts[a] EXCEPT !.flagged = TRUE].flagged = TRUE
        BY <1>1 DEF Account
      <4> QED
        BY <1>1, <4>1, <4>2
    <3>4. mints[m].id = a /\ ~Exists(a) => accounts'[a] = accounts[a]
      BY <2>3 DEF MintMark, MarkNeedsReauth
    <3> QED
      BY <1>2, <3>1, <3>2, <3>3, <3>4 DEF FlagStep
  <2>4. CASE Use(m)
    <3> DEFINE b == mints[m].id
    <3>1. ASSUME accounts' = [accounts EXCEPT ![b].mail = TRUE] PROVE FlagStep(a)
      <4>1. [accounts[a] EXCEPT !.mail = TRUE].flagged = accounts[a].flagged
        BY <1>1 DEF Account
      <4>2. accounts'[a] = IF a = b THEN [accounts[a] EXCEPT !.mail = TRUE] ELSE accounts[a]
        BY <1>1, <3>1
      <4> QED
        BY <4>1, <4>2 DEF FlagStep
    <3>2. ASSUME accounts' = [accounts EXCEPT ![b].audit = TRUE] PROVE FlagStep(a)
      <4>1. [accounts[a] EXCEPT !.audit = TRUE].flagged = accounts[a].flagged
        BY <1>1 DEF Account
      <4>2. accounts'[a] = IF a = b THEN [accounts[a] EXCEPT !.audit = TRUE] ELSE accounts[a]
        BY <1>1, <3>2
      <4> QED
        BY <4>1, <4>2 DEF FlagStep
    <3> QED
      BY <1>3, <2>4, <3>1, <3>2 DEF Use
  <2> QED
    BY <1>3, <1>5, <2>2, <2>3, <2>4 DEF MintStep, MintRead, MintMinted, MintFailed
<1>6. ASSUME NEW b \in Ids, NEW u \in Users, CreatePassword(b, u) PROVE FlagStep(a)
  <2> DEFINE r == [Unused EXCEPT !.state = "row", !.user = u]
  <2>1. r.flagged = FALSE
    BY DEF Unused
  <2> HIDE DEF r
  <2>2. accounts' = [accounts EXCEPT ![b] = r] /\ accounts[b].state = "unused"
    BY <1>6 DEF CreatePassword, FreeIds, r
  <2>3. CASE a = b
    BY <1>1, <2>1, <2>2, <2>3 DEF FlagStep, Exists
  <2>4. CASE a # b
    BY <1>1, <1>2, <2>2, <2>4
  <2> QED
    BY <2>3, <2>4
<1>7. ASSUME NEW r \in Removers, RemoveDelete(r) PROVE FlagStep(a)
  <2>1. CASE a # removals[r] \/ UNCHANGED accounts
    BY <1>1, <1>2, <1>7, <2>1 DEF RemoveDelete
  <2>2. CASE a = removals[r] /\ accounts' # accounts
    <3> DEFINE row == [accounts[a] EXCEPT !.state = "gone", !.token = 0, !.flagged = FALSE]
    <3>1. row.state = "gone" /\ row.flagged = FALSE
      BY <1>1, GoneRow
    <3>2. accounts' = [accounts EXCEPT ![a] = row]
      BY <1>7, <2>2 DEF RemoveDelete
    <3> HIDE DEF row
    <3>3. accounts'[a] = row
      BY <1>1, <3>2
    <3> QED
      BY <3>1, <3>3 DEF FlagStep
  <2> QED
    BY <2>1, <2>2
<1> QED
  BY <1>3, <1>4, <1>5, <1>6, <1>7 DEF AccountsNext, accountVars, Start, MintBegin,
     RemoveBegin, Revoke,
     AccountsCrash

\* "Stays failed until a human re-consents": an account is flagged for a token
\* that Google refused, not for an error on the way, and the flag goes only
\* with that token.
THEOREM FlagOfToken == AccountsSpec => FlagFollowsToken
<1>1. Right /\ [AccountsNext]_accountVars => \A a \in Ids : accounts'[a].flagged /\ ~accounts[a].flagged =>
        \E m \in Minters : mints[m].id = a /\ mints[m].token # 0 /\ mints[m].token \notin live
  BY FlagSteps DEF FlagStep
<1>2. Right /\ [AccountsNext]_accountVars => \A a \in Ids :
        accounts[a].flagged /\ Exists(a) /\ ~accounts'[a].flagged =>
          accounts'[a].token # accounts[a].token \/ accounts'[a].state = "gone"
  BY FlagSteps DEF FlagStep
<1> QED
  BY <1>1, <1>2, AlwaysRight, PTL DEF AccountsSpec, FlagFollowsToken, FlagIsEarned,
     FlaggedUntilConsent
=============================================================================
