------------------------- MODULE SenderSuggestions -------------------------
(***************************************************************************)
(* The rule suggestions: domains whose classified mail is mostly marketing *)
(* or newsletters, grouped into look-alike families with the rules that    *)
(* would catch them (sender-rule-suggestions.ts), accepted one family at a *)
(* time while the user keeps rules of their own.                           *)
(*                                                                         *)
(* mail is the classification history of each domain, rules the stored     *)
(* rules.  Families are a set: their order is presentation.  No label of   *)
(* an instance is Punycode.                                                *)
(***************************************************************************)
EXTENDS SenderPatterns

CONSTANTS
    Histories,          \* the classification histories a run starts from
    UserPatterns,       \* the patterns a user writes rules with
    MinShare,           \* <<n, d>>: at least n out of d mails are promotional
    MinEmails,          \* the mails a family needs
    PrefixMinLength,    \* PREFIX_MIN_LENGTH
    PrefixMinMembers,   \* PREFIX_MIN_MEMBERS
    News,               \* the label "news"
    MaxOwn,             \* bound: the user's own rules are among the first
    MaxCreated          \* bound: rules created

ASSUME SuggestionAssumption ==
    /\ \A m \in Histories : IsFiniteSet(DOMAIN m) /\ DOMAIN m \subseteq Hostnames
    /\ UserPatterns \subseteq Patterns
    /\ PrefixMinMembers \in Nat \ {0}
    /\ <<News>> \in ProbeSubdomains
    /\ MaxOwn \in Nat /\ MaxCreated \in Nat /\ MaxOwn <= MaxCreated

VARIABLES mail, rules, created

vars == <<mail, rules, created>>

Total(h) == mail[h].marketing + mail[h].newsletter + mail[h].other
Observed == {h \in DOMAIN mail : Total(h) > 0}
MostlyPromo(h) == (mail[h].marketing + mail[h].newsletter) * MinShare[2] >= MinShare[1] * Total(h)

\* splitDomain: the public suffix is two labels when it is listed.
SuffixSize(h) == IF Len(h) >= 3 /\ SubSeq(h, Len(h) - 1, Len(h)) \in PublicSuffixes THEN 2 ELSE 1
SuffixOf(h) == SubSeq(h, Len(h) - SuffixSize(h) + 1, Len(h))
Sld(h) == h[Len(h) - SuffixSize(h)]
Subdomain(h) == SubSeq(h, 1, Len(h) - SuffixSize(h) - 1)

Stored(p) == [matchType |-> p.matchType, local |-> p.local, host |-> p.host,
              accepts |-> p.accepts, safe |-> p.safe]
HostPattern(type, h) == [matchType |-> type, local |-> NoLocal, host |-> h, accepts |-> {}, safe |-> TRUE]

\* The domains a rule may be proposed for.
Qualifying(rs) ==
    {h \in Observed : /\ MostlyPromo(h)
                      /\ ~IsProtected(h)
                      /\ IsHostname(h)
                      /\ Match(SetToSeq(rs), [local |-> NoLocal, host |-> h]) = <<>>}

\* (b) news.<x>.<suffix>, with a glob only when there are enough of them.
NewsGroups(q) ==
    LET of(sfx) == {h \in q : Subdomain(h) = <<News>> /\ SuffixOf(h) = sfx}
        glob(sfx) == [host |-> <<News, <<"*">>>> \o sfx, members |-> of(sfx)]
    IN  {[kind |-> "news", key |-> sfx, members |-> of(sfx),
          globs |-> IF Cardinality(of(sfx)) >= PrefixMinMembers THEN {glob(sfx)} ELSE {}] :
         sfx \in {s \in {SuffixOf(h) : h \in q} : Cardinality(of(s)) >= 2}}

\* (a) domains under one suffix whose second-level labels share a leading
\* token.  The glob is for the members without a subdomain, when they alone
\* make a family.
PrefixGroups(q) ==
    LET bucket(h) == <<SubSeq(Sld(h), 1, PrefixMinLength), SuffixOf(h)>>
        long == {h \in q : Len(Sld(h)) >= PrefixMinLength}
        of(k) == {h \in long : bucket(h) = k}
        labels(hs) == {Sld(h) : h \in hs}
        apex(k) == {h \in of(k) : Subdomain(h) = <<>>}
        glob(k) == [host |-> <<Append(LongestCommonPrefix(labels(apex(k))), "*")>> \o k[2],
                    members |-> apex(k)]
    IN  {[kind |-> "prefix", key |-> k, members |-> of(k),
          globs |-> IF Cardinality(labels(apex(k))) >= PrefixMinMembers THEN {glob(k)} ELSE {}] :
         k \in {b \in {bucket(h) : h \in long} : Cardinality(labels(of(b))) >= PrefixMinMembers}}

\* (c) everything else, by registrable domain.
SingleGroups(q) ==
    LET key(h) == <<Sld(h)>> \o SuffixOf(h) IN
    {[kind |-> "single", key |-> k, members |-> {h \in q : key(h) = k}, globs |-> {}] :
     k \in {key(h) : h \in q}}

MembersOf(groups) == UNION {g.members : g \in groups}
Groups(rs) ==
    LET q == Qualifying(rs)
        news == NewsGroups(q)
        prefix == PrefixGroups(q \ MembersOf(news))
    IN  news \cup prefix \cup SingleGroups(q \ MembersOf(news \cup prefix))

\* Only the probes of the protected senders are looked at.
CollidesByProbe(g) == {h \in UNION {ProbeHosts(d) : d \in ProtectedDomains} : HostFits(g.host, h)}

\* What a family glob would match although it should not.
Collisions(g) ==
    {h \in UNION {ProbeHosts(d) : d \in ProtectedDomains} : HostFits(g.host, h)}
    \cup {h \in Observed : HostFits(g.host, h) /\ (IsProtected(h) \/ ~MostlyPromo(h))}

Usable(g) == Collisions(g) = {} /\ PatternOk(HostPattern("glob", g.host))

\* A member a glob was meant for needs no rule, whether the glob is usable or not.
ProposedOnceEach(group) ==
    {HostPattern("glob", g.host) : g \in {g \in group.globs : Usable(g)}}
    \cup {HostPattern("domain", h) : h \in group.members \ UNION {g.members : g \in group.globs}}

\* The proposals of a family: its usable globs, and a domain rule for every
\* member no glob stands for.
Proposed(group) ==
    LET usable == {g \in group.globs : Usable(g)} IN
    {HostPattern("glob", g.host) : g \in usable}
    \cup {HostPattern("domain", h) : h \in group.members \ UNION {g.members : g \in usable}}

BigEnough(group) == MapThenSumSet(Total, group.members) >= MinEmails

Families(rs) == {[members |-> g.members, proposed |-> Proposed(g)] : g \in {g \in Groups(rs) : BigEnough(g)}}

-----------------------------------------------------------------------------

\* A pattern is stored once.
TakenByPattern(rs, p) == \E r \in rs : r.local = p.local /\ r.host = p.host

\* A pattern is stored once per match type: a second create is a 409.
Taken(rs, p) == \E r \in rs : Stored(r) = p

\* What a create makes of a pattern, under a new id.
NewRule(p, id, age) ==
    [matchType |-> p.matchType, local |-> p.local, host |-> p.host, accepts |-> p.accepts,
     safe |-> p.safe, id |-> id, age |-> age, enabled |-> TRUE]

CreateRule(p) ==
    /\ created < MaxOwn
    /\ PatternOk(p) /\ ~Taken(rules, p)
    /\ rules' = rules \cup {NewRule(p, created + 1, created + 1)}
    /\ created' = created + 1
    /\ UNCHANGED mail

\* The user accepts a family: one create after another, refusals skipped,
\* the first perhaps in the millisecond of the rule created before.  The
\* patterns of a family are different ones, none is taken by those before it.
Accept(f) ==
    LET todo == SetToSeq({p \in f.proposed : ~Taken(rules, p)}) IN
    /\ created + Len(todo) <= MaxCreated
    /\ \E start \in {created, created + 1} :
          rules' = rules \cup {NewRule(todo[i], created + i, start + i - 1) :
                               i \in {i \in DOMAIN todo : PatternOk(todo[i])}}
    /\ created' = created + Len(todo)
    /\ UNCHANGED mail

SetEnabled(r, on) ==
    /\ r.enabled # on
    /\ rules' = (rules \ {r}) \cup {[r EXCEPT !.enabled = on]}
    /\ UNCHANGED <<mail, created>>

RemoveRule(r) ==
    /\ rules' = rules \ {r}
    /\ UNCHANGED <<mail, created>>

Init ==
    /\ mail \in Histories
    /\ rules = {}
    /\ created = 0

Next ==
    \/ \E p \in UserPatterns : CreateRule(p)
    \/ \E f \in Families(rules) : Accept(f)
    \/ \E r \in rules : RemoveRule(r) \/ \E on \in BOOLEAN : SetEnabled(r, on)

Spec == Init /\ [][Next]_vars

-----------------------------------------------------------------------------

Hosts == (UNION {DOMAIN m : m \in Histories}) \cup (UNION {ProbeHosts(d) : d \in ProtectedDomains})

Rules == [matchType : DOMAIN Rank, local : Seq(Letters), host : Hostnames,
          accepts : SUBSET Hostnames, safe : BOOLEAN,
          id : 1..MaxCreated, age : 0..MaxCreated, enabled : BOOLEAN]

\* Rules are stored once per pattern, each as it was allowed to be stored,
\* under an id of its own.
TypeOK ==
    /\ mail \in Histories
    /\ created \in 0..MaxCreated
    /\ IsFiniteSet(rules) /\ rules \subseteq Rules
    /\ \A r \in rules : /\ r.id <= created
                         /\ PatternOk(r)
                         /\ \A q \in rules : r = q \/ (r.id # q.id /\ Stored(r) # Stored(q))

\* No suggested rule catches a domain that is mostly ordinary mail, nor a
\* host of a protected sender, seen or not: the collision checks of a family
\* glob look only at the domains seen and at a few probes.
SparesLegit ==
    \A f \in Families(rules) : \A p \in f.proposed : \A h \in Hosts :
        Tests(p, [local |-> NoLocal, host |-> h]) =>
            ~IsProtected(h) /\ (h \in Observed => MostlyPromo(h))

\* The rules suggested for a family catch each of its domains, which no
\* other family lists: a rejected glob gives way to rules for its members.
CoversFamily ==
    LET fs == Families(rules) IN
    \A f \in fs : /\ \A h \in f.members : \E p \in f.proposed : Tests(p, [local |-> NoLocal, host |-> h])
                  /\ \A g \in fs : f = g \/ f.members \cap g.members = {}

\* What the user accepts is settled: its domains are suggested no more.  The
\* exception is a domain a disabled rule would catch: the create is answered
\* 409, and the family comes back for as long as that rule is disabled.
AcceptedIsSettled ==
    [][created' > created => \A f \in Families(rules) :
            Accept(f) => \A h \in f.members \cap Qualifying(rules') :
                \E r \in rules : ~r.enabled /\ Stored(r) \in f.proposed]_vars

\* The winning rule does not depend on the order the database lists rules in.
MatchIgnoresOrder ==
    LET listed == SetToSeq(rules) IN
    \A h \in Hosts : LET s == [local |-> CHOOSE l \in ProbeLocals : TRUE, host |-> h] IN
        Match(listed, s) = Match(Reverse(listed), s)

\* The warnings of a stored rule name no protected sender it spares, and for
\* the types checked without probes they name each one it catches.
WarnsOfProtected ==
    \A r \in rules, d \in ProtectedDomains :
        LET caught == \E h \in Hosts \cup {r.host}, l \in ProbeLocals \cup {r.local} :
                         IsSuffix(d, h) /\ Tests(r, [local |-> l, host |-> h])
        IN  IF r.matchType \in {"glob", "regex"} THEN d \in ProtectedHits(r) => caught
            ELSE d \in ProtectedHits(r) <=> caught

\* What is suggested for a family fits it: all of it, and nothing legitimate.
ProposalsFit == CoversFamily /\ SparesLegit
=============================================================================
