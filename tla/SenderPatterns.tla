--------------------------- MODULE SenderPatterns ---------------------------
(***************************************************************************)
(* What a sender rule matches, which of several matching rules wins, which *)
(* patterns may be stored, and which protected senders a pattern reaches   *)
(* (sender-rule-matcher.ts, protected-senders.ts, sender-rules.schemas.ts).*)
(*                                                                         *)
(* A hostname is a sequence of labels, a label a sequence of letters; "*"  *)
(* and "?" are letters of globs only.  A sender is a local part and a      *)
(* hostname.  A regex is the set of hostnames it accepts and whether       *)
(* isSafeSenderRegex lets it run; the length that orders two regexes is    *)
(* left out, an instance has one of them.  Values are lowercase and short, *)
(* so normalisation and truncation change nothing here.                    *)
(***************************************************************************)
EXTENDS Naturals, Sequences, FiniteSets, SequencesExt, TLC

CONSTANTS
    ProtectedDomains,   \* PROTECTED_SENDER_DOMAINS
    ProbeSubdomains,    \* PROBE_SUBDOMAINS, as sequences of labels
    ProbeLocals,        \* PROBE_LOCAL_PARTS
    PublicSuffixes,     \* PUBLIC_SUFFIX_DENYLIST
    CanaryDomains,      \* SENDER_RULE_CANARY_DOMAINS
    CanaryLocals,       \* SENDER_RULE_CANARY_LOCAL_PARTS
    GlobMinLiterals     \* SENDER_RULE_GLOB_MIN_LITERALS

Wild == {"*", "?"}
Letters == STRING \cup Wild

NoLocal == <<>>
Hostnames == Seq(Seq(Letters))

\* The protected domains are registrable, and among the hosts probed for one
\* are the domain itself and its subdomains.
ASSUME PatternAssumption ==
    /\ ProtectedDomains \subseteq {d \in Hostnames : Len(d) >= 2} \ PublicSuffixes
    /\ ProbeSubdomains \subseteq Hostnames /\ <<>> \in ProbeSubdomains
    /\ ProbeLocals \subseteq Seq(Letters) /\ ProbeLocals # {}

Rank == [address |-> 0, domain |-> 1, domain_suffix |-> 2, glob |-> 3, regex |-> 4]

Patterns == [matchType : DOMAIN Rank, local : Seq(Letters), host : Hostnames,
             accepts : SUBSET Hostnames, safe : BOOLEAN]

\* A glob names addresses when it has an "@"; the regexes here name domains.
TargetsAddress(r) == r.matchType = "address" \/ (r.matchType = "glob" /\ r.local # NoLocal)

\* The anchored expression of a glob, within one label or the local part:
\* each letter p[i] stands for the letters of s after cut[i - 1] up to cut[i],
\* "*" for any run of them, "?" for any one; neither crosses a label.
Fits(p, s) ==
    \E cut \in [0..Len(p) -> 0..Len(s)] :
        /\ cut[0] = 0 /\ cut[Len(p)] = Len(s)
        /\ \A i \in 1..Len(p) :
              IF p[i] = "*" THEN cut[i] >= cut[i - 1]
              ELSE cut[i] = cut[i - 1] + 1 /\ p[i] \in {"?", s[cut[i]]}

HostFits(p, h) == Len(p) = Len(h) /\ \A i \in DOMAIN p : Fits(p[i], h[i])

\* The test of a compiled rule on a sender, with the target it is run on.
Tests(r, s) ==
    CASE r.matchType = "address" -> s.local = r.local /\ s.host = r.host
      [] r.matchType = "domain" -> s.host = r.host
      [] r.matchType = "domain_suffix" -> IsSuffix(r.host, s.host)
      [] r.matchType = "glob" -> /\ HostFits(r.host, s.host)
                                 /\ TargetsAddress(r) => s.local # NoLocal /\ Fits(r.local, s.local)
      [] r.matchType = "regex" -> s.host \in r.accepts

Places(h) == UNION {{i} \X DOMAIN h[i] : i \in DOMAIN h}

\* The length of the pattern, with its dots and its "@".
LettersOf(h) == Cardinality(Places(h)) + Len(h) - 1
PatternSize(r) == LettersOf(r.host) + IF r.local = NoLocal THEN 0 ELSE Len(r.local) + 1

\* Rules created in the same millisecond are not told apart.
PrecedesButIds(r, q) ==
    \/ Rank[r.matchType] < Rank[q.matchType]
    \/ /\ Rank[r.matchType] = Rank[q.matchType]
       /\ \/ PatternSize(r) > PatternSize(q)
          \/ PatternSize(r) = PatternSize(q) /\ r.age < q.age

\* compareRulePrecedence: match type, then the longer pattern, then the older
\* rule, then the id.
Precedes(r, q) ==
    \/ Rank[r.matchType] < Rank[q.matchType]
    \/ /\ Rank[r.matchType] = Rank[q.matchType]
       /\ \/ PatternSize(r) > PatternSize(q)
          \/ /\ PatternSize(r) = PatternSize(q)
             /\ r.age < q.age \/ (r.age = q.age /\ r.id < q.id)

Compiles(r) == r.matchType = "regex" => r.safe

\* The order compileRules tries the rules of a list in: sorted by precedence,
\* those that precedence does not tell apart as they are listed.
ComesBefore(rules, i, j) ==
    \/ Precedes(rules[i], rules[j])
    \/ ~Precedes(rules[j], rules[i]) /\ i < j

\* The enabled rules of the list that compile and match.
Matching(rules, s) ==
    {i \in DOMAIN rules : rules[i].enabled /\ Compiles(rules[i]) /\ Tests(rules[i], s)}

\* The rule that wins for a sender: the first compiled one that matches.
Match(rules, s) ==
    LET hits == Matching(rules, s) IN
    IF hits = {} THEN <<>>
    ELSE <<rules[CHOOSE i \in hits : \A j \in hits \ {i} : ComesBefore(rules, i, j)]>>

\* Canary senders a glob or regex would match.
CanaryHits(r) ==
    {h \in CanaryDomains : \E l \in CanaryLocals : Tests(r, [local |-> l, host |-> h])}

IsLiteral(l) == \E i \in DOMAIN l : l[i] \notin Wild
LiteralDomain(h) == SelectSeq(h, IsLiteral)
Literals(r) ==
    LET labels == <<r.local>> \o r.host IN
    Cardinality({place \in Places(labels) : labels[place[1]][place[2]] \notin Wild})

IsHostname(h) == Len(h) >= 2 /\ \A i \in DOMAIN h : Len(h[i]) > 0 /\ \A j \in DOMAIN h[i] : h[i][j] \notin Wild

\* senderRulePatternError finds nothing to say: the pattern may be stored.
PatternOk(r) ==
    CASE r.matchType \in {"address", "domain"} -> IsHostname(r.host)
      [] r.matchType = "domain_suffix" -> IsHostname(r.host) /\ r.host \notin PublicSuffixes
      [] r.matchType = "glob" -> /\ Literals(r) >= GlobMinLiterals
                                 /\ LiteralDomain(r.host) \notin {<<>>} \cup PublicSuffixes
                                 /\ CanaryHits(r) = {}
      [] r.matchType = "regex" -> r.safe /\ CanaryHits(r) = {}

\* isProtectedDomain: a protected domain or a subdomain of one.
IsProtected(h) == \E d \in ProtectedDomains : IsSuffix(d, h)

ProbeHosts(d) == {p \o d : p \in ProbeSubdomains}

\* A suffix is only compared with the domains under it.
HitsAbove(r) ==
    CASE r.matchType \in {"address", "domain"} -> {d \in ProtectedDomains : IsSuffix(d, r.host)}
      [] r.matchType = "domain_suffix" -> {d \in ProtectedDomains : IsSuffix(r.host, d)}
      [] OTHER -> {d \in ProtectedDomains : \E h \in ProbeHosts(d), l \in ProbeLocals :
                        Compiles(r) /\ Tests(r, [local |-> l, host |-> h])}

\* protectedHits: the protected domains a pattern is known to reach.  The
\* exact types are compared with them, the others tried on the probes.
ProtectedHits(r) ==
    CASE r.matchType \in {"address", "domain"} -> {d \in ProtectedDomains : IsSuffix(d, r.host)}
      [] r.matchType = "domain_suffix" ->
            {d \in ProtectedDomains : IsSuffix(r.host, d) \/ IsSuffix(d, r.host)}
      [] OTHER -> {d \in ProtectedDomains : \E h \in ProbeHosts(d), l \in ProbeLocals :
                        Compiles(r) /\ Tests(r, [local |-> l, host |-> h])}
=============================================================================
