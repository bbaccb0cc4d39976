-------------------------- MODULE AlgorithmsProofs --------------------------
(***************************************************************************)
(* What the algorithms promise, for any history, any rules, any protected  *)
(* senders, and any answers of the model.                                  *)
(***************************************************************************)
EXTENDS SenderSuggestions, Triage, TLAPS, SequenceTheorems, FiniteSetTheorems, FunctionTheorems

----------------------------------------------------------------------------
(* Natural numbers and finite sets.                                        *)

\* Induction, for a set.
LEMMA Inductive == ASSUME NEW T, 0 \in T, \A n \in Nat \cap T : n + 1 \in T
                   PROVE  Nat \subseteq T
<1> SUFFICES ASSUME Nat \ T # {} PROVE FALSE
  OBVIOUS
<1> DEFINE Missing == Nat \ T
<1>1. PICK n \in Missing : \A k \in Missing : ~(<<k, n>> \in OpToRel(<, Nat))
  <2>1. Missing \subseteq Nat /\ Missing # {}
    OBVIOUS
  <2> HIDE DEF Missing
  <2> QED BY <2>1, NatLessThanWellFounded, WFMin
<1>2. n # 0 /\ n - 1 \in Nat
  OBVIOUS
<1>3. n - 1 \in T
  <2>1. <<n - 1, n>> \in OpToRel(<, Nat)
    BY <1>2 DEF OpToRel
  <2> QED BY <1>1, <1>2, <2>1
<1> QED BY <1>2, <1>3

\* A set of bounded numbers has a greatest one.
LEMMA GreatestExists == ASSUME NEW S \in SUBSET Nat, S # {}, NEW b \in Nat, \A n \in S : n <= b
                        PROVE  \E m \in S : \A n \in S : n <= m
<1> DEFINE Distance == {b - n : n \in S}
<1>1. Distance \subseteq Nat /\ Distance # {}
  <2>1. ASSUME NEW n \in S PROVE b - n \in Nat
    OBVIOUS
  <2> QED BY <2>1
<1> HIDE DEF Distance
<1>2. PICK d \in Distance : \A e \in Distance : ~(<<e, d>> \in OpToRel(<, Nat))
  BY <1>1, NatLessThanWellFounded, WFMin
<1>3. \A e \in Distance : ~(e < d)
  BY <1>1, <1>2 DEF OpToRel
<1>4. PICK m \in S : d = b - m
  BY DEF Distance
<1>5. ASSUME NEW n \in S PROVE n <= m
  <2>1. b - n \in Distance
    BY DEF Distance
  <2> QED BY <1>3, <1>4, <2>1
<1> QED BY <1>5

\* A finite set as a sequence without repetitions.
LEMMA ListIs == ASSUME NEW S, IsFiniteSet(S)
                PROVE  /\ SetToSeq(S) \in [1..Cardinality(S) -> S] /\ Cardinality(S) \in Nat
                       /\ Len(SetToSeq(S)) = Cardinality(S) /\ DOMAIN SetToSeq(S) = 1..Cardinality(S)
                       /\ \A x \in S : \E i \in 1..Cardinality(S) : SetToSeq(S)[i] = x
                       /\ \A i, j \in 1..Cardinality(S) : SetToSeq(S)[i] = SetToSeq(S)[j] => i = j
<1> DEFINE n == Cardinality(S)
<1>1. n \in Nat /\ ExistsBijection(1..n, S)
  BY FS_CardinalityType
<1>2. PICK f \in [1..n -> S] : \A i, j \in 1..n : f[i] = f[j] => i = j
  BY <1>1 DEF ExistsBijection, Bijection, Injection, Surjection, IsInjective
<1>3. IsInjective(f)
  BY <1>2 DEF IsInjective
<1> DEFINE g == SetToSeq(S)
<1>4. g \in [1..n -> S] /\ IsInjective(g)
  BY <1>2, <1>3 DEF SetToSeq
<1> HIDE DEF g
<1>5. \A i, j \in 1..n : g[i] = g[j] => i = j
  BY <1>4 DEF IsInjective
<1>6. g \in Injection(1..n, S)
  BY <1>4 DEF Injection
<1>7. IsFiniteSet(1..n) /\ Cardinality(1..n) = n
  BY <1>1, FS_Interval
<1>8. g \in Surjection(1..n, S)
  BY <1>6, <1>7, FS_Injection
<1>9. \A x \in S : \E i \in 1..n : g[i] = x
  BY <1>8 DEF Surjection
<1>10. Len(g) = n /\ DOMAIN g = 1..n
  BY <1>1, <1>4
<1> QED BY <1>1, <1>4, <1>5, <1>9, <1>10 DEF g

----------------------------------------------------------------------------
(* Sequences.                                                              *)

LEMMA SuffixIs == ASSUME NEW S, NEW s \in Seq(S), NEW t \in Seq(S)
                  PROVE  IsSuffix(s, t) <=>
                            /\ Len(s) <= Len(t)
                            /\ \A i \in 1..Len(s) : s[i] = t[Len(t) - Len(s) + i]
<1> DEFINE m == Len(s)
           n == Len(t)
           a == Reverse(s)
           b == Reverse(t)
<1>1. m \in Nat /\ n \in Nat
  OBVIOUS
<1>2. /\ a \in Seq(S) /\ Len(a) = m /\ \A i \in 1..m : a[i] = s[m - i + 1]
      /\ b \in Seq(S) /\ Len(b) = n /\ \A i \in 1..n : b[i] = t[n - i + 1]
  BY DEF Reverse
<1> HIDE DEF a, b
<1>3. IsSuffix(s, t) <=> m <= n /\ SubSeq(a, 1, m) = SubSeq(b, 1, m)
  BY <1>2 DEF IsSuffix, IsPrefix, a, b
<1>4. CASE m <= n
  <2>1. /\ SubSeq(a, 1, m) = [i \in 1..m |-> a[i]]
        /\ SubSeq(b, 1, m) = [i \in 1..m |-> b[i]]
    BY <1>1, <1>2, <1>4
  <2>2. IsSuffix(s, t) <=> \A i \in 1..m : s[m - i + 1] = t[n - i + 1]
    <3>1. IsSuffix(s, t) <=> [i \in 1..m |-> a[i]] = [i \in 1..m |-> b[i]]
      BY <1>3, <1>4, <2>1
    <3>2. IsSuffix(s, t) <=> \A i \in 1..m : a[i] = b[i]
      BY <3>1
    <3>3. \A i \in 1..m : i \in 1..n
      BY <1>1, <1>4
    <3>4. ASSUME NEW i \in 1..m PROVE a[i] = s[m - i + 1] /\ b[i] = t[n - i + 1]
      BY <1>2, <3>3
    <3>5. (\A i \in 1..m : a[i] = b[i]) <=> (\A i \in 1..m : s[m - i + 1] = t[n - i + 1])
      <4>1. ASSUME \A i \in 1..m : a[i] = b[i], NEW i \in 1..m
            PROVE  s[m - i + 1] = t[n - i + 1]
        BY <3>4, <4>1
      <4>2. ASSUME \A i \in 1..m : s[m - i + 1] = t[n - i + 1], NEW i \in 1..m
            PROVE  a[i] = b[i]
        BY <3>4, <4>2
      <4> QED BY <4>1, <4>2
    <3> QED BY <3>2, <3>5
  <2>3. ASSUME \A i \in 1..m : s[m - i + 1] = t[n - i + 1], NEW i \in 1..m
        PROVE  s[i] = t[n - m + i]
    <3>1. m - i + 1 \in 1..m /\ m - (m - i + 1) + 1 = i /\ n - (m - i + 1) + 1 = n - m + i
      BY <1>1
    <3> QED BY <2>3, <3>1
  <2>4. ASSUME \A i \in 1..m : s[i] = t[n - m + i], NEW i \in 1..m
        PROVE  s[m - i + 1] = t[n - i + 1]
    <3>1. m - i + 1 \in 1..m /\ n - m + (m - i + 1) = n - i + 1
      BY <1>1
    <3> QED BY <2>4, <3>1
  <2> QED BY <1>4, <2>2, <2>3, <2>4
<1> QED BY <1>1, <1>3, <1>4

\* Of two suffixes of one sequence, the shorter is a suffix of the longer.
LEMMA SuffixesNest == ASSUME NEW S, NEW s \in Seq(S), NEW t \in Seq(S), NEW u \in Seq(S),
                             IsSuffix(s, u), IsSuffix(t, u)
                      PROVE  IsSuffix(s, t) \/ IsSuffix(t, s)
<1>1. /\ Len(s) \in Nat /\ Len(t) \in Nat /\ Len(u) \in Nat
      /\ Len(s) <= Len(u) /\ Len(t) <= Len(u)
      /\ \A i \in 1..Len(s) : s[i] = u[Len(u) - Len(s) + i]
      /\ \A i \in 1..Len(t) : t[i] = u[Len(u) - Len(t) + i]
  BY SuffixIs
<1>2. ASSUME NEW a \in Seq(S), NEW b \in Seq(S), Len(a) <= Len(b), Len(b) <= Len(u),
             \A i \in 1..Len(a) : a[i] = u[Len(u) - Len(a) + i],
             \A i \in 1..Len(b) : b[i] = u[Len(u) - Len(b) + i]
      PROVE  IsSuffix(a, b)
  <2>1. ASSUME NEW i \in 1..Len(a) PROVE a[i] = b[Len(b) - Len(a) + i]
    <3>1. Len(a) \in Nat /\ Len(b) \in Nat
      OBVIOUS
    <3>2. /\ Len(b) - Len(a) + i \in 1..Len(b)
          /\ Len(u) - Len(b) + (Len(b) - Len(a) + i) = Len(u) - Len(a) + i
      BY <1>1, <1>2, <3>1
    <3> QED BY <1>2, <3>2
  <2> QED BY <1>2, <2>1, SuffixIs
<1>3. CASE Len(s) <= Len(t)
  BY <1>1, <1>2, <1>3
<1>4. CASE Len(t) <= Len(s)
  BY <1>1, <1>2, <1>4
<1> QED BY <1>1, <1>3, <1>4

LEMMA SuffixItself == ASSUME NEW S, NEW s \in Seq(S) PROVE IsSuffix(s, s)
BY SuffixIs

LEMMA SuffixConcat == ASSUME NEW S, NEW p \in Seq(S), NEW s \in Seq(S) PROVE IsSuffix(s, p \o s)
<1>1. /\ p \o s \in Seq(S) /\ Len(p \o s) = Len(p) + Len(s)
      /\ \A i \in 1..Len(p) + Len(s) : (p \o s)[i] = IF i <= Len(p) THEN p[i] ELSE s[i - Len(p)]
  BY ConcatProperties
<1>2. ASSUME NEW i \in 1..Len(s) PROVE s[i] = (p \o s)[Len(p) + i]
  BY <1>1
<1>3. Len(p \o s) - Len(s) = Len(p) /\ Len(s) <= Len(p \o s)
  BY <1>1
<1>4. \A i \in 1..Len(s) : s[i] = (p \o s)[Len(p \o s) - Len(s) + i]
  BY <1>2, <1>3
<1> QED BY <1>1, <1>3, <1>4, SuffixIs

----------------------------------------------------------------------------
(* Globs.                                                                  *)

\* A word without wildcards fits itself only.
LEMMA LiteralFits == ASSUME NEW p \in Seq(Letters), NEW s \in Seq(Letters),
                            \A i \in DOMAIN p : p[i] \notin Wild, Fits(p, s)
                     PROVE  p = s
<1> DEFINE m == Len(p)
           n == Len(s)
<1>1. m \in Nat /\ n \in Nat /\ DOMAIN p = 1..m
  OBVIOUS
<1>2. PICK cut \in [0..m -> 0..n] :
         /\ cut[0] = 0 /\ cut[m] = n
         /\ \A i \in 1..m : IF p[i] = "*" THEN cut[i] >= cut[i - 1]
                            ELSE cut[i] = cut[i - 1] + 1 /\ p[i] \in {"?", s[cut[i]]}
  BY DEF Fits
<1>3. \A i \in 1..m : cut[i] = cut[i - 1] + 1 /\ p[i] = s[cut[i]]
  BY <1>1, <1>2 DEF Wild
<1> DEFINE T == {i \in Nat : i <= m => cut[i] = i}
<1>4. 0 \in T
  BY <1>2
<1>5. ASSUME NEW i \in Nat \cap T PROVE i + 1 \in T
  <2> SUFFICES ASSUME i + 1 <= m PROVE cut[i + 1] = i + 1
    OBVIOUS
  <2>1. i + 1 \in 1..m /\ (i + 1) - 1 = i /\ i <= m
    BY <1>1
  <2> QED BY <1>3, <2>1
<1>6. Nat \subseteq T
  <2> HIDE DEF T
  <2> QED BY <1>4, <1>5, Inductive
<1>7. \A i \in 0..m : cut[i] = i
  BY <1>1, <1>6
<1>8. m = n
  <2>1. m \in 0..m
    BY <1>1
  <2> HIDE DEF m, n
  <2> QED BY <1>2, <1>7, <2>1
<1>9. \A i \in 1..m : p[i] = s[i]
  <2>1. \A i \in 1..m : i \in 0..m
    BY <1>1
  <2> QED BY <1>3, <1>7, <2>1
<1> QED BY <1>8, <1>9, SeqEqual

\* A word without wildcards and then a star fits the words it begins.
LEMMA PrefixFits == ASSUME NEW p \in Seq(Letters), NEW s \in Seq(Letters), Len(p) <= Len(s),
                           \A i \in 1..Len(p) : p[i] = s[i] /\ p[i] \notin Wild
                    PROVE  Fits(Append(p, "*"), s)
<1> DEFINE m == Len(p)
           n == Len(s)
           q == Append(p, "*")
           cut == [i \in 0..Len(q) |-> IF i <= m THEN i ELSE n]
<1>1. m \in Nat /\ n \in Nat
  OBVIOUS
<1>2. Len(q) = m + 1 /\ q[m + 1] = "*" /\ \A i \in 1..m : q[i] = p[i]
  BY AppendProperties
<1> HIDE DEF q
<1>3. cut \in [0..Len(q) -> 0..n] /\ cut[0] = 0 /\ cut[Len(q)] = n
  BY <1>1, <1>2
<1>4. ASSUME NEW i \in 1..Len(q)
      PROVE  IF q[i] = "*" THEN cut[i] >= cut[i - 1]
             ELSE cut[i] = cut[i - 1] + 1 /\ q[i] \in {"?", s[cut[i]]}
  <2>1. CASE i \in 1..m
    <3>1. cut[i] = i /\ cut[i - 1] = i - 1 /\ q[i] # "*" /\ q[i] = s[i]
      BY <1>1, <1>2, <2>1 DEF Wild
    <3> QED BY <1>1, <2>1, <3>1
  <2>2. CASE i = m + 1
    <3>1. cut[i] = n /\ cut[i - 1] = m /\ q[i] = "*"
      BY <1>1, <1>2, <2>2
    <3> QED BY <1>1, <3>1
  <2> QED BY <1>1, <1>2, <2>1, <2>2
<1> HIDE DEF cut
<1> QED BY <1>3, <1>4 DEF Fits, q

LEMMA FitsItself == ASSUME NEW s \in Seq(Letters), \A i \in 1..Len(s) : s[i] \notin Wild
                    PROVE  Fits(s, s)
<1> DEFINE cut == [i \in 0..Len(s) |-> i]
<1>1. Len(s) \in Nat
  OBVIOUS
<1>2. cut \in [0..Len(s) -> 0..Len(s)] /\ cut[0] = 0 /\ cut[Len(s)] = Len(s)
  BY <1>1
<1>3. ASSUME NEW i \in 1..Len(s)
      PROVE  IF s[i] = "*" THEN cut[i] >= cut[i - 1]
             ELSE cut[i] = cut[i - 1] + 1 /\ s[i] \in {"?", s[cut[i]]}
  BY <1>1 DEF Wild
<1> HIDE DEF cut
<1> QED BY <1>2, <1>3 DEF Fits

LEMMA StarIsWord == "*" \in Letters /\ <<"*">> \in Seq(Letters)
<1>1. "*" \in Letters
  BY DEF Letters, Wild
<1> QED BY <1>1

\* The star fits every word.
LEMMA StarFits == ASSUME NEW s \in Seq(Letters) PROVE Fits(<<"*">>, s)
<1>1. <<>> \in Seq(Letters) /\ Len(<<>>) = 0 /\ Append(<<>>, "*") = <<"*">> /\ Len(s) \in Nat
  BY EmptySeq
<1>2. Len(<<>>) <= Len(s) /\ \A i \in 1..Len(<<>>) : <<>>[i] = s[i] /\ <<>>[i] \notin Wild
  BY <1>1
<1>3. Fits(Append(<<>>, "*"), s)
  BY <1>1, <1>2, PrefixFits
<1> QED BY <1>1, <1>3

\* The longest common prefix begins each of the words.
LEMMA CommonPrefixIs == ASSUME NEW S \in SUBSET Seq(Letters), S # {}
                        PROVE  /\ LongestCommonPrefix(S) \in Seq(Letters)
                               /\ \A s \in S : /\ Len(LongestCommonPrefix(S)) <= Len(s)
                                               /\ \A i \in 1..Len(LongestCommonPrefix(S)) :
                                                     LongestCommonPrefix(S)[i] = s[i]
<1> DEFINE C == CommonPrefixes(S)
<1>1. PICK one \in S : TRUE
  OBVIOUS
<1>2. one \in Seq(Letters) /\ Len(one) \in Nat
  BY <1>1
<1>3. ASSUME NEW c \in C
      PROVE  /\ c \in Seq(Letters) /\ Len(c) \in Nat
             /\ \A s \in S : Len(c) <= Len(s) /\ \A i \in 1..Len(c) : c[i] = s[i]
  <2>1. PICK seq \in S : \E l \in 0..Len(seq) : c = SubSeq(seq, 1, l)
    BY DEF CommonPrefixes, Prefixes
  <2>5. PICK l \in 0..Len(seq) : c = SubSeq(seq, 1, l)
    BY <2>1
  <2>2. seq \in Seq(Letters) /\ l \in Int /\ \A i \in 1..l : seq[i] \in Letters
    BY <2>5
  <2>3. c \in Seq(Letters)
    BY <2>5, <2>2, SubSeqProperties
  <2>4. ASSUME NEW s \in S PROVE Len(c) <= Len(s) /\ \A i \in 1..Len(c) : c[i] = s[i]
    <3>1. IsPrefix(c, s) /\ s \in Seq(Letters)
      BY DEF CommonPrefixes
    <3>2. Len(c) <= Len(s) /\ SubSeq(c, 1, Len(c)) = SubSeq(s, 1, Len(c))
      BY <3>1 DEF IsPrefix
    <3>3. ASSUME NEW i \in 1..Len(c) PROVE c[i] = s[i]
      <4>1. SubSeq(c, 1, Len(c))[i] = c[i] /\ SubSeq(s, 1, Len(c))[i] = s[i]
        BY <2>3, <3>1, <3>2
      <4> QED BY <3>2, <4>1
    <3> QED BY <3>2, <3>3
  <2> QED BY <2>3, <2>4
<1>4. <<>> \in C
  <2>1. SubSeq(one, 1, 0) = <<>>
    BY <1>2, SubSeqEmpty
  <2>2. <<>> \in Prefixes(one)
    BY <1>2, <2>1 DEF Prefixes
  <2>3. ASSUME NEW s \in S PROVE IsPrefix(<<>>, s)
    <3>1. SubSeq(s, 1, 0) = <<>> /\ SubSeq(<<>>, 1, 0) = <<>> /\ Len(<<>>) = 0 /\ Len(s) \in Nat
      BY SubSeqEmpty
    <3> QED BY <3>1 DEF IsPrefix
  <2> QED BY <1>1, <2>2, <2>3 DEF CommonPrefixes
<1>5. \E l \in C : \A c \in C : Len(c) <= Len(l)
  <2> DEFINE L == {Len(c) : c \in C}
  <2>1. L \in SUBSET Nat /\ L # {} /\ \A x \in L : x <= Len(one)
    BY <1>1, <1>3, <1>4
  <2> HIDE DEF L
  <2>2. PICK x \in L : \A y \in L : y <= x
    BY <1>2, <2>1, GreatestExists
  <2> QED BY <2>2 DEF L
<1>6. LongestCommonPrefix(S) \in C
  BY <1>5 DEF LongestCommonPrefix
<1> QED BY <1>3, <1>6

----------------------------------------------------------------------------
(* The order of precedence.                                                *)

LEMMA PlacesFinite == ASSUME NEW h \in Hostnames PROVE Cardinality(Places(h)) \in Nat
<1> DEFINE Row(i) == {i} \X DOMAIN h[i]
           rows == {Row(i) : i \in DOMAIN h}
           f == [i \in DOMAIN h |-> Row(i)]
<1>1. DOMAIN h = 1..Len(h) /\ Len(h) \in Nat /\ IsFiniteSet(DOMAIN h)
  <2>1. DOMAIN h = 1..Len(h) /\ Len(h) \in Nat
    BY DEF Hostnames
  <2> QED BY <2>1, FS_Interval
<1>2. f \in Surjection(DOMAIN h, rows)
  BY DEF Surjection
<1>3. IsFiniteSet(rows)
  <2> HIDE DEF f, rows
  <2> QED BY <1>1, <1>2, FS_Surjection
<1>4. ASSUME NEW R \in rows PROVE IsFiniteSet(R)
  <2>1. PICK i \in DOMAIN h : R = {i} \X DOMAIN h[i]
    OBVIOUS
  <2>2. h[i] \in Seq(Letters)
    BY <2>1 DEF Hostnames
  <2>3. IsFiniteSet(DOMAIN h[i])
    <3>1. DOMAIN h[i] = 1..Len(h[i]) /\ Len(h[i]) \in Nat
      BY <2>2
    <3> QED BY <3>1, FS_Interval
  <2> QED BY <2>1, <2>3, FS_Singleton, FS_Product
<1>5. IsFiniteSet(UNION rows)
  <2> HIDE DEF rows
  <2> QED BY <1>3, <1>4, FS_UNION
<1> QED BY <1>5, FS_CardinalityType DEF Places

LEMMA SizeIsInt == ASSUME NEW r \in Rules PROVE PatternSize(r) \in Int
<1>1. r.host \in Hostnames /\ r.local \in Seq(Letters)
  BY DEF Rules
<1>2. Cardinality(Places(r.host)) \in Nat /\ Len(r.host) \in Nat /\ Len(r.local) \in Nat
  BY <1>1, PlacesFinite DEF Hostnames
<1> QED BY <1>2 DEF PatternSize, LettersOf

LEMMA RankIsNat == ASSUME NEW r \in Rules PROVE Rank[r.matchType] \in Nat
<1>1. r.matchType \in {"address", "domain", "domain_suffix", "glob", "regex"}
  BY DEF Rules, Rank
<1> QED BY <1>1 DEF Rank

\* Of two rules one precedes the other, by their ids if by nothing else.
LEMMA PrecedesIsTotal == ASSUME NEW r \in Rules, NEW q \in Rules, r.id # q.id
                         PROVE  Precedes(r, q) <=> ~Precedes(q, r)
<1>1. /\ PatternSize(r) \in Int /\ PatternSize(q) \in Int
      /\ Rank[r.matchType] \in Nat /\ Rank[q.matchType] \in Nat
  BY SizeIsInt, RankIsNat
<1>2. r.age \in Nat /\ q.age \in Nat /\ r.id \in Nat /\ q.id \in Nat
  BY SuggestionAssumption DEF Rules
<1> QED BY <1>1, <1>2 DEF Precedes

LEMMA PrecedesIsTransitive ==
    ASSUME NEW r \in Rules, NEW q \in Rules, NEW p \in Rules, Precedes(r, q), Precedes(q, p)
    PROVE  Precedes(r, p)
<1>1. /\ PatternSize(r) \in Int /\ PatternSize(q) \in Int /\ PatternSize(p) \in Int
      /\ Rank[r.matchType] \in Nat /\ Rank[q.matchType] \in Nat /\ Rank[p.matchType] \in Nat
  BY SizeIsInt, RankIsNat
<1>2. /\ r.age \in Nat /\ q.age \in Nat /\ p.age \in Nat
      /\ r.id \in Nat /\ q.id \in Nat /\ p.id \in Nat
  BY SuggestionAssumption DEF Rules
<1> QED BY <1>1, <1>2 DEF Precedes

\* A list of the rules, in some order.
Lists(list, rs) == /\ list \in Seq(rs)
                   /\ \A r \in rs : \E i \in 1..Len(list) : list[i] = r
                   /\ \A i, j \in 1..Len(list) : list[i] = list[j] => i = j

DifferentIds(rs) == rs \subseteq Rules /\ \A r, q \in rs : r = q \/ r.id # q.id

\* Among some places of a list, one holds the rule that precedes the others.
LEMMA FirstExists ==
    ASSUME NEW rs, NEW list, DifferentIds(rs), Lists(list, rs),
           NEW H \in SUBSET (1..Len(list)), H # {}
    PROVE  \E i \in H : \A j \in H \ {i} : Precedes(list[i], list[j])
<1> DEFINE First(S) == \E i \in S : \A j \in S \ {i} : Precedes(list[i], list[j])
           T == {n \in Nat : \A S \in SUBSET (1..Len(list)) : S \subseteq 1..n /\ S # {} => First(S)}
<1>1. Len(list) \in Nat /\ \A i \in 1..Len(list) : list[i] \in rs
  BY DEF Lists
<1>2. 0 \in T
  <2>1. 1..0 = {}
    OBVIOUS
  <2> QED BY <2>1
<1>3. ASSUME NEW n \in Nat \cap T PROVE n + 1 \in T
  <2> SUFFICES ASSUME NEW S \in SUBSET (1..Len(list)), S \subseteq 1..(n + 1), S # {} PROVE First(S)
    OBVIOUS
  <2> DEFINE R == S \ {n + 1}
  <2>1. R \in SUBSET (1..Len(list)) /\ R \subseteq 1..n
    OBVIOUS
  <2>2. CASE n + 1 \notin S
    BY <2>1, <2>2
  <2>3. CASE n + 1 \in S /\ R = {}
    BY <2>3
  <2>4. CASE n + 1 \in S /\ R # {}
    <3>1. PICK i \in R : \A j \in R \ {i} : Precedes(list[i], list[j])
      BY <2>1, <2>4
    <3>2. /\ i # n + 1 /\ list[i] \in Rules /\ list[n + 1] \in Rules
          /\ list[i].id # list[n + 1].id /\ \A j \in S : list[j] \in Rules
      BY <1>1, <2>1, <2>4 DEF Lists, DifferentIds
    <3>3. CASE Precedes(list[i], list[n + 1])
      BY <3>1, <3>3
    <3>4. CASE Precedes(list[n + 1], list[i])
      <4>1. ASSUME NEW j \in S \ {n + 1} PROVE Precedes(list[n + 1], list[j])
        <5>1. CASE j = i
          BY <3>4, <5>1
        <5>2. CASE j # i
          <6>1. Precedes(list[i], list[j])
            BY <3>1, <5>2
          <6> QED BY <3>2, <3>4, <6>1, PrecedesIsTransitive
        <5> QED BY <5>1, <5>2
      <4> QED BY <2>4, <4>1
    <3> QED BY <3>2, <3>3, <3>4, PrecedesIsTotal
  <2> QED BY <2>2, <2>3, <2>4
<1>4. Nat \subseteq T
  <2> HIDE DEF T
  <2> QED BY <1>2, <1>3, Inductive
<1> QED BY <1>1, <1>4

\* The rules that match a sender, and the one of them that precedes the others.
Hitting(rs, s) == {r \in rs : r.enabled /\ Compiles(r) /\ Tests(r, s)}
Wins(r, rs, s) == r \in Hitting(rs, s) /\ \A q \in Hitting(rs, s) \ {r} : Precedes(r, q)

LEMMA NothingMatches == ASSUME NEW rs, NEW list, NEW s, Lists(list, rs), Hitting(rs, s) = {}
                        PROVE  Match(list, s) = <<>>
<1>1. Matching(list, s) = {}
  <2>1. DOMAIN list = 1..Len(list) /\ \A i \in 1..Len(list) : list[i] \in rs
    BY DEF Lists
  <2> QED BY <2>1 DEF Matching, Hitting
<1> QED BY <1>1 DEF Match

LEMMA MatchIs == ASSUME NEW rs, NEW list, NEW s, DifferentIds(rs), Lists(list, rs), Hitting(rs, s) # {}
                 PROVE  \E r \in rs : Wins(r, rs, s) /\ Match(list, s) = <<r>>
<1> DEFINE H == Matching(list, s)
           n == Len(list)
<1>1. DOMAIN list = 1..n /\ \A i \in 1..n : list[i] \in rs
  BY DEF Lists
<1>2. /\ H \in SUBSET (1..n) /\ \A i \in H : list[i] \in Hitting(rs, s)
      /\ \A r \in Hitting(rs, s) : \E i \in H : list[i] = r
  BY <1>1 DEF Matching, Hitting, Lists
<1> HIDE DEF H
<1>3. H # {}
  BY <1>2
<1>4. \E r \in rs : Wins(r, rs, s) /\ Match(list, s) = <<r>>
  <2>1. ASSUME NEW i \in H, NEW j \in H \ {i}
        PROVE  ComesBefore(list, i, j) <=> Precedes(list[i], list[j])
    <3>1. list[i] \in rs /\ list[j] \in rs /\ list[i] # list[j]
      BY <1>1, <1>2 DEF Lists
    <3>2. list[i] \in Rules /\ list[j] \in Rules /\ list[i].id # list[j].id
      BY <3>1 DEF DifferentIds
    <3> QED BY <3>2, PrecedesIsTotal DEF ComesBefore
  <2> DEFINE Fst(i) == \A j \in H \ {i} : ComesBefore(list, i, j)
  <2>2. PICK i \in H : \A j \in H \ {i} : Precedes(list[i], list[j])
    BY <1>2, <1>3, FirstExists
  <2>3. Fst(i)
    BY <2>1, <2>2
  <2> DEFINE k == CHOOSE x \in H : Fst(x)
  <2>4. k \in H /\ Fst(k)
    BY <2>3
  <2>5. Match(list, s) = <<list[k]>>
    BY <1>3 DEF Match, H
  <2> HIDE DEF k
  <2>6. Wins(list[k], rs, s)
    <3>1. list[k] \in Hitting(rs, s)
      BY <1>2, <2>4
    <3>2. ASSUME NEW q \in Hitting(rs, s) \ {list[k]} PROVE Precedes(list[k], q)
      <4>1. PICK j \in H : list[j] = q
        BY <1>2
      <4>2. j \in H \ {k}
        BY <4>1
      <4> QED BY <2>1, <2>4, <4>1, <4>2
    <3> QED BY <3>1, <3>2 DEF Wins
  <2>7. list[k] \in rs
    BY <1>1, <1>2, <2>4
  <2> QED BY <2>5, <2>6, <2>7
<1> QED BY <1>4

\* Which rule wins does not depend on the order they are listed in.
LEMMA OrderIgnored == ASSUME NEW rs, NEW list, NEW other, NEW s, DifferentIds(rs),
                             Lists(list, rs), Lists(other, rs)
                      PROVE  Match(list, s) = Match(other, s)
<1>1. CASE Hitting(rs, s) = {}
  <2>1. Match(list, s) = <<>>
    BY <1>1, NothingMatches
  <2>2. Match(other, s) = <<>>
    BY <1>1, NothingMatches
  <2> QED BY <2>1, <2>2
<1>2. CASE Hitting(rs, s) # {}
  <2>1. PICK r \in rs : Wins(r, rs, s) /\ Match(list, s) = <<r>>
    BY <1>2, MatchIs
  <2>2. PICK q \in rs : Wins(q, rs, s) /\ Match(other, s) = <<q>>
    BY <1>2, MatchIs
  <2>3. r = q
    <3> SUFFICES ASSUME r # q PROVE FALSE
      OBVIOUS
    <3>1. Precedes(r, q) /\ Precedes(q, r)
      BY <2>1, <2>2 DEF Wins
    <3>2. r \in Rules /\ q \in Rules /\ r.id # q.id
      BY DEF DifferentIds
    <3> QED BY <3>1, <3>2, PrecedesIsTotal
  <2> QED BY <2>1, <2>2, <2>3
<1> QED BY <1>1, <1>2

\* A finite set of rules, as the database lists it and the other way round.
LEMMA ListsAre == ASSUME NEW rs, IsFiniteSet(rs)
                  PROVE  Lists(SetToSeq(rs), rs) /\ Lists(Reverse(SetToSeq(rs)), rs)
<1> DEFINE n == Cardinality(rs)
           f == SetToSeq(rs)
           b == Reverse(f)
<1>1. /\ n \in Nat /\ f \in [1..n -> rs] /\ Len(f) = n
      /\ \A x \in rs : \E i \in 1..n : f[i] = x
      /\ \A i, j \in 1..n : f[i] = f[j] => i = j
  BY ListIs
<1> HIDE DEF n, f
<1>2. Lists(f, rs)
  BY <1>1 DEF Lists
<1>3. b = [i \in 1..n |-> f[n - i + 1]]
  BY <1>1 DEF Reverse
<1>4. \A i \in 1..n : n - i + 1 \in 1..n /\ n - (n - i + 1) + 1 = i
  BY <1>1
<1>5. b \in [1..n -> rs] /\ Len(b) = n
  BY <1>1, <1>3, <1>4
<1>6. \A i \in 1..n : b[i] = f[n - i + 1]
  BY <1>3
<1> HIDE DEF b
<1>7. \A x \in rs : \E i \in 1..n : b[i] = x
  BY <1>1, <1>4, <1>6
<1>8. ASSUME NEW i \in 1..n, NEW j \in 1..n, b[i] = b[j] PROVE i = j
  <2>1. n - i + 1 = n - j + 1
    BY <1>1, <1>4, <1>6, <1>8
  <2> QED BY <1>1, <2>1
<1>9. Lists(b, rs)
  BY <1>1, <1>5, <1>7, <1>8 DEF Lists
<1> QED BY <1>2, <1>9 DEF b, f

----------------------------------------------------------------------------
(* The parts of a hostname, and the globs made of them.                    *)

Literal(l) == l \in Seq(Letters) /\ \A i \in 1..Len(l) : l[i] \notin Wild
LiteralHost(h) == h \in Hostnames /\ \A i \in 1..Len(h) : Literal(h[i])

\* What splitDomain takes for a public suffix.
TopPart(sfx) == LiteralHost(sfx) /\ (Len(sfx) = 1 \/ (Len(sfx) = 2 /\ sfx \in PublicSuffixes))

LEMMA HostParts ==
    ASSUME NEW h \in Hostnames, IsHostname(h)
    PROVE  /\ LiteralHost(h) /\ TopPart(SuffixOf(h)) /\ Literal(Sld(h)) /\ Subdomain(h) \in Hostnames
           /\ Subdomain(h) = <<>> => h = <<Sld(h)>> \o SuffixOf(h)
           /\ \A l \in Seq(Letters) : Subdomain(h) = <<l>> => h = <<l, Sld(h)>> \o SuffixOf(h)
<1> DEFINE n == Len(h)
           k == SuffixSize(h)
           sfx == SuffixOf(h)
           sub == Subdomain(h)
<1>1. n \in Nat /\ n >= 2 /\ DOMAIN h = 1..n /\ \A i \in 1..n : h[i] \in Seq(Letters)
  BY DEF Hostnames, IsHostname
<1>2. LiteralHost(h)
  <2>1. ASSUME NEW i \in 1..n PROVE Literal(h[i])
    <3>1. h[i] \in Seq(Letters) /\ DOMAIN h[i] = 1..Len(h[i])
      BY <1>1
    <3> QED BY <1>1, <3>1 DEF IsHostname, Literal
  <2> QED BY <2>1 DEF LiteralHost
<1>3. k \in {1, 2} /\ k < n /\ (k = 2 => SubSeq(h, n - 1, n) \in PublicSuffixes)
  BY <1>1 DEF SuffixSize
<1> HIDE DEF k
<1>4. /\ sfx = SubSeq(h, n - k + 1, n) /\ sub = SubSeq(h, 1, n - k - 1) /\ Sld(h) = h[n - k]
  BY DEF SuffixOf, Subdomain, Sld, k
<1> HIDE DEF sfx, sub
<1>5. sfx \in Hostnames /\ Len(sfx) = k /\ \A i \in 1..k : sfx[i] = h[n - k + i]
  <2>1. \A i \in (n - k + 1)..n : h[i] \in Seq(Letters)
    BY <1>1, <1>3
  <2>2. n - k + 1 \in Int /\ n \in Int /\ n - k + 1 <= n /\ n - (n - k + 1) + 1 = k
    BY <1>1, <1>3
  <2>3. /\ sfx \in Seq(Seq(Letters)) /\ Len(sfx) = k
        /\ \A i \in 1..k : sfx[i] = h[(n - k + 1) + i - 1]
    BY <1>4, <2>1, <2>2, SubSeqProperties
  <2>4. \A i \in 1..k : (n - k + 1) + i - 1 = n - k + i
    BY <1>1, <1>3
  <2> QED BY <2>3, <2>4 DEF Hostnames
<1>6. sub \in Hostnames /\ Len(sub) = n - k - 1 /\ \A i \in 1..(n - k - 1) : sub[i] = h[i]
  <2>1. \A i \in 1..(n - k - 1) : h[i] \in Seq(Letters)
    BY <1>1, <1>3
  <2>2. n - k - 1 \in Nat /\ (n - k - 1) - 1 + 1 = n - k - 1
    BY <1>1, <1>3
  <2>3. /\ sub \in Seq(Seq(Letters)) /\ Len(sub) = IF 1 <= n - k - 1 THEN (n - k - 1) - 1 + 1 ELSE 0
        /\ \A i \in 1..((n - k - 1) - 1 + 1) : sub[i] = h[1 + i - 1]
    BY <1>4, <2>1, <2>2, SubSeqProperties
  <2>4. \A i \in 1..(n - k - 1) : 1 + i - 1 = i
    BY <2>2
  <2> QED BY <2>2, <2>3, <2>4 DEF Hostnames
<1>7. TopPart(sfx)
  <2>1. ASSUME NEW i \in 1..k PROVE Literal(sfx[i])
    <3>1. n - k + i \in 1..n
      BY <1>1, <1>3
    <3> QED BY <1>2, <1>5, <3>1 DEF LiteralHost
  <2>2. k = 2 => sfx \in PublicSuffixes
    <3>1. k = 2 => n - k + 1 = n - 1
      BY <1>1
    <3> QED BY <1>3, <1>4, <3>1
  <2> QED BY <1>3, <1>5, <2>1, <2>2 DEF TopPart, LiteralHost
<1>8. Literal(Sld(h))
  <2>1. n - k \in 1..n
    BY <1>1, <1>3
  <2> QED BY <1>2, <1>4, <2>1 DEF LiteralHost
<1>9. ASSUME sub = <<>> PROVE h = <<Sld(h)>> \o sfx
  <2>1. n = k + 1
    <3>1. Len(<<>>) = 0
      BY EmptySeq
    <3>2. n - k - 1 = 0
      BY <1>6, <1>9, <3>1
    <3>3. n \in Int /\ k \in Int
      BY <1>1, <1>3
    <3> QED BY <3>2, <3>3
  <2>2. /\ <<Sld(h)>> \in Seq(Seq(Letters)) /\ Len(<<Sld(h)>>) = 1 /\ <<Sld(h)>>[1] = Sld(h)
        /\ sfx \in Seq(Seq(Letters)) /\ h \in Seq(Seq(Letters))
    BY <1>5, <1>8 DEF Literal, Hostnames
  <2> DEFINE t == <<Sld(h)>> \o sfx
  <2>3. /\ t \in Seq(Seq(Letters)) /\ Len(t) = 1 + k
        /\ \A i \in 1..(1 + k) : t[i] = IF i <= 1 THEN <<Sld(h)>>[i] ELSE sfx[i - 1]
    BY <1>5, <2>2, ConcatProperties
  <2> HIDE DEF t
  <2>4. ASSUME NEW i \in 1..n PROVE h[i] = t[i]
    <3>1. CASE i = 1
      <4>1. t[1] = Sld(h) /\ n - k = 1
        BY <1>3, <2>1, <2>2, <2>3
      <4> QED BY <1>4, <3>1, <4>1
    <3>2. CASE i # 1
      <4> DEFINE j == i - 1
      <4>1. i \in 1..(1 + k) /\ j \in 1..k /\ n - k + j = i /\ ~(i <= 1)
        BY <1>1, <1>3, <2>1, <3>2
      <4> HIDE DEF j
      <4>2. t[i] = sfx[j]
        BY <2>3, <4>1 DEF j
      <4> QED BY <1>5, <4>1, <4>2
    <3> QED BY <3>1, <3>2
  <2>5. h = t
    BY <1>1, <1>3, <2>1, <2>2, <2>3, <2>4, SeqEqual
  <2> QED BY <2>5 DEF t
<1>10. ASSUME NEW l \in Seq(Letters), sub = <<l>> PROVE h = <<l, Sld(h)>> \o sfx
  <2>1. n = k + 2 /\ h[1] = l
    <3>1. Len(sub) = 1 /\ sub[1] = l
      BY <1>10
    <3>2. n - k - 1 = 1
      BY <1>6, <3>1
    <3>3. 1 \in 1..(n - k - 1)
      BY <3>2
    <3>4. h[1] = l
      BY <1>6, <3>1, <3>3
    <3>5. n \in Int /\ k \in Int
      BY <1>1, <1>3
    <3>6. n = k + 2
      BY <3>2, <3>5
    <3> QED BY <3>4, <3>6
  <2> DEFINE u == <<l, Sld(h)>>
  <2>2. /\ u \in Seq(Seq(Letters)) /\ Len(u) = 2 /\ u[1] = l /\ u[2] = Sld(h)
        /\ sfx \in Seq(Seq(Letters)) /\ h \in Seq(Seq(Letters))
    BY <1>5, <1>8 DEF Literal, Hostnames
  <2> HIDE DEF u
  <2> DEFINE t == u \o sfx
  <2>3. /\ t \in Seq(Seq(Letters)) /\ Len(t) = 2 + k
        /\ \A i \in 1..(2 + k) : t[i] = IF i <= 2 THEN u[i] ELSE sfx[i - 2]
    <3>1. /\ t \in Seq(Seq(Letters)) /\ Len(t) = Len(u) + Len(sfx)
          /\ \A i \in 1..(Len(u) + Len(sfx)) : t[i] = IF i <= Len(u) THEN u[i] ELSE sfx[i - Len(u)]
      BY <2>2, ConcatProperties
    <3> HIDE DEF t
    <3> QED BY <1>5, <2>2, <3>1
  <2> HIDE DEF t
  <2>4. ASSUME NEW i \in 1..n PROVE h[i] = t[i]
    <3>1. CASE i = 1
      <4>1. t[1] = l
        BY <1>3, <2>1, <2>2, <2>3
      <4> QED BY <2>1, <3>1, <4>1
    <3>2. CASE i = 2
      <4>1. t[2] = Sld(h) /\ n - k = 2
        BY <1>3, <2>1, <2>2, <2>3
      <4> QED BY <1>4, <3>2, <4>1
    <3>3. CASE i # 1 /\ i # 2
      <4> DEFINE j == i - 2
      <4>1. i \in 1..(2 + k) /\ j \in 1..k /\ n - k + j = i /\ ~(i <= 2)
        BY <1>1, <1>3, <2>1, <3>3
      <4> HIDE DEF j
      <4>2. t[i] = sfx[j]
        BY <2>3, <4>1 DEF j
      <4> QED BY <1>5, <4>1, <4>2
    <3> QED BY <3>1, <3>2, <3>3
  <2>5. h = t
    BY <1>1, <1>3, <2>1, <2>2, <2>3, <2>4, SeqEqual
  <2> QED BY <2>5 DEF t, u
<1> QED BY <1>2, <1>6, <1>7, <1>8, <1>9, <1>10 DEF sfx, sub


\* A pattern over a suffix fits where its part before the suffix fits.
LEMMA HostFitsOver ==
    ASSUME NEW a \in Hostnames, NEW b \in Hostnames, NEW c, LiteralHost(c), HostFits(a, b)
    PROVE  HostFits(a \o c, b \o c)
<1> DEFINE p == a \o c
           q == b \o c
           m == Len(a)
           k == Len(c)
<1>1. /\ m \in Nat /\ Len(b) = m /\ k \in Nat /\ c \in Seq(Seq(Letters)) /\ DOMAIN a = 1..m
      /\ a \in Seq(Seq(Letters)) /\ b \in Seq(Seq(Letters))
  BY DEF Hostnames, LiteralHost, HostFits
<1>2. /\ p \in Seq(Seq(Letters)) /\ Len(p) = m + k
      /\ \A i \in 1..(m + k) : p[i] = IF i <= m THEN a[i] ELSE c[i - m]
  BY <1>1, ConcatProperties
<1>3. /\ q \in Seq(Seq(Letters)) /\ Len(q) = m + k
      /\ \A i \in 1..(m + k) : q[i] = IF i <= m THEN b[i] ELSE c[i - m]
  <2>1. /\ q \in Seq(Seq(Letters)) /\ Len(q) = Len(b) + k
        /\ \A i \in 1..(Len(b) + k) : q[i] = IF i <= Len(b) THEN b[i] ELSE c[i - Len(b)]
    BY <1>1, ConcatProperties
  <2> HIDE DEF q
  <2> QED BY <1>1, <2>1
<1> HIDE DEF p, q
<1>4. ASSUME NEW i \in 1..(m + k) PROVE Fits(p[i], q[i])
  <2>1. CASE i <= m
    <3>1. i \in 1..m /\ p[i] = a[i] /\ q[i] = b[i]
      BY <1>1, <1>2, <1>3, <2>1
    <3> QED BY <1>1, <3>1 DEF HostFits
  <2>2. CASE ~(i <= m)
    <3> DEFINE j == i - m
    <3>1. p[i] = c[j] /\ q[i] = c[j] /\ j \in 1..k
      BY <1>1, <1>2, <1>3, <2>2
    <3> HIDE DEF j
    <3>2. Literal(c[j])
      BY <3>1 DEF LiteralHost
    <3> QED BY <3>1, <3>2, FitsItself DEF Literal
  <2> QED BY <2>1, <2>2
<1>5. DOMAIN p = 1..(m + k)
  BY <1>1, <1>2
<1> QED BY <1>2, <1>3, <1>4, <1>5 DEF HostFits, p, q

\* A protected domain is not a public suffix: one that ends a host under such
\* a suffix is longer than it.
LEMMA ProtectedIsLonger ==
    ASSUME NEW h \in Hostnames, NEW sfx, TopPart(sfx), NEW m \in Nat, Len(h) = m + Len(sfx),
           \A i \in 1..Len(sfx) : Fits(sfx[i], h[m + i]),
           NEW d \in ProtectedDomains, IsSuffix(d, h)
    PROVE  /\ d \in Hostnames /\ Len(sfx) < Len(d) /\ Len(d) <= Len(h)
           /\ \A i \in 1..Len(d) : d[i] = h[Len(h) - Len(d) + i]
<1> DEFINE k == Len(sfx)
<1>1. d \in Hostnames /\ Len(d) >= 2 /\ d \notin PublicSuffixes
  BY PatternAssumption
<1>2. sfx \in Hostnames /\ k \in {1, 2} /\ (k = 2 => sfx \in PublicSuffixes)
  <2>1. LiteralHost(sfx) /\ (k = 1 \/ (k = 2 /\ sfx \in PublicSuffixes))
    BY DEF TopPart
  <2> HIDE DEF k
  <2> QED BY <2>1 DEF LiteralHost
<1>3. Len(d) <= Len(h) /\ \A i \in 1..Len(d) : d[i] = h[Len(h) - Len(d) + i]
  BY <1>1, SuffixIs DEF Hostnames
<1>4. ASSUME NEW i \in 1..k PROVE sfx[i] = h[m + i]
  <2>1. Literal(sfx[i])
    <3>1. LiteralHost(sfx)
      BY DEF TopPart
    <3> QED BY <1>4, <3>1 DEF LiteralHost
  <2>2. m + i \in 1..Len(h)
    BY <1>2
  <2>3. h[m + i] \in Seq(Letters) /\ DOMAIN sfx[i] = 1..Len(sfx[i]) /\ sfx[i] \in Seq(Letters)
    BY <2>1, <2>2 DEF Hostnames, Literal
  <2> QED BY <2>1, <2>3, LiteralFits DEF Literal
<1>5. k < Len(d)
  <2> SUFFICES ASSUME ~(k < Len(d)) PROVE FALSE
    OBVIOUS
  <2>1. Len(d) \in Nat
    BY <1>1 DEF Hostnames
  <2>2. k = 2 /\ Len(d) = 2
    BY <1>1, <1>2, <2>1
  <2>3. \A i \in 1..2 : d[i] = h[m + i] /\ sfx[i] = h[m + i]
    <3>1. Len(h) - Len(d) = m
      BY <2>2
    <3> HIDE DEF k
    <3> QED BY <1>3, <1>4, <2>2, <3>1
  <2>4. d = sfx
    <3>1. d \in Seq(Seq(Letters)) /\ sfx \in Seq(Seq(Letters)) /\ Len(d) = Len(sfx)
      BY <1>1, <1>2, <2>2 DEF Hostnames
    <3>2. \A i \in 1..Len(d) : d[i] = sfx[i]
      BY <2>2, <2>3
    <3> QED BY <3>1, <3>2, SeqEqual
  <2> QED BY <1>1, <1>2, <2>2, <2>4
<1> QED BY <1>1, <1>3, <1>5

\* The family globs there are: a label under a public suffix, and any label
\* between "news" and a public suffix.
Narrow(host) ==
    \E sfx \in Hostnames :
        /\ TopPart(sfx)
        /\ \/ \E l \in Seq(Letters) : host = <<l>> \o sfx
           \/ Literal(News) /\ host = <<News, <<"*">>>> \o sfx

\* A host of a protected sender such a glob matches is one of those probed.
LEMMA NarrowIsProbed ==
    ASSUME NEW host, Narrow(host), NEW h \in Hostnames, HostFits(host, h),
           NEW d \in ProtectedDomains, IsSuffix(d, h)
    PROVE  h \in ProbeHosts(d)
<1>1. PICK sfx \in Hostnames : /\ TopPart(sfx)
                               /\ \/ \E l \in Seq(Letters) : host = <<l>> \o sfx
                                  \/ Literal(News) /\ host = <<News, <<"*">>>> \o sfx
  BY DEF Narrow
<1> DEFINE k == Len(sfx)
<1>2. sfx \in Seq(Seq(Letters)) /\ k \in {1, 2} /\ h \in Seq(Seq(Letters)) /\ Len(h) \in Nat
  BY <1>1 DEF Hostnames, TopPart
<1>3. Len(host) = Len(h) /\ \A i \in DOMAIN host : Fits(host[i], h[i])
  BY DEF HostFits
<1>4. ASSUME Len(d) = Len(h), d \in Hostnames, \A i \in 1..Len(d) : d[i] = h[Len(h) - Len(d) + i]
      PROVE  h \in ProbeHosts(d)
  <2>1. d \in Seq(Seq(Letters))
    BY <1>4 DEF Hostnames
  <2>2. \A i \in 1..Len(d) : d[i] = h[i]
    BY <1>2, <1>4
  <2>3. d = h
    BY <1>2, <1>4, <2>1, <2>2, SeqEqual
  <2>4. <<>> \o h = h
    BY <1>2, ConcatEmptySeq
  <2> QED BY <2>3, <2>4, PatternAssumption DEF ProbeHosts
<1>5. CASE \E l \in Seq(Letters) : host = <<l>> \o sfx
  <2>1. PICK l \in Seq(Letters) : host = <<l>> \o sfx
    BY <1>5
  <2>2. <<l>> \in Seq(Seq(Letters)) /\ Len(<<l>>) = 1
    OBVIOUS
  <2>3. /\ host \in Seq(Seq(Letters)) /\ Len(host) = 1 + k
        /\ \A i \in 1..(1 + k) : host[i] = IF i <= 1 THEN <<l>>[i] ELSE sfx[i - 1]
    BY <1>2, <2>1, <2>2, ConcatProperties
  <2>4. DOMAIN host = 1..(1 + k) /\ Len(h) = 1 + k
    BY <1>3, <2>3
  <2>5. ASSUME NEW i \in 1..k PROVE Fits(sfx[i], h[1 + i])
    <3> DEFINE j == 1 + i
    <3>1. j \in 1..(1 + k) /\ ~(j <= 1) /\ j - 1 = i
      BY <1>2
    <3> HIDE DEF j
    <3>2. host[j] = sfx[i]
      BY <2>3, <3>1
    <3>3. Fits(host[j], h[j])
      BY <1>3, <2>4, <3>1
    <3> QED BY <3>2, <3>3 DEF j
  <2>6. /\ d \in Hostnames /\ k < Len(d) /\ Len(d) <= Len(h)
        /\ \A i \in 1..Len(d) : d[i] = h[Len(h) - Len(d) + i]
    BY <1>1, <2>4, <2>5, ProtectedIsLonger
  <2>7. Len(d) = Len(h)
    <3>1. Len(d) \in Nat
      BY <2>6 DEF Hostnames
    <3> QED BY <1>2, <2>4, <2>6, <3>1
  <2> QED BY <1>4, <2>6, <2>7
<1>6. CASE Literal(News) /\ host = <<News, <<"*">>>> \o sfx
  <2> DEFINE u == <<News, <<"*">>>>
  <2>1. u \in Seq(Seq(Letters)) /\ Len(u) = 2 /\ u[1] = News
    <3>1. News \in Seq(Letters)
      BY <1>6 DEF Literal
    <3> QED BY <3>1, StarIsWord
  <2> HIDE DEF u
  <2>2. /\ host \in Seq(Seq(Letters)) /\ Len(host) = 2 + k
        /\ \A i \in 1..(2 + k) : host[i] = IF i <= 2 THEN u[i] ELSE sfx[i - 2]
    <3>1. host = u \o sfx
      BY <1>6 DEF u
    <3>2. /\ host \in Seq(Seq(Letters)) /\ Len(host) = Len(u) + k
          /\ \A i \in 1..(Len(u) + k) : host[i] = IF i <= Len(u) THEN u[i] ELSE sfx[i - Len(u)]
      BY <1>2, <2>1, <3>1, ConcatProperties
    <3> QED BY <2>1, <3>2
  <2>3. DOMAIN host = 1..(2 + k) /\ Len(h) = 2 + k
    BY <1>3, <2>2
  <2>4. ASSUME NEW i \in 1..k PROVE Fits(sfx[i], h[2 + i])
    <3> DEFINE j == 2 + i
    <3>1. j \in 1..(2 + k) /\ ~(j <= 2) /\ j - 2 = i
      BY <1>2
    <3> HIDE DEF j
    <3>2. host[j] = sfx[i]
      BY <2>2, <3>1
    <3>3. Fits(host[j], h[j])
      BY <1>3, <2>3, <3>1
    <3> QED BY <3>2, <3>3 DEF j
  <2>5. /\ d \in Hostnames /\ k < Len(d) /\ Len(d) <= Len(h)
        /\ \A i \in 1..Len(d) : d[i] = h[Len(h) - Len(d) + i]
    BY <1>1, <2>3, <2>4, ProtectedIsLonger
  <2>6. Len(d) \in Nat /\ d \in Seq(Seq(Letters))
    BY <2>5 DEF Hostnames
  <2>7. CASE Len(d) = Len(h)
    BY <1>4, <2>5, <2>7
  <2>8. CASE Len(d) # Len(h)
    <3>1. Len(h) = 1 + Len(d)
      BY <1>2, <2>3, <2>5, <2>6, <2>8
    <3>2. h[1] = News
      <4>1. 1 \in 1..(2 + k) /\ host[1] = News
        BY <1>2, <2>1, <2>2
      <4>2. Fits(News, h[1]) /\ h[1] \in Seq(Letters)
        BY <1>2, <1>3, <2>3, <4>1
      <4>3. News \in Seq(Letters) /\ DOMAIN News = 1..Len(News)
        BY <1>6 DEF Literal
      <4> QED BY <1>6, <4>2, <4>3, LiteralFits DEF Literal
    <3> DEFINE t == <<News>> \o d
    <3>3. <<News>> \in Seq(Seq(Letters)) /\ Len(<<News>>) = 1
      <4>1. News \in Seq(Letters)
        BY <1>6 DEF Literal
      <4> QED BY <4>1
    <3>4. /\ t \in Seq(Seq(Letters)) /\ Len(t) = 1 + Len(d)
          /\ \A i \in 1..(1 + Len(d)) : t[i] = IF i <= 1 THEN <<News>>[i] ELSE d[i - 1]
      BY <2>6, <3>3, ConcatProperties
    <3> HIDE DEF t
    <3>5. ASSUME NEW i \in 1..Len(t) PROVE t[i] = h[i]
      <4>1. CASE i = 1
        BY <3>2, <3>4, <4>1
      <4>2. CASE i # 1
        <5> DEFINE j == i - 1
        <5>1. j \in 1..Len(d) /\ Len(h) - Len(d) + j = i /\ ~(i <= 1) /\ i \in 1..(1 + Len(d))
          BY <2>6, <3>1, <3>4, <4>2
        <5>2. t[i] = d[j]
          BY <3>4, <5>1
        <5> HIDE DEF j
        <5> QED BY <2>5, <5>1, <5>2
      <4> QED BY <4>1, <4>2
    <3>6. t = h
      BY <1>2, <3>1, <3>4, <3>5, SeqEqual
    <3>7. <<News>> \in ProbeSubdomains
      BY SuggestionAssumption
    <3> QED BY <3>6, <3>7 DEF ProbeHosts, t
  <2> QED BY <2>7, <2>8
<1> QED BY <1>1, <1>5, <1>6

----------------------------------------------------------------------------
(* The families, and what is proposed for them.                            *)

Names(q) == q \subseteq Hostnames /\ \A h \in q : IsHostname(h)

\* A family is made of names; each of its globs is narrow, is meant for some
\* of them and matches those.
GlobFits(g, members) ==
    /\ g.members \subseteq members /\ g.members # {}
    /\ Narrow(g.host)
    /\ \A h \in g.members : HostFits(g.host, h)
GroupFits(group, q) == group.members \subseteq q /\ \A g \in group.globs : GlobFits(g, group.members)

LEMMA CountedIsSome == ASSUME NEW S, Cardinality(S) >= PrefixMinMembers PROVE S # {}
<1> SUFFICES ASSUME S = {} PROVE FALSE
  OBVIOUS
<1>1. Cardinality({}) = 0
  BY FS_EmptySet
<1>2. PrefixMinMembers \in Nat /\ PrefixMinMembers # 0
  BY SuggestionAssumption
<1>3. 0 >= PrefixMinMembers
  BY <1>1
<1> QED BY <1>2, <1>3

NewsOf(q, sfx) == {h \in q : Subdomain(h) = <<News>> /\ SuffixOf(h) = sfx}
NewsGroup(q, sfx) ==
    [kind |-> "news", key |-> sfx, members |-> NewsOf(q, sfx),
     globs |-> IF Cardinality(NewsOf(q, sfx)) >= PrefixMinMembers
               THEN {[host |-> <<News, <<"*">>>> \o sfx, members |-> NewsOf(q, sfx)]} ELSE {}]

LEMMA NewsIs == ASSUME NEW q, NEW group \in NewsGroups(q)
                PROVE  \E sfx : group = NewsGroup(q, sfx)
BY DEF NewsGroups, NewsGroup, NewsOf

LEMMA NewsFits == ASSUME NEW q, Names(q), NEW group \in NewsGroups(q) PROVE GroupFits(group, q)
<1>1. PICK sfx : group = NewsGroup(q, sfx)
  BY NewsIs
<1>2. group.members = NewsOf(q, sfx) /\ group.members \subseteq q
  BY <1>1 DEF NewsGroup, NewsOf
<1>3. ASSUME NEW g \in group.globs PROVE GlobFits(g, group.members)
  <2>1. /\ Cardinality(NewsOf(q, sfx)) >= PrefixMinMembers
        /\ g = [host |-> <<News, <<"*">>>> \o sfx, members |-> NewsOf(q, sfx)]
    BY <1>1, <1>3 DEF NewsGroup
  <2>2. g.members = group.members /\ g.members # {} /\ g.host = <<News, <<"*">>>> \o sfx
    BY <1>2, <2>1, CountedIsSome
  <2>3. ASSUME NEW h \in g.members
        PROVE  TopPart(sfx) /\ Literal(News) /\ HostFits(g.host, h)
    <3>1. h \in Hostnames /\ IsHostname(h) /\ Subdomain(h) = <<News>> /\ SuffixOf(h) = sfx
      BY <1>2, <2>2, <2>3 DEF Names, NewsOf
    <3>2. LiteralHost(h) /\ TopPart(sfx) /\ Literal(Sld(h)) /\ Subdomain(h) \in Hostnames
      BY <3>1, HostParts
    <3>3. News \in Seq(Letters)
      <4>1. Len(<<News>>) = 1 /\ <<News>>[1] = News /\ <<News>> \in Seq(Seq(Letters))
        BY <3>1, <3>2 DEF Hostnames
      <4> QED BY <4>1
    <3>4. h = <<News, Sld(h)>> \o sfx
      BY <3>1, <3>3, HostParts
    <3>5. Literal(News)
      <4> DEFINE u == <<News, Sld(h)>>
      <4>1. Sld(h) \in Seq(Letters) /\ sfx \in Seq(Seq(Letters))
        BY <3>2 DEF Literal, TopPart, LiteralHost, Hostnames
      <4>2. u \in Seq(Seq(Letters)) /\ Len(u) = 2 /\ u[1] = News
        BY <3>3, <4>1
      <4> HIDE DEF u
      <4>3. Len(h) = Len(u) + Len(sfx) /\ h[1] = IF 1 <= Len(u) THEN u[1] ELSE sfx[1 - Len(u)]
        <5>1. h = u \o sfx
          BY <3>4 DEF u
        <5>2. Len(u) + Len(sfx) \in Nat /\ 1 \in 1..(Len(u) + Len(sfx))
          BY <4>1, <4>2
        <5> QED BY <4>1, <4>2, <5>1, <5>2, ConcatProperties
      <4>4. h[1] = News /\ 1 \in 1..Len(h)
        BY <4>1, <4>2, <4>3
      <4> QED BY <3>2, <4>4 DEF LiteralHost
    <3>6. HostFits(<<News, <<"*">>>>, <<News, Sld(h)>>)
      <4> DEFINE a == <<News, <<"*">>>>
                 b == <<News, Sld(h)>>
      <4>1. Len(a) = 2 /\ Len(b) = 2 /\ DOMAIN a = 1..2
        OBVIOUS
      <4>2. Fits(News, News)
        BY <3>5, FitsItself DEF Literal
      <4>3. Fits(<<"*">>, Sld(h))
        BY <3>2, StarFits DEF Literal
      <4>4. a[1] = News /\ a[2] = <<"*">> /\ b[1] = News /\ b[2] = Sld(h)
        OBVIOUS
      <4>5. \A i \in 1..2 : i = 1 \/ i = 2
        OBVIOUS
      <4> HIDE DEF a, b
      <4>6. ASSUME NEW i \in 1..2 PROVE Fits(a[i], b[i])
        BY <4>2, <4>3, <4>4, <4>5
      <4>7. HostFits(a, b)
        BY <4>1, <4>6 DEF HostFits
      <4> QED BY <4>7 DEF a, b
    <3>7. <<News, <<"*">>>> \in Hostnames /\ <<News, Sld(h)>> \in Hostnames
      <4>1. Sld(h) \in Seq(Letters)
        BY <3>2 DEF Literal
      <4> QED BY <3>3, <4>1, StarIsWord DEF Hostnames
    <3>8. LiteralHost(sfx)
      BY <3>2 DEF TopPart
    <3>9. HostFits(<<News, <<"*">>>> \o sfx, <<News, Sld(h)>> \o sfx)
      BY <3>6, <3>7, <3>8, HostFitsOver
    <3> QED BY <2>2, <3>2, <3>4, <3>5, <3>9
  <2>4. Narrow(g.host)
    <3>1. PICK h \in g.members : TRUE
      BY <2>2
    <3>2. TopPart(sfx) /\ Literal(News)
      BY <2>3, <3>1
    <3>3. sfx \in Hostnames
      BY <3>2 DEF TopPart, LiteralHost
    <3> QED BY <2>2, <3>2, <3>3 DEF Narrow
  <2> QED BY <2>2, <2>3, <2>4 DEF GlobFits
<1> QED BY <1>2, <1>3 DEF GroupFits

LEMMA NewsApart == ASSUME NEW q, NEW g \in NewsGroups(q), NEW f \in NewsGroups(q),
                          NEW h \in g.members \cap f.members
                   PROVE  g = f
<1>1. PICK s : g = NewsGroup(q, s)
  BY NewsIs
<1>2. PICK t : f = NewsGroup(q, t)
  BY NewsIs
<1>3. s = SuffixOf(h) /\ t = SuffixOf(h)
  BY <1>1, <1>2 DEF NewsGroup, NewsOf
<1> QED BY <1>1, <1>2, <1>3

Bucket(h) == <<SubSeq(Sld(h), 1, PrefixMinLength), SuffixOf(h)>>
BucketOf(q, k) == {h \in {x \in q : Len(Sld(x)) >= PrefixMinLength} : Bucket(h) = k}
ApexOf(q, k) == {h \in BucketOf(q, k) : Subdomain(h) = <<>>}
Labels(hs) == {Sld(h) : h \in hs}
PrefixGlob(q, k) ==
    [host |-> <<Append(LongestCommonPrefix(Labels(ApexOf(q, k))), "*")>> \o k[2], members |-> ApexOf(q, k)]
PrefixGroup(q, k) ==
    [kind |-> "prefix", key |-> k, members |-> BucketOf(q, k),
     globs |-> IF Cardinality(Labels(ApexOf(q, k))) >= PrefixMinMembers THEN {PrefixGlob(q, k)} ELSE {}]

LEMMA PrefixIs == ASSUME NEW q, NEW group \in PrefixGroups(q)
                  PROVE  \E k : group = PrefixGroup(q, k)
BY DEF PrefixGroups, PrefixGroup, PrefixGlob, Labels, ApexOf, BucketOf, Bucket

LEMMA PrefixGroupFits == ASSUME NEW q, Names(q), NEW group \in PrefixGroups(q) PROVE GroupFits(group, q)
<1>1. PICK k : group = PrefixGroup(q, k)
  BY PrefixIs
<1>2. group.members = BucketOf(q, k) /\ group.members \subseteq q
  BY <1>1 DEF PrefixGroup, BucketOf
<1>3. ASSUME NEW g \in group.globs PROVE GlobFits(g, group.members)
  <2> DEFINE hs == ApexOf(q, k)
             common == LongestCommonPrefix(Labels(hs))
             p == Append(common, "*")
  <2>1. Cardinality(Labels(hs)) >= PrefixMinMembers /\ g = PrefixGlob(q, k)
    BY <1>1, <1>3 DEF PrefixGroup
  <2>2. g.members = hs /\ g.host = <<p>> \o k[2] /\ hs \subseteq group.members
    BY <1>2, <2>1 DEF PrefixGlob, ApexOf
  <2>3. hs # {}
    <3>1. Labels(hs) # {}
      BY <2>1, CountedIsSome
    <3> QED BY <3>1 DEF Labels
  <2>4. ASSUME NEW h \in hs
        PROVE  /\ h \in Hostnames /\ TopPart(k[2]) /\ LiteralHost(k[2]) /\ Literal(Sld(h))
               /\ h = <<Sld(h)>> \o k[2]
    <3>1. /\ h \in Hostnames /\ IsHostname(h) /\ Subdomain(h) = <<>>
          /\ k = <<SubSeq(Sld(h), 1, PrefixMinLength), SuffixOf(h)>>
      BY <2>4 DEF Names, ApexOf, BucketOf, Bucket
    <3>2. SuffixOf(h) = k[2]
      BY <3>1
    <3> QED BY <3>1, <3>2, HostParts DEF TopPart
  <2> HIDE DEF hs
  <2>5. Labels(hs) \in SUBSET Seq(Letters) /\ Labels(hs) # {}
    BY <2>3, <2>4 DEF Labels, Literal
  <2>6. /\ common \in Seq(Letters)
        /\ \A s \in Labels(hs) : /\ Len(common) <= Len(s)
                                 /\ \A i \in 1..Len(common) : common[i] = s[i]
    BY <2>5, CommonPrefixIs
  <2> HIDE DEF common
  <2>7. p \in Seq(Letters)
    BY <2>6, StarIsWord
  <2>8. ASSUME NEW h \in hs PROVE Fits(p, Sld(h))
    <3>1. Sld(h) \in Labels(hs) /\ Literal(Sld(h))
      BY <2>4 DEF Labels
    <3>2. /\ Sld(h) \in Seq(Letters) /\ Len(common) <= Len(Sld(h))
          /\ \A i \in 1..Len(common) : common[i] = Sld(h)[i]
      BY <2>5, <2>6, <3>1
    <3>3. \A i \in 1..Len(common) : i \in 1..Len(Sld(h))
      BY <2>6, <3>2
    <3>4. \A i \in 1..Len(common) : common[i] \notin Wild
      BY <3>1, <3>2, <3>3 DEF Literal
    <3> QED BY <2>6, <3>2, <3>4, PrefixFits
  <2> HIDE DEF p
  <2>9. ASSUME NEW h \in hs PROVE HostFits(g.host, h)
    <3>1. Sld(h) \in Seq(Letters) /\ Fits(p, Sld(h))
      BY <2>4, <2>8 DEF Literal
    <3>2. <<p>> \in Hostnames /\ <<Sld(h)>> \in Hostnames /\ HostFits(<<p>>, <<Sld(h)>>)
      BY <2>7, <3>1 DEF HostFits, Hostnames
    <3>3. HostFits(<<p>> \o k[2], <<Sld(h)>> \o k[2])
      BY <2>4, <3>2, HostFitsOver
    <3> QED BY <2>2, <2>4, <3>3
  <2>10. Narrow(g.host)
    <3>1. TopPart(k[2]) /\ k[2] \in Hostnames
      BY <2>3, <2>4 DEF LiteralHost
    <3> QED BY <2>2, <2>7, <3>1 DEF Narrow
  <2> QED BY <2>2, <2>3, <2>9, <2>10 DEF GlobFits
<1> QED BY <1>2, <1>3 DEF GroupFits

LEMMA PrefixApart == ASSUME NEW q, NEW g \in PrefixGroups(q), NEW f \in PrefixGroups(q),
                            NEW h \in g.members \cap f.members
                     PROVE  g = f
<1>1. PICK j : g = PrefixGroup(q, j)
  BY PrefixIs
<1>2. PICK k : f = PrefixGroup(q, k)
  BY PrefixIs
<1>3. j = Bucket(h) /\ k = Bucket(h)
  BY <1>1, <1>2 DEF PrefixGroup, BucketOf
<1> QED BY <1>1, <1>2, <1>3

SingleGroup(q, k) ==
    [kind |-> "single", key |-> k, members |-> {h \in q : <<Sld(h)>> \o SuffixOf(h) = k}, globs |-> {}]

LEMMA SingleIs == ASSUME NEW q, NEW group \in SingleGroups(q) PROVE \E k : group = SingleGroup(q, k)
BY DEF SingleGroups, SingleGroup

LEMMA SingleFits == ASSUME NEW q, NEW group \in SingleGroups(q) PROVE GroupFits(group, q)
<1>1. PICK k : group = SingleGroup(q, k)
  BY SingleIs
<1> QED BY <1>1 DEF SingleGroup, GroupFits

LEMMA SingleApart == ASSUME NEW q, NEW g \in SingleGroups(q), NEW f \in SingleGroups(q),
                            NEW h \in g.members \cap f.members
                     PROVE  g = f
<1>1. PICK j : g = SingleGroup(q, j)
  BY SingleIs
<1>2. PICK k : f = SingleGroup(q, k)
  BY SingleIs
<1>3. j = <<Sld(h)>> \o SuffixOf(h) /\ k = <<Sld(h)>> \o SuffixOf(h)
  BY <1>1, <1>2 DEF SingleGroup
<1> QED BY <1>1, <1>2, <1>3

LEMMA QualifyingIs == ASSUME mail \in Histories, NEW rs PROVE Names(Qualifying(rs))
<1>1. DOMAIN mail \subseteq Hostnames
  BY SuggestionAssumption
<1> QED BY <1>1 DEF Names, Qualifying, Observed

\* The families are apart, and each is as GroupFits says.
LEMMA GroupsFit == ASSUME mail \in Histories, NEW rs
                   PROVE  /\ \A g \in Groups(rs) : GroupFits(g, Qualifying(rs))
                          /\ \A g, f \in Groups(rs) : g = f \/ g.members \cap f.members = {}
<1> DEFINE q == Qualifying(rs)
           news == NewsGroups(q)
           q2 == q \ MembersOf(news)
           prefix == PrefixGroups(q2)
           q3 == q \ MembersOf(news \cup prefix)
           single == SingleGroups(q3)
<1>1. Names(q)
  BY QualifyingIs
<1>2. Groups(rs) = news \cup prefix \cup single
  BY DEF Groups
<1> HIDE DEF q
<1>3. Names(q2) /\ q2 \subseteq q /\ q3 \subseteq q
  BY <1>1 DEF Names
<1>4. /\ \A g \in news : \A h \in g.members : h \in MembersOf(news) /\ h \in MembersOf(news \cup prefix)
      /\ \A g \in prefix : \A h \in g.members : h \in MembersOf(news \cup prefix)
  BY DEF MembersOf
<1>5. /\ \A g \in news : GroupFits(g, q)
      /\ \A g, f \in news : g = f \/ g.members \cap f.members = {}
  BY <1>1, NewsFits, NewsApart
<1>6. \A h \in q2 : h \notin MembersOf(news)
  OBVIOUS
<1>7. \A h \in q3 : h \notin MembersOf(news \cup prefix)
  OBVIOUS
<1> HIDE DEF news, q2
<1>8. /\ \A g \in prefix : GroupFits(g, q2)
      /\ \A g, f \in prefix : g = f \/ g.members \cap f.members = {}
  BY <1>3, PrefixGroupFits, PrefixApart
<1> HIDE DEF prefix, q3
<1>9. /\ \A g \in single : GroupFits(g, q3)
      /\ \A g, f \in single : g = f \/ g.members \cap f.members = {}
  BY SingleFits, SingleApart
<1> HIDE DEF single
<1>10. /\ \A g \in prefix : g.members \subseteq q2
       /\ \A g \in single : g.members \subseteq q3
  BY <1>8, <1>9 DEF GroupFits
<1>11. \A g \in Groups(rs) : GroupFits(g, q)
  BY <1>2, <1>3, <1>5, <1>8, <1>9 DEF GroupFits
<1>12. /\ \A g \in news, f \in prefix : g.members \cap f.members = {}
       /\ \A g \in news, f \in single : g.members \cap f.members = {}
       /\ \A g \in prefix, f \in single : g.members \cap f.members = {}
  BY <1>4, <1>6, <1>7, <1>10
<1>13. \A g, f \in Groups(rs) : g = f \/ g.members \cap f.members = {}
  <2> SUFFICES ASSUME NEW g \in Groups(rs), NEW f \in Groups(rs) PROVE g = f \/ g.members \cap f.members = {}
    OBVIOUS
  <2>1. g \in news \/ g \in prefix \/ g \in single
    BY <1>2
  <2>2. f \in news \/ f \in prefix \/ f \in single
    BY <1>2
  <2>3. CASE g \in news
    BY <1>5, <1>12, <2>2, <2>3
  <2>4. CASE g \in prefix
    BY <1>8, <1>12, <2>2, <2>4
  <2>5. CASE g \in single
    BY <1>9, <1>12, <2>2, <2>5
  <2> QED BY <2>1, <2>3, <2>4, <2>5
<1> QED BY <1>11, <1>13 DEF q

\* What is proposed: usable narrow globs, and rules for single domains.
LEMMA ProposalIs ==
    ASSUME mail \in Histories, NEW rs, NEW f \in Families(rs)
    PROVE  /\ f.members \subseteq Qualifying(rs)
           /\ \A p \in f.proposed :
                 \/ \E g : /\ Usable(g) /\ Narrow(g.host)
                           /\ p = HostPattern("glob", g.host)
                 \/ \E h \in f.members : p = HostPattern("domain", h)
           /\ \A h \in f.members : \E p \in f.proposed : Tests(p, [local |-> NoLocal, host |-> h])
<1>1. PICK group \in Groups(rs) : f = [members |-> group.members, proposed |-> Proposed(group)]
  BY DEF Families
<1>2. f.members = group.members /\ f.proposed = Proposed(group)
  BY <1>1
<1>3. GroupFits(group, Qualifying(rs))
  BY GroupsFit
<1>4. ASSUME NEW p \in f.proposed
      PROVE  \/ \E g : Usable(g) /\ Narrow(g.host) /\ p = HostPattern("glob", g.host)
             \/ \E h \in f.members : p = HostPattern("domain", h)
  <2>1. \/ \E g \in group.globs : Usable(g) /\ p = HostPattern("glob", g.host)
        \/ \E h \in group.members : p = HostPattern("domain", h)
    BY <1>2, <1>4 DEF Proposed
  <2> QED BY <1>2, <1>3, <2>1 DEF GroupFits, GlobFits
<1>5. ASSUME NEW h \in f.members
      PROVE  \E p \in f.proposed : Tests(p, [local |-> NoLocal, host |-> h])
  <2> DEFINE s == [local |-> NoLocal, host |-> h]
             usable == {g \in group.globs : Usable(g)}
  <2>1. CASE \E g \in usable : h \in g.members
    <3>1. PICK g \in usable : h \in g.members
      BY <2>1
    <3> DEFINE p == HostPattern("glob", g.host)
    <3>2. p \in f.proposed
      BY <1>2 DEF Proposed
    <3>3. HostFits(g.host, h)
      BY <1>3, <3>1 DEF GroupFits, GlobFits
    <3>4. p.matchType = "glob" /\ p.host = g.host /\ p.local = NoLocal /\ s.host = h
      BY DEF HostPattern
    <3>5. Tests(p, s)
      <4> HIDE DEF p, s
      <4> QED BY <3>3, <3>4 DEF Tests, TargetsAddress
    <3> QED BY <3>2, <3>5
  <2>2. CASE ~\E g \in usable : h \in g.members
    <3> DEFINE p == HostPattern("domain", h)
    <3>1. p \in f.proposed
      BY <1>2, <2>2 DEF Proposed
    <3>2. p.matchType = "domain" /\ p.host = h /\ s.host = h
      BY DEF HostPattern
    <3>3. Tests(p, s)
      <4> HIDE DEF p, s
      <4> QED BY <3>2 DEF Tests
    <3> QED BY <3>1, <3>3
  <2> QED BY <2>1, <2>2
<1> QED BY <1>2, <1>3, <1>4, <1>5 DEF GroupFits

LEMMA NarrowIsHost == ASSUME NEW host, Narrow(host) PROVE host \in Hostnames
<1>1. PICK sfx \in Hostnames : \/ \E l \in Seq(Letters) : host = <<l>> \o sfx
                               \/ Literal(News) /\ host = <<News, <<"*">>>> \o sfx
  BY DEF Narrow
<1>2. sfx \in Seq(Seq(Letters))
  BY DEF Hostnames
<1>3. CASE \E l \in Seq(Letters) : host = <<l>> \o sfx
  <2>1. PICK l \in Seq(Letters) : host = <<l>> \o sfx
    BY <1>3
  <2>2. <<l>> \in Seq(Seq(Letters))
    OBVIOUS
  <2> QED BY <1>2, <2>1, <2>2, ConcatProperties DEF Hostnames
<1>4. CASE Literal(News) /\ host = <<News, <<"*">>>> \o sfx
  <2>1. News \in Seq(Letters)
    BY <1>4 DEF Literal
  <2>2. <<News, <<"*">>>> \in Seq(Seq(Letters))
    BY <2>1, StarIsWord
  <2> QED BY <1>2, <1>4, <2>2, ConcatProperties DEF Hostnames
<1> QED BY <1>1, <1>3, <1>4

LEMMA ProbedAreHosts == ASSUME NEW d \in ProtectedDomains, NEW h \in ProbeHosts(d)
                        PROVE  h \in Hostnames /\ IsSuffix(d, h)
<1>1. PICK p \in ProbeSubdomains : h = p \o d
  BY DEF ProbeHosts
<1>2. p \in Seq(Seq(Letters)) /\ d \in Seq(Seq(Letters))
  BY PatternAssumption DEF Hostnames
<1>3. p \o d \in Seq(Seq(Letters)) /\ IsSuffix(d, p \o d)
  BY <1>2, ConcatProperties, SuffixConcat
<1> QED BY <1>1, <1>3 DEF Hostnames

LEMMA HostsAre == Hosts \subseteq Hostnames
<1>1. \A m \in Histories : DOMAIN m \subseteq Hostnames
  BY SuggestionAssumption
<1>2. \A d \in ProtectedDomains : ProbeHosts(d) \subseteq Hostnames
  BY ProbedAreHosts
<1>3. ASSUME NEW h \in Hosts PROVE h \in Hostnames
  <2>1. CASE \E m \in Histories : h \in DOMAIN m
    BY <1>1, <2>1
  <2>2. CASE \E d \in ProtectedDomains : h \in ProbeHosts(d)
    BY <1>2, <2>2
  <2> DEFINE seen == {DOMAIN m : m \in Histories}
             probed == {ProbeHosts(d) : d \in ProtectedDomains}
  <2>3. h \in UNION seen \/ h \in UNION probed
    BY <1>3 DEF Hosts
  <2>4. h \in UNION seen => \E m \in Histories : h \in DOMAIN m
    OBVIOUS
  <2>5. h \in UNION probed => \E d \in ProtectedDomains : h \in ProbeHosts(d)
    OBVIOUS
  <2> QED BY <2>1, <2>2, <2>3, <2>4, <2>5
<1> QED BY <1>3

\* A proposed rule reaches no host of a protected sender, and of the domains
\* seen only those that are mostly promotional.
LEMMA ProposalSpares ==
    ASSUME mail \in Histories, NEW rs, NEW f \in Families(rs), NEW p \in f.proposed,
           NEW h \in Hostnames, Tests(p, [local |-> NoLocal, host |-> h])
    PROVE  ~IsProtected(h) /\ (h \in Observed => MostlyPromo(h))
<1> DEFINE s == [local |-> NoLocal, host |-> h]
<1>1. s.host = h /\ Tests(p, s)
  OBVIOUS
<1> HIDE DEF s
<1>2. \/ \E g : Usable(g) /\ Narrow(g.host) /\ p = HostPattern("glob", g.host)
      \/ \E x \in f.members : p = HostPattern("domain", x)
  BY ProposalIs
<1>3. CASE \E x \in f.members : p = HostPattern("domain", x)
  <2>1. PICK x \in f.members : p = HostPattern("domain", x)
    BY <1>3
  <2>2. p.matchType = "domain" /\ p.host = x
    BY <2>1 DEF HostPattern
  <2>3. h = x
    BY <1>1, <2>2 DEF Tests
  <2>4. x \in Qualifying(rs)
    BY ProposalIs
  <2> QED BY <2>3, <2>4 DEF Qualifying
<1>4. CASE \E g : Usable(g) /\ Narrow(g.host) /\ p = HostPattern("glob", g.host)
  <2>1. PICK g : Usable(g) /\ Narrow(g.host) /\ p = HostPattern("glob", g.host)
    BY <1>4
  <2>2. p.matchType = "glob" /\ p.host = g.host
    BY <2>1 DEF HostPattern
  <2>3. HostFits(g.host, h)
    BY <1>1, <2>2 DEF Tests
  <2>4. Collisions(g) = {}
    BY <2>1 DEF Usable
  <2>5. ~IsProtected(h)
    <3> SUFFICES ASSUME NEW d \in ProtectedDomains, IsSuffix(d, h) PROVE FALSE
      BY DEF IsProtected
    <3>1. h \in ProbeHosts(d)
      BY <2>1, <2>3, NarrowIsProbed
    <3>2. h \in Collisions(g)
      BY <2>3, <3>1 DEF Collisions
    <3> QED BY <2>4, <3>2
  <2>6. ASSUME h \in Observed, ~MostlyPromo(h) PROVE FALSE
    <3>1. h \in Collisions(g)
      BY <2>3, <2>6 DEF Collisions
    <3> QED BY <2>4, <3>1
  <2> QED BY <2>5, <2>6
<1> QED BY <1>2, <1>3, <1>4

LEMMA FamiliesFit == ASSUME mail \in Histories PROVE ProposalsFit
<1>1. SparesLegit
  BY ProposalSpares, HostsAre DEF SparesLegit
<1>2. CoversFamily
  <2>1. ASSUME NEW f \in Families(rules), NEW g \in Families(rules)
        PROVE  f = g \/ f.members \cap g.members = {}
    <3>1. PICK a \in Groups(rules) : f = [members |-> a.members, proposed |-> Proposed(a)]
      BY DEF Families
    <3>2. PICK b \in Groups(rules) : g = [members |-> b.members, proposed |-> Proposed(b)]
      BY DEF Families
    <3>3. a = b \/ a.members \cap b.members = {}
      BY GroupsFit
    <3>4. f.members = a.members /\ g.members = b.members
      BY <3>1, <3>2
    <3> QED BY <3>1, <3>2, <3>3, <3>4
  <2> QED BY <2>1, ProposalIs DEF CoversFamily
<1> QED BY <1>1, <1>2 DEF ProposalsFit

----------------------------------------------------------------------------
(* The stored rules.                                                       *)

\* What a pattern matches, and whether it may be stored, depends on nothing a
\* rule adds to it.
LEMMA SamePattern ==
    ASSUME NEW r, NEW p, Stored(r) = Stored(p)
    PROVE  /\ r.matchType = p.matchType
           /\ \A s : Tests(r, s) <=> Tests(p, s)
           /\ Compiles(r) <=> Compiles(p)
           /\ PatternOk(r) <=> PatternOk(p)
<1>1. /\ r.matchType = p.matchType /\ r.local = p.local /\ r.host = p.host
      /\ r.accepts = p.accepts /\ r.safe = p.safe
  BY DEF Stored
<1>2. \A s : Tests(r, s) <=> Tests(p, s)
  BY <1>1, Zenon DEF Tests, TargetsAddress
<1>3. Compiles(r) <=> Compiles(p)
  BY <1>1 DEF Compiles
<1>4. Literals(r) = Literals(p)
  BY <1>1 DEF Literals
<1>5. CanaryHits(r) = CanaryHits(p)
  BY <1>2 DEF CanaryHits
<1>6. PatternOk(r) <=> PatternOk(p)
  BY <1>1, <1>4, <1>5, Zenon DEF PatternOk
<1> QED BY <1>1, <1>2, <1>3, <1>6

LEMMA StoredIs == ASSUME NEW p \in Patterns PROVE Stored(p) = p
BY DEF Stored, Patterns

LEMMA StoredTyped == ASSUME NEW r \in Rules PROVE Stored(r) \in Patterns
BY DEF Stored, Patterns, Rules

LEMMA NewRuleIs ==
    ASSUME NEW p \in Patterns, NEW id, NEW age
    PROVE  /\ Stored(NewRule(p, id, age)) = p
           /\ NewRule(p, id, age).id = id /\ NewRule(p, id, age).enabled = TRUE
           /\ id \in 1..MaxCreated /\ age \in 0..MaxCreated => NewRule(p, id, age) \in Rules
           /\ PatternOk(NewRule(p, id, age)) <=> PatternOk(p)
<1> DEFINE r == NewRule(p, id, age)
<1>1. Stored(r) = p
  BY DEF Stored, NewRule, Patterns
<1>2. r.id = id /\ r.enabled = TRUE
  BY DEF NewRule
<1>3. id \in 1..MaxCreated /\ age \in 0..MaxCreated => r \in Rules
  BY DEF NewRule, Patterns, Rules
<1>4. PatternOk(r) <=> PatternOk(p)
  <2>1. Stored(r) = Stored(p)
    BY <1>1, StoredIs
  <2> HIDE DEF r
  <2> QED BY <2>1, SamePattern
<1> QED BY <1>1, <1>2, <1>3, <1>4

LEMMA HostPatternTyped == ASSUME NEW h \in Hostnames, NEW type \in {"glob", "domain"}
                          PROVE  HostPattern(type, h) \in Patterns /\ HostPattern(type, h).matchType = type
<1>1. type \in DOMAIN Rank
  BY DEF Rank
<1>2. NoLocal \in Seq(Letters)
  BY EmptySeq DEF NoLocal
<1> QED BY <1>1, <1>2 DEF HostPattern, Patterns

\* What is proposed may be stored.
LEMMA ProposalTyped ==
    ASSUME mail \in Histories, NEW rs, NEW f \in Families(rs), NEW p \in f.proposed
    PROVE  p \in Patterns /\ PatternOk(p) /\ Compiles(p)
<1>1. \/ \E g : Usable(g) /\ Narrow(g.host) /\ p = HostPattern("glob", g.host)
      \/ \E x \in f.members : p = HostPattern("domain", x)
  BY ProposalIs
<1>2. CASE \E g : Usable(g) /\ Narrow(g.host) /\ p = HostPattern("glob", g.host)
  <2>1. PICK g : Usable(g) /\ Narrow(g.host) /\ p = HostPattern("glob", g.host)
    BY <1>2
  <2>2. p \in Patterns /\ p.matchType = "glob"
    BY <2>1, NarrowIsHost, HostPatternTyped
  <2> QED BY <2>1, <2>2 DEF Usable, Compiles
<1>3. CASE \E x \in f.members : p = HostPattern("domain", x)
  <2>1. PICK x \in f.members : p = HostPattern("domain", x)
    BY <1>3
  <2>2. x \in Hostnames /\ IsHostname(x)
    BY <2>1, ProposalIs, QualifyingIs DEF Names
  <2>3. p \in Patterns /\ p.matchType = "domain" /\ p.host = x
    BY <2>1, <2>2, HostPatternTyped DEF HostPattern
  <2> QED BY <2>2, <2>3 DEF PatternOk, Compiles
<1> QED BY <1>1, <1>2, <1>3

\* There are finitely many proposals.
LEMMA ProposedFinite == ASSUME mail \in Histories, NEW rs, NEW f \in Families(rs)
                        PROVE  IsFiniteSet(f.proposed)
<1>1. PICK group \in Groups(rs) : f = [members |-> group.members, proposed |-> Proposed(group)]
  BY DEF Families
<1>2. f.proposed = Proposed(group)
  BY <1>1
<1>3. group.members \subseteq Qualifying(rs)
  BY GroupsFit DEF GroupFits
<1>4. IsFiniteSet(Qualifying(rs))
  <2>1. IsFiniteSet(DOMAIN mail)
    BY SuggestionAssumption
  <2>2. Qualifying(rs) \subseteq DOMAIN mail
    BY DEF Qualifying, Observed
  <2> QED BY <2>1, <2>2, FS_Subset
<1>5. IsFiniteSet(group.globs)
  <2>1. \/ group.globs = {}
        \/ \E g : group.globs = {g}
    <3>1. \/ \E q : group \in NewsGroups(q)
          \/ \E q : group \in PrefixGroups(q)
          \/ \E q : group \in SingleGroups(q)
      BY DEF Groups
    <3>2. ASSUME NEW q, group \in NewsGroups(q) PROVE group.globs = {} \/ \E g : group.globs = {g}
      <4>1. PICK sfx : group = NewsGroup(q, sfx)
        BY <3>2, NewsIs
      <4> QED BY <4>1 DEF NewsGroup
    <3>3. ASSUME NEW q, group \in PrefixGroups(q) PROVE group.globs = {} \/ \E g : group.globs = {g}
      <4>1. PICK k : group = PrefixGroup(q, k)
        BY <3>3, PrefixIs
      <4> QED BY <4>1 DEF PrefixGroup
    <3>4. ASSUME NEW q, group \in SingleGroups(q) PROVE group.globs = {}
      <4>1. PICK k : group = SingleGroup(q, k)
        BY <3>4, SingleIs
      <4> QED BY <4>1 DEF SingleGroup
    <3> QED BY <3>1, <3>2, <3>3, <3>4
  <2> QED BY <2>1, FS_EmptySet, FS_Singleton
<1> DEFINE usable == {g \in group.globs : Usable(g)}
           rest == group.members \ UNION {g.members : g \in usable}
           fromGlobs == {HostPattern("glob", g.host) : g \in usable}
           fromHosts == {HostPattern("domain", h) : h \in rest}
<1>6. IsFiniteSet(usable) /\ IsFiniteSet(rest)
  <2>1. usable \subseteq group.globs
    OBVIOUS
  <2>2. rest \subseteq Qualifying(rs)
    BY <1>3
  <2> QED BY <1>4, <1>5, <2>1, <2>2, FS_Subset
<1> HIDE DEF usable, rest
<1>7. IsFiniteSet(fromGlobs)
  <2>1. [g \in usable |-> HostPattern("glob", g.host)] \in Surjection(usable, fromGlobs)
    BY DEF Surjection
  <2> QED BY <1>6, <2>1, FS_Surjection
<1>8. IsFiniteSet(fromHosts)
  <2>1. [h \in rest |-> HostPattern("domain", h)] \in Surjection(rest, fromHosts)
    BY DEF Surjection
  <2> QED BY <1>6, <2>1, FS_Surjection
<1>9. f.proposed = fromGlobs \cup fromHosts
  BY <1>2 DEF Proposed, usable, rest
<1> QED BY <1>7, <1>8, <1>9, FS_Union

DistinctRules(rs) == \A r, q \in rs : r = q \/ (r.id # q.id /\ Stored(r) # Stored(q))
RulesOk(rs, n) == /\ IsFiniteSet(rs) /\ rs \subseteq Rules
                  /\ \A r \in rs : r.id <= n /\ PatternOk(r)
                  /\ DistinctRules(rs)

LEMMA TypeIs == TypeOK <=> mail \in Histories /\ created \in 0..MaxCreated /\ RulesOk(rules, created)
BY DEF TypeOK, RulesOk, DistinctRules

LEMMA InitTyped == ASSUME Init PROVE TypeOK
<1>1. IsFiniteSet({}) /\ 0 \in 0..MaxCreated
  BY FS_EmptySet, SuggestionAssumption
<1> QED BY <1>1 DEF Init, TypeOK

LEMMA CreateTyped == ASSUME TypeOK, NEW p \in UserPatterns, CreateRule(p) PROVE TypeOK'
<1> DEFINE r == NewRule(p, created + 1, created + 1)
<1>1. /\ created \in Nat /\ created < MaxOwn /\ MaxOwn <= MaxCreated /\ MaxOwn \in Nat /\ MaxCreated \in Nat
      /\ p \in Patterns
  BY SuggestionAssumption DEF TypeOK, CreateRule
<1>2. created + 1 \in 1..MaxCreated /\ created + 1 \in 0..MaxCreated
  BY <1>1
<1>3. /\ Stored(r) = p /\ r.id = created + 1 /\ r \in Rules /\ PatternOk(r)
  BY <1>1, <1>2, NewRuleIs DEF CreateRule
<1>4. rules' = rules \cup {r} /\ created' = created + 1 /\ mail' = mail /\ ~Taken(rules, p)
  BY DEF CreateRule
<1> HIDE DEF r
<1>5. IsFiniteSet(rules') /\ rules' \subseteq Rules
  BY <1>3, <1>4, FS_AddElement DEF TypeOK
<1>6. \A q \in rules : q.id <= created /\ q.id \in Nat /\ Stored(q) # p
  BY <1>4 DEF TypeOK, Rules, Taken
<1>7. DistinctRules(rules')
  <2>1. \A q \in rules : q.id # r.id /\ Stored(q) # Stored(r)
    BY <1>1, <1>3, <1>6
  <2> QED BY <1>4, <2>1 DEF TypeOK, DistinctRules
<1>8. \A q \in rules' : q.id <= created' /\ PatternOk(q)
  BY <1>1, <1>3, <1>4, <1>6 DEF TypeOK
<1>9. RulesOk(rules', created')
  BY <1>5, <1>7, <1>8 DEF RulesOk
<1>10. TypeOK' <=> mail' \in Histories /\ created' \in 0..MaxCreated /\ RulesOk(rules', created')
  BY DEF TypeOK, RulesOk, DistinctRules
<1> QED BY <1>2, <1>4, <1>9, <1>10 DEF TypeOK

\* The patterns still to create, as a list, and the rules made of them.
Todo(f) == {p \in f.proposed : ~Taken(rules, p)}
MadeAt(todo, start, i) == NewRule(todo[i], created + i, start + i - 1)

Makes(todo, ps, start) ==
    /\ \A p \in ps : \E i \in 1..Len(todo) : todo[i] = p
    /\ \A i, j \in 1..Len(todo) : todo[i] = todo[j] => i = j
    /\ created + Len(todo) <= MaxCreated /\ created' = created + Len(todo) /\ mail' = mail
    /\ rules' = rules \cup {MadeAt(todo, start, i) : i \in 1..Len(todo)}

LEMMA AcceptIs ==
    ASSUME TypeOK, NEW f \in Families(rules), Accept(f)
    PROVE  \E start \in {created, created + 1}, todo \in Seq(Todo(f)) : Makes(todo, Todo(f), start)
<1> DEFINE list == SetToSeq(Todo(f))
           n == Cardinality(Todo(f))
<1>1. IsFiniteSet(Todo(f))
  <2>1. IsFiniteSet(f.proposed)
    BY ProposedFinite DEF TypeOK
  <2> QED BY <2>1, FS_Subset DEF Todo
<1>2. /\ list \in [1..n -> Todo(f)] /\ n \in Nat /\ Len(list) = n /\ DOMAIN list = 1..n
      /\ \A p \in Todo(f) : \E i \in 1..n : list[i] = p
      /\ \A i, j \in 1..n : list[i] = list[j] => i = j
  BY <1>1, ListIs
<1>3. /\ created + Len(list) <= MaxCreated /\ created' = created + Len(list) /\ mail' = mail
      /\ \E start \in {created, created + 1} :
            rules' = rules \cup {NewRule(list[i], created + i, start + i - 1) :
                                 i \in {i \in DOMAIN list : PatternOk(list[i])}}
  BY DEF Accept, Todo
<1> HIDE DEF list, n
<1>4. PICK start \in {created, created + 1} :
            rules' = rules \cup {NewRule(list[i], created + i, start + i - 1) :
                                 i \in {i \in DOMAIN list : PatternOk(list[i])}}
  BY <1>3
<1>5. \A i \in 1..n : PatternOk(list[i])
  <2>1. \A p \in Todo(f) : PatternOk(p)
    BY ProposalTyped DEF TypeOK, Todo
  <2> QED BY <1>2, <2>1
<1>6. {i \in DOMAIN list : PatternOk(list[i])} = 1..n
  BY <1>2, <1>5
<1>7. rules' = rules \cup {MadeAt(list, start, i) : i \in 1..n}
  BY <1>4, <1>6 DEF MadeAt
<1>8. list \in Seq(Todo(f))
  BY <1>2
<1>9. Makes(list, Todo(f), start)
  BY <1>2, <1>3, <1>7 DEF Makes
<1> QED BY <1>8, <1>9

LEMMA AcceptTyped == ASSUME TypeOK, NEW f \in Families(rules), Accept(f) PROVE TypeOK'
<1>0. PICK start \in {created, created + 1}, todo \in Seq(Todo(f)) : Makes(todo, Todo(f), start)
  BY AcceptIs
<1> DEFINE n == Len(todo)
<1>1. /\ n \in Nat /\ \A i \in 1..n : todo[i] \in Todo(f)
      /\ \A i, j \in 1..n : todo[i] = todo[j] => i = j
      /\ created + n <= MaxCreated /\ created' = created + n /\ mail' = mail
      /\ rules' = rules \cup {MadeAt(todo, start, i) : i \in 1..n}
  BY <1>0 DEF Makes
<1> HIDE DEF n
<1> DEFINE made == {MadeAt(todo, start, i) : i \in 1..n}
<1>2. created \in Nat /\ MaxCreated \in Nat /\ start \in Nat /\ start <= created + 1
  BY SuggestionAssumption DEF TypeOK
<1>3. ASSUME NEW i \in 1..n
      PROVE  /\ Stored(MadeAt(todo, start, i)) = todo[i]
             /\ MadeAt(todo, start, i).id = created + i
             /\ MadeAt(todo, start, i) \in Rules /\ PatternOk(MadeAt(todo, start, i))
             /\ \A q \in rules : Stored(q) # todo[i]
  <2>1. todo[i] \in Todo(f)
    BY <1>1
  <2>2. todo[i] \in Patterns /\ PatternOk(todo[i])
    BY <2>1, ProposalTyped DEF TypeOK, Todo
  <2>3. created + i \in 1..MaxCreated /\ start + i - 1 \in 0..MaxCreated
    BY <1>1, <1>2
  <2>4. \A q \in rules : Stored(q) # todo[i]
    BY <2>1 DEF Todo, Taken
  <2> DEFINE id == created + i
             age == start + i - 1
             p == todo[i]
             r == NewRule(p, id, age)
  <2>5. Stored(r) = p /\ r.id = id /\ r \in Rules /\ PatternOk(r)
    <3> HIDE DEF id, age, p
    <3>1. id \in 1..MaxCreated /\ age \in 0..MaxCreated
      BY <2>3 DEF id, age
    <3>2. p \in Patterns /\ PatternOk(p)
      BY <2>2 DEF p
    <3> QED BY <3>1, <3>2, NewRuleIs
  <2>6. MadeAt(todo, start, i) = r
    BY DEF MadeAt
  <2> HIDE DEF r
  <2> QED BY <2>4, <2>5, <2>6
<1>4. \A r \in made : \E i \in 1..n : r = MadeAt(todo, start, i)
  OBVIOUS
<1>5. IsFiniteSet(rules') /\ rules' \subseteq Rules
  <2>1. IsFiniteSet(made)
    <3>1. [i \in 1..n |-> MadeAt(todo, start, i)] \in Surjection(1..n, made)
      BY DEF Surjection
    <3>2. IsFiniteSet(1..n)
      BY <1>1, FS_Interval
    <3> HIDE DEF made
    <3> QED BY <3>1, <3>2, FS_Surjection
  <2>2. made \subseteq Rules
    BY <1>3, <1>4
  <2>3. rules' = rules \cup made
    BY <1>1
  <2> HIDE DEF made
  <2> QED BY <2>1, <2>2, <2>3, FS_Union DEF TypeOK
<1>6. \A q \in rules : q.id <= created /\ q.id \in Nat
  BY DEF TypeOK, Rules
<1>7. \A r \in made, q \in rules : q.id # r.id /\ Stored(q) # Stored(r)
  <2> SUFFICES ASSUME NEW r \in made, NEW q \in rules PROVE q.id # r.id /\ Stored(q) # Stored(r)
    OBVIOUS
  <2>1. PICK i \in 1..n : r = MadeAt(todo, start, i)
    BY <1>4
  <2>2. Stored(r) = todo[i] /\ r.id = created + i /\ Stored(q) # todo[i]
    BY <1>3, <2>1
  <2> QED BY <1>2, <1>6, <2>2
<1>8. \A r, q \in made : r = q \/ (r.id # q.id /\ Stored(r) # Stored(q))
  <2> SUFFICES ASSUME NEW r \in made, NEW q \in made, r # q PROVE r.id # q.id /\ Stored(r) # Stored(q)
    OBVIOUS
  <2>1. PICK i \in 1..n : r = MadeAt(todo, start, i)
    BY <1>4
  <2>2. PICK j \in 1..n : q = MadeAt(todo, start, j)
    BY <1>4
  <2>3. i # j
    BY <2>1, <2>2
  <2>4. /\ Stored(r) = todo[i] /\ r.id = created + i
        /\ Stored(q) = todo[j] /\ q.id = created + j
    BY <1>3, <2>1, <2>2
  <2> QED BY <1>1, <1>2, <2>3, <2>4
<1> HIDE DEF made
<1>9. rules' = rules \cup made
  BY <1>1 DEF made
<1>10. DistinctRules(rules')
  BY <1>7, <1>8, <1>9 DEF TypeOK, DistinctRules
<1>11. \A r \in rules' : r.id <= created' /\ PatternOk(r)
  <2>1. \A r \in made : r.id <= created' /\ PatternOk(r)
    <3> SUFFICES ASSUME NEW r \in made PROVE r.id <= created' /\ PatternOk(r)
      OBVIOUS
    <3>1. PICK i \in 1..n : r = MadeAt(todo, start, i)
      BY <1>4
    <3>2. r.id = created + i /\ PatternOk(r)
      BY <1>3, <3>1
    <3> QED BY <1>1, <1>2, <3>2
  <2>2. \A r \in rules : r.id <= created' /\ PatternOk(r)
    BY <1>1, <1>2, <1>6 DEF TypeOK
  <2> QED BY <1>9, <2>1, <2>2
<1>12. RulesOk(rules', created')
  BY <1>5, <1>10, <1>11 DEF RulesOk
<1>13. TypeOK' <=> mail' \in Histories /\ created' \in 0..MaxCreated /\ RulesOk(rules', created')
  BY DEF TypeOK, RulesOk, DistinctRules
<1> QED BY <1>1, <1>2, <1>12, <1>13 DEF TypeOK

LEMMA SetEnabledTyped == ASSUME TypeOK, NEW r \in rules, NEW on \in BOOLEAN, SetEnabled(r, on) PROVE TypeOK'
<1> DEFINE new == [r EXCEPT !.enabled = on]
<1>1. r \in Rules
  BY DEF TypeOK
<1>2. new \in Rules /\ Stored(new) = Stored(r) /\ new.id = r.id
  BY <1>1 DEF Rules, Stored
<1> HIDE DEF new
<1>3. PatternOk(new)
  BY <1>2, SamePattern DEF TypeOK
<1>4. rules' = (rules \ {r}) \cup {new} /\ created' = created /\ mail' = mail
  BY DEF SetEnabled, new
<1>5. IsFiniteSet(rules') /\ rules' \subseteq Rules
  <2>1. IsFiniteSet(rules \ {r})
    BY FS_RemoveElement DEF TypeOK
  <2> QED BY <1>2, <1>4, <2>1, FS_AddElement DEF TypeOK
<1>6. DistinctRules(rules')
  BY <1>2, <1>4 DEF TypeOK, DistinctRules
<1>7. \A q \in rules' : q.id <= created' /\ PatternOk(q)
  BY <1>2, <1>3, <1>4 DEF TypeOK
<1>8. RulesOk(rules', created')
  BY <1>5, <1>6, <1>7 DEF RulesOk
<1>9. TypeOK' <=> mail' \in Histories /\ created' \in 0..MaxCreated /\ RulesOk(rules', created')
  BY DEF TypeOK, RulesOk, DistinctRules
<1> QED BY <1>4, <1>8, <1>9 DEF TypeOK

LEMMA RemoveTyped == ASSUME TypeOK, NEW r \in rules, RemoveRule(r) PROVE TypeOK'
<1>1. rules' = rules \ {r} /\ created' = created /\ mail' = mail
  BY DEF RemoveRule
<1>2. IsFiniteSet(rules')
  BY <1>1, FS_RemoveElement DEF TypeOK
<1> QED BY <1>1, <1>2 DEF TypeOK

LEMMA StepTyped == ASSUME TypeOK, [Next]_vars PROVE TypeOK'
<1>1. CASE UNCHANGED vars
  BY <1>1 DEF TypeOK, vars
<1>2. CASE \E p \in UserPatterns : CreateRule(p)
  BY <1>2, CreateTyped
<1>3. CASE \E f \in Families(rules) : Accept(f)
  BY <1>3, AcceptTyped
<1>4. CASE \E r \in rules : RemoveRule(r) \/ \E on \in BOOLEAN : SetEnabled(r, on)
  BY <1>4, RemoveTyped, SetEnabledTyped
<1> QED BY <1>1, <1>2, <1>3, <1>4 DEF Next

----------------------------------------------------------------------------
(* What holds of the stored rules, whatever they are.                      *)

LEMMA RulesAreApart == ASSUME NEW rs, NEW n, RulesOk(rs, n) PROVE DifferentIds(rs)
BY DEF RulesOk, DistinctRules, DifferentIds

LEMMA OrderDoesNotMatter == ASSUME TypeOK PROVE MatchIgnoresOrder
<1>1. RulesOk(rules, created)
  BY TypeIs
<1>2. DifferentIds(rules) /\ IsFiniteSet(rules)
  BY <1>1, RulesAreApart DEF RulesOk
<1>3. Lists(SetToSeq(rules), rules) /\ Lists(Reverse(SetToSeq(rules)), rules)
  BY <1>2, ListsAre
<1>4. \A s : Match(SetToSeq(rules), s) = Match(Reverse(SetToSeq(rules)), s)
  BY <1>2, <1>3, OrderIgnored
<1> QED BY <1>4 DEF MatchIgnoresOrder

LEMMA WarningsTrue == ASSUME TypeOK PROVE WarnsOfProtected
<1> SUFFICES ASSUME NEW r \in rules, NEW d \in ProtectedDomains
             PROVE  LET caught == \E h \in Hosts \cup {r.host}, l \in ProbeLocals \cup {r.local} :
                                     IsSuffix(d, h) /\ Tests(r, [local |-> l, host |-> h])
                    IN  IF r.matchType \in {"glob", "regex"} THEN d \in ProtectedHits(r) => caught
                        ELSE d \in ProtectedHits(r) <=> caught
  BY DEF WarnsOfProtected
<1> DEFINE caught == \E h \in Hosts \cup {r.host}, l \in ProbeLocals \cup {r.local} :
                        IsSuffix(d, h) /\ Tests(r, [local |-> l, host |-> h])
<1>1. /\ r.host \in Seq(Seq(Letters)) /\ d \in Seq(Seq(Letters))
      /\ r.matchType \in {"address", "domain", "domain_suffix", "glob", "regex"}
  BY PatternAssumption DEF TypeOK, Rules, Hostnames, Rank
<1>2. ProbeHosts(d) \subseteq Hosts
  BY DEF Hosts
<1>3. CASE r.matchType \in {"glob", "regex"}
  <2> SUFFICES ASSUME d \in ProtectedHits(r) PROVE caught
    BY <1>3
  <2>1. PICK h \in ProbeHosts(d), l \in ProbeLocals : Tests(r, [local |-> l, host |-> h])
    BY <1>3 DEF ProtectedHits
  <2>2. IsSuffix(d, h) /\ h \in Hosts
    BY <1>2, ProbedAreHosts
  <2> QED BY <2>1, <2>2
<1>4. CASE r.matchType \in {"address", "domain"}
  <2>1. d \in ProtectedHits(r) <=> IsSuffix(d, r.host)
    BY <1>4 DEF ProtectedHits
  <2>2. ASSUME IsSuffix(d, r.host) PROVE caught
    <3> DEFINE s == [local |-> r.local, host |-> r.host]
    <3>1. s.local = r.local /\ s.host = r.host
      OBVIOUS
    <3> HIDE DEF s
    <3>2. Tests(r, s)
      BY <1>4, <3>1 DEF Tests
    <3> QED BY <2>2, <3>2 DEF s
  <2>3. ASSUME caught PROVE IsSuffix(d, r.host)
    <3>1. PICK h \in Hosts \cup {r.host}, l \in ProbeLocals \cup {r.local} :
             IsSuffix(d, h) /\ Tests(r, [local |-> l, host |-> h])
      BY <2>3
    <3> DEFINE s == [local |-> l, host |-> h]
    <3>2. s.host = h /\ Tests(r, s)
      BY <3>1
    <3> HIDE DEF s
    <3>3. h = r.host
      BY <1>4, <3>2 DEF Tests
    <3> QED BY <3>1, <3>3
  <2> QED BY <1>4, <2>1, <2>2, <2>3
<1>5. CASE r.matchType = "domain_suffix"
  <2>1. d \in ProtectedHits(r) <=> IsSuffix(r.host, d) \/ IsSuffix(d, r.host)
    BY <1>5 DEF ProtectedHits
  <2>2. ASSUME NEW h \in Hosts \cup {r.host}, IsSuffix(d, h), IsSuffix(r.host, h) PROVE caught
    <3> DEFINE s == [local |-> r.local, host |-> h]
    <3>1. s.host = h
      OBVIOUS
    <3> HIDE DEF s
    <3>2. Tests(r, s)
      BY <1>5, <2>2, <3>1 DEF Tests
    <3> QED BY <2>2, <3>2 DEF s
  <2>3. ASSUME IsSuffix(r.host, d) PROVE caught
    <3>1. d \in ProbeHosts(d)
      <4>1. <<>> \o d = d
        BY <1>1, ConcatEmptySeq
      <4> QED BY <4>1, PatternAssumption DEF ProbeHosts
    <3>2. d \in Hosts \cup {r.host} /\ IsSuffix(d, d)
      BY <1>1, <1>2, <3>1, SuffixItself
    <3> HIDE DEF caught
    <3> QED BY <2>2, <2>3, <3>2
  <2>4. ASSUME IsSuffix(d, r.host) PROVE caught
    <3>1. r.host \in Hosts \cup {r.host} /\ IsSuffix(r.host, r.host)
      BY <1>1, SuffixItself
    <3> HIDE DEF caught
    <3> QED BY <2>2, <2>4, <3>1
  <2>5. ASSUME caught PROVE IsSuffix(r.host, d) \/ IsSuffix(d, r.host)
    <3>1. PICK h \in Hosts \cup {r.host}, l \in ProbeLocals \cup {r.local} :
             IsSuffix(d, h) /\ Tests(r, [local |-> l, host |-> h])
      BY <2>5
    <3> DEFINE s == [local |-> l, host |-> h]
    <3>2. s.host = h /\ Tests(r, s)
      BY <3>1
    <3> HIDE DEF s
    <3>3. IsSuffix(r.host, h)
      BY <1>5, <3>2 DEF Tests
    <3>4. h \in Seq(Seq(Letters))
      BY <1>1, HostsAre DEF Hostnames
    <3> QED BY <1>1, <3>1, <3>3, <3>4, SuffixesNest
  <2> HIDE DEF caught
  <2>6. d \in ProtectedHits(r) <=> caught
    BY <2>1, <2>3, <2>4, <2>5
  <2> QED BY <1>5, <2>6 DEF caught
<1> QED BY <1>1, <1>3, <1>4, <1>5

\* Accepting a family leaves no domain of it to suggest a rule for, but those
\* a disabled rule stands for.
LEMMA AcceptSettles ==
    ASSUME TypeOK, TypeOK', NEW f \in Families(rules), Accept(f),
           NEW h \in f.members, h \in Qualifying(rules')
    PROVE  \E r \in rules : ~r.enabled /\ Stored(r) \in f.proposed
<1> DEFINE s == [local |-> NoLocal, host |-> h]
<1>1. PICK p \in f.proposed : Tests(p, s)
  BY ProposalIs DEF TypeOK
<1>2. Match(SetToSeq(rules'), s) = <<>>
  BY DEF Qualifying
<1> HIDE DEF s
<1>3. p \in Patterns /\ PatternOk(p) /\ Compiles(p) /\ Stored(p) = p
  BY ProposalTyped, StoredIs DEF TypeOK
<1>4. Hitting(rules', s) = {}
  <2> SUFFICES ASSUME Hitting(rules', s) # {} PROVE FALSE
    OBVIOUS
  <2>1. RulesOk(rules', created')
    BY DEF TypeOK, RulesOk, DistinctRules
  <2>2. DifferentIds(rules') /\ Lists(SetToSeq(rules'), rules')
    BY <2>1, RulesAreApart, ListsAre DEF RulesOk
  <2>3. \E r \in rules' : Match(SetToSeq(rules'), s) = <<r>>
    BY <2>2, MatchIs
  <2> QED BY <1>2, <2>3
<1>5. PICK start \in {created, created + 1}, todo \in Seq(Todo(f)) : Makes(todo, Todo(f), start)
  BY AcceptIs
<1>6. rules' = rules \cup {MadeAt(todo, start, i) : i \in 1..Len(todo)}
  BY <1>5 DEF Makes
<1>7. ASSUME NEW r \in rules', Stored(r) = p PROVE ~r.enabled
  <2>1. Tests(r, s) /\ Compiles(r)
    BY <1>1, <1>3, <1>7, SamePattern
  <2> QED BY <1>4, <2>1 DEF Hitting
<1>8. Taken(rules, p)
  <2> SUFFICES ASSUME ~Taken(rules, p) PROVE FALSE
    OBVIOUS
  <2>1. p \in Todo(f)
    BY DEF Todo
  <2>2. PICK i \in 1..Len(todo) : todo[i] = p
    BY <1>5, <2>1 DEF Makes
  <2> DEFINE r == MadeAt(todo, start, i)
  <2>3. r \in rules'
    BY <1>6
  <2>4. Stored(r) = p /\ r.enabled = TRUE
    <3> DEFINE id == created + i
               age == start + i - 1
    <3>1. r = NewRule(p, id, age)
      BY <2>2 DEF MadeAt
    <3> HIDE DEF r, id, age
    <3>2. p \in Patterns
      BY <1>3
    <3>3. Stored(NewRule(p, id, age)) = p /\ NewRule(p, id, age).enabled = TRUE
      BY <3>2, NewRuleIs
    <3> QED BY <3>1, <3>3
  <2> HIDE DEF r
  <2> QED BY <1>7, <2>3, <2>4
<1>9. PICK r \in rules : Stored(r) = p
  BY <1>8 DEF Taken
<1>10. ~r.enabled
  BY <1>6, <1>7, <1>9
<1> QED BY <1>9, <1>10

----------------------------------------------------------------------------
(* The theorems about the rules and the suggestions.                       *)

\* Every stored rule was allowed to be stored, has an id of its own and a
\* pattern no other rule has, for any history, any rules the user writes and
\* any order of creating, accepting, disabling and removing.
THEOREM StoredRulesTyped == Spec => []TypeOK
<1>1. Init => TypeOK
  BY InitTyped
<1>2. TypeOK /\ [Next]_vars => TypeOK'
  BY StepTyped
<1> QED BY <1>1, <1>2, PTL DEF Spec

\* The rules proposed for a family catch each of its domains, which no other
\* family lists, and catch no host of a protected sender and no domain that is
\* mostly ordinary mail.
THEOREM SuggestionsFit == Spec => []ProposalsFit
<1>1. TypeOK => ProposalsFit
  BY FamiliesFit DEF TypeOK
<1> QED BY <1>1, StoredRulesTyped, PTL

\* It is not only the hosts the collision check looks at: of a family glob,
\* which has one wildcard over a public suffix, the probes are all the hosts of
\* protected senders there can be.
SparesEveryHost ==
    \A f \in Families(rules) : \A p \in f.proposed : \A h \in Hostnames :
        Tests(p, [local |-> NoLocal, host |-> h]) =>
            ~IsProtected(h) /\ (h \in Observed => MostlyPromo(h))

THEOREM NoSuggestionReachesProtected == Spec => []SparesEveryHost
<1>1. TypeOK => SparesEveryHost
  BY ProposalSpares DEF TypeOK, SparesEveryHost
<1> QED BY <1>1, StoredRulesTyped, PTL

\* Which rule wins for a sender depends on the rules and not on the order the
\* database lists them in: compareRulePrecedence orders any stored rules.
THEOREM WinnerIgnoresOrder == Spec => []MatchIgnoresOrder
<1>1. TypeOK => MatchIgnoresOrder
  BY OrderDoesNotMatter
<1> QED BY <1>1, StoredRulesTyped, PTL

\* protectedHits names no protected sender a stored rule spares, and for the
\* types it checks without probes it names each one the rule catches.
THEOREM ProtectedHitsTrue == Spec => []WarnsOfProtected
<1>1. TypeOK => WarnsOfProtected
  BY WarningsTrue
<1> QED BY <1>1, StoredRulesTyped, PTL

\* An accepted family is suggested again only for the domains a disabled rule
\* of the same pattern stands for.
THEOREM AcceptedStaysSettled == Spec => AcceptedIsSettled
<1>1. TypeOK /\ TypeOK' /\ [Next]_vars =>
          [created' > created => \A f \in Families(rules) :
              Accept(f) => \A h \in f.members \cap Qualifying(rules') :
                  \E r \in rules : ~r.enabled /\ Stored(r) \in f.proposed]_vars
  BY AcceptSettles
<1> QED BY <1>1, StoredRulesTyped, PTL DEF AcceptedIsSettled, Spec

----------------------------------------------------------------------------
(* What becomes of one email.                                              *)

Place5(score) == LET n == Rounded(Shown(score), 100) IN IF n < 0 THEN 1 ELSE IF n >= 5 THEN 5 ELSE n + 1

\* A score shown higher has no lower place among the five levels, one shown
\* alike has the same.
LEMMA PlaceIsMonotone ==
    ASSUME NEW s \in Int, NEW t \in Int
    PROVE  /\ Place5(s) \in 1..5
           /\ Shown(s) = Shown(t) => Place5(s) = Place5(t)
           /\ Shown(s) > Shown(t) => Place5(s) >= Place5(t)
<1> DEFINE a == Shown(s)
           b == Shown(t)
<1>1. a \in Int /\ b \in Int
  BY DEF Shown, Rounded
<1> HIDE DEF a, b
<1> DEFINE m == Rounded(a, 100)
           n == Rounded(b, 100)
<1>2. m \in Int /\ n \in Int /\ (a = b => m = n) /\ (a > b => m >= n)
  BY <1>1 DEF Rounded
<1> HIDE DEF m, n
<1>3. /\ Place5(s) = IF m < 0 THEN 1 ELSE IF m >= 5 THEN 5 ELSE m + 1
      /\ Place5(t) = IF n < 0 THEN 1 ELSE IF n >= 5 THEN 5 ELSE n + 1
  BY DEF Place5, m, n, a, b
<1> QED BY <1>2, <1>3 DEF a, b

FiveLevels(levels) ==
    /\ levels = ImportanceLevels \/ levels = UrgencyLevels

LEMMA LevelsAre == ASSUME NEW levels, FiveLevels(levels)
                   PROVE  /\ Len(levels) = 5 /\ DOMAIN levels = 1..5
                          /\ \A i, j \in 1..5 : levels[i] = levels[j] => i = j
<1>1. CASE levels = ImportanceLevels
  BY <1>1 DEF ImportanceLevels
<1>2. CASE levels = UrgencyLevels
  BY <1>2 DEF UrgencyLevels
<1> QED BY <1>1, <1>2 DEF FiveLevels

\* The level stored for a score, and the place of that level.
LEMMA LevelHasPlace ==
    ASSUME NEW levels, FiveLevels(levels), NEW s \in Int
    PROVE  (CHOOSE i \in DOMAIN levels : levels[i] = LevelOf(levels, s)) = Place5(s)
<1>1. Len(levels) = 5 /\ DOMAIN levels = 1..5 /\ \A i, j \in 1..5 : levels[i] = levels[j] => i = j
  BY LevelsAre
<1>2. Place5(s) \in 1..5
  BY PlaceIsMonotone
<1>3. LevelOf(levels, s) = levels[Place5(s)]
  <2>1. Shown(s) \in Int
    BY DEF Shown, Rounded
  <2> DEFINE n == Rounded(Shown(s), 100)
  <2>2. n \in Int
    BY <2>1 DEF Rounded
  <2>3. LevelOf(levels, s) = levels[Clamped(n, levels) + 1]
    BY DEF LevelOf
  <2>4. Place5(s) = IF n < 0 THEN 1 ELSE IF n >= 5 THEN 5 ELSE n + 1
    BY DEF Place5
  <2> HIDE DEF n
  <2>5. Clamped(n, levels) + 1 = IF n < 0 THEN 1 ELSE IF n >= 5 THEN 5 ELSE n + 1
    BY <1>1, <2>2 DEF Clamped
  <2> QED BY <2>3, <2>4, <2>5
<1> QED BY <1>1, <1>2, <1>3

\* Before a model answers there is no row; after, the row is what its answers
\* make with the verdict of the rules.
JudgedRow ==
    row # NotYet => \E a \in AnswerSet : answers = a /\ row = Judged(rule, a)
RuleStays == row # NotYet => rule # NotYet
TriageInv == JudgedRow /\ RuleStays

LEMMA TriageInductive == ASSUME TriageInv, [TriageNext]_triageVars PROVE TriageInv'
<1>1. CASE UNCHANGED triageVars
  BY <1>1 DEF TriageInv, JudgedRow, RuleStays, triageVars
<1>2. ASSUME NEW names \in SUBSET Matchable, Normalise(names) PROVE TriageInv'
  BY <1>2 DEF TriageInv, JudgedRow, RuleStays, Normalise
<1>3. ASSUME NEW a \in AnswerSet, Judge(a) PROVE TriageInv'
  BY <1>3 DEF TriageInv, JudgedRow, RuleStays, Judge
<1>4. CASE Approve \/ \E c \in Categories \cup {"none"} : Reject(c) \/ Recategorize(c)
  BY <1>4 DEF TriageInv, JudgedRow, RuleStays, Approve, Reject, Recategorize
<1> QED BY <1>1, <1>2, <1>3, <1>4 DEF TriageNext

LEMMA ScoresAgree == ASSUME TriageInv PROVE ShownScoreAgrees
<1> SUFFICES ASSUME row # NotYet PROVE ShownScoreAgrees
  BY DEF ShownScoreAgrees
<1>1. PICK a \in AnswerSet : answers = a /\ row = Judged(rule, a)
  BY DEF TriageInv, JudgedRow
<1>2. /\ answers.importance \in Int /\ answers.urgency \in Int
      /\ row.importance = LevelOf(ImportanceLevels, answers.importance)
      /\ row.urgency = LevelOf(UrgencyLevels, answers.urgency)
  <2>1. a.importance \in Scores /\ a.urgency \in Scores
    BY DEF AnswerSet
  <2>2. /\ row.importance = LevelOf(ImportanceLevels, a.importance)
        /\ row.urgency = LevelOf(UrgencyLevels, a.urgency)
    BY <1>1 DEF Judged
  <2> QED BY <1>1, <2>1, <2>2, TriageAssumption
<1> DEFINE rank(levels, l) == CHOOSE i \in DOMAIN levels : levels[i] = l
<1>3. ASSUME NEW levels, FiveLevels(levels), NEW mine \in Int, NEW s \in Scores
      PROVE  /\ Shown(s) = Shown(mine) => rank(levels, LevelOf(levels, s)) = rank(levels, LevelOf(levels, mine))
             /\ Shown(s) > Shown(mine) => rank(levels, LevelOf(levels, s)) >= rank(levels, LevelOf(levels, mine))
  <2>1. s \in Int
    BY TriageAssumption
  <2>2. rank(levels, LevelOf(levels, s)) = Place5(s)
    BY <1>3, <2>1, LevelHasPlace
  <2>3. rank(levels, LevelOf(levels, mine)) = Place5(mine)
    BY <1>3, LevelHasPlace
  <2> HIDE DEF rank
  <2> QED BY <2>1, <2>2, <2>3, PlaceIsMonotone
<1>4. FiveLevels(ImportanceLevels) /\ FiveLevels(UrgencyLevels)
  BY DEF FiveLevels
<1> DEFINE agrees(levels, l, mine) ==
               \A s \in Scores :
                   LET other == rank(levels, LevelOf(levels, s)) IN
                   /\ Shown(s) = Shown(mine) => other = rank(levels, l)
                   /\ Shown(s) > Shown(mine) => other >= rank(levels, l)
<1>5. ASSUME NEW levels, FiveLevels(levels), NEW mine \in Int PROVE agrees(levels, LevelOf(levels, mine), mine)
  <2> HIDE DEF rank
  <2> QED BY <1>3, <1>5
<1>6. ShownScoreAgrees <=> (row # NotYet => /\ agrees(ImportanceLevels, row.importance, answers.importance)
                                            /\ agrees(UrgencyLevels, row.urgency, answers.urgency))
  BY DEF ShownScoreAgrees
<1> HIDE DEF agrees
<1> QED BY <1>2, <1>4, <1>5, <1>6

LEMMA DoubtIsShown == ASSUME TriageInv PROVE NothingDoubtfulHidden
<1> SUFFICES ASSUME row # NotYet, decision = NotYet, ~InReviewQueue(row, decision)
             PROVE  /\ row.category # "unknown"
                    /\ answers.certainty >= 750
                    /\ answers.sensitive < 500
                    /\ rule.confidence = "high" /\ rule.category \in {"newsletter", "receipt"} =>
                           Compatible(rule.category, row.category)
  BY DEF NothingDoubtfulHidden
<1>1. PICK a \in AnswerSet : answers = a /\ row = Judged(rule, a)
  BY DEF TriageInv, JudgedRow
<1>2. a.certainty \in Int /\ a.sensitive \in Int
  BY TriageAssumption DEF AnswerSet
<1>3. row.category = a.category /\ row.confidence = Band(a.certainty) /\ row.needsReview = NeedsReview(rule, a)
  BY <1>1 DEF Judged
<1>4. ~NeedsReview(rule, a) /\ Band(a.certainty) \notin {"low", "medium"}
  BY <1>3 DEF InReviewQueue
<1>5. a.certainty >= 750
  BY <1>2, <1>4 DEF Band
<1>6. a.category # "unknown" /\ a.sensitive < 500 /\ ~Disagrees(rule, a.category)
  BY <1>2, <1>4 DEF NeedsReview
<1>7. rule.confidence = "high" /\ rule.category \in {"newsletter", "receipt"} => Compatible(rule.category, a.category)
  BY <1>6, TriageAssumption DEF Disagrees
<1> QED BY <1>1, <1>3, <1>5, <1>6, <1>7

LEMMA ViewsAgree == ActionableMatchesDigest
<1> SUFFICES ASSUME Effective(row, decision) = row
             PROVE  Actionable(row) <=> DigestGroup(row) = "actionable"
  BY DEF ActionableMatchesDigest
<1> QED BY DEF Actionable, DigestGroup

\* For any scores a model answers, any certainties and any rules that match:
\* the stored level agrees with the score the reason shows, what is doubtful is
\* in the review queue until it is decided on, and the Actionable view shows
\* what the digest does.
THEOREM TriageShowsWhatWasJudged == TriageSpec => []ShownAsJudged
<1>1. TriageInit => TriageInv
  BY DEF TriageInit, TriageInv, JudgedRow, RuleStays
<1>2. TriageInv /\ [TriageNext]_triageVars => TriageInv'
  BY TriageInductive
<1>3. TriageInv => ShownAsJudged
  BY ScoresAgree, DoubtIsShown, ViewsAgree DEF ShownAsJudged
<1> QED BY <1>1, <1>2, <1>3, PTL DEF TriageSpec
=============================================================================
