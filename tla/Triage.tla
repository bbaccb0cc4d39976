------------------------------- MODULE Triage -------------------------------
(***************************************************************************)
(* What becomes of one email: the rule engine's verdict                    *)
(* (rules-engine.service.ts), the answers of the model turned into a       *)
(* classification row (classification.judgments.ts), the review queue and  *)
(* the decisions taken there (review-queue.service.ts), and the section of *)
(* the digest it is put in (digest.service.ts).                            *)
(*                                                                         *)
(* A rule's regular expressions are abstracted to whether it matches.      *)
(* Scores and probabilities are in thousandths, what the reason shows in   *)
(* hundredths.  The received-date window and the pages of the queue are    *)
(* left out: the email is within both.                                     *)
(***************************************************************************)
EXTENDS Integers, Sequences, SequencesExt, FiniteSets, TLC

CONSTANTS
    Matchable,      \* the rules of the engine an email may match
    Categories,     \* EmailCategorySchema
    Actions,        \* RecommendedActionSchema
    Scores,         \* importance and urgency scores the model may answer
    Certainties,    \* probabilities it may answer
    NotYet          \* what is not there yet

\* The categories a sure rule can disagree about are among those a model answers.
ASSUME TriageAssumption ==
    /\ Scores \subseteq Int /\ Certainties \subseteq Int
    /\ {"newsletter", "receipt"} \subseteq Categories

VARIABLES rule, answers, row, decision

triageVars == <<rule, answers, row, decision>>

Rule(n, c, k) == [name |-> n, category |-> c, confidence |-> k]

NewsletterRules ==
    << Rule("has_unsubscribe_link", "newsletter", "high"),
       Rule("list_id_header_indicator", "newsletter", "high"),
       Rule("bulk_sender_domain", "newsletter", "medium"),
       Rule("newsletter_keywords_in_subject", "newsletter", "medium"),
       Rule("is_newsletter_flag_set", "newsletter", "high"),
       Rule("is_bulk_flag_set", "newsletter", "medium") >>

ReceiptRules ==
    << Rule("receipt_keywords_in_subject", "receipt", "high"),
       Rule("receipt_keywords_in_body", "receipt", "high"),
       Rule("receipt_sender_domain", "receipt", "medium"),
       Rule("subscription_receipt_keywords", "receipt", "medium") >>

AlertRules ==
    << Rule("security_alert_keywords", "alert", "high"),
       Rule("system_alert_keywords", "alert", "high"),
       Rule("notification_automated_patterns", "alert", "medium"),
       Rule("alert_sender_patterns", "alert", "medium"),
       Rule("no_reply_sender", "alert", "low") >>

LikelyHumanRules ==
    << Rule("personal_greeting_patterns", "likely_human", "medium"),
       Rule("conversational_punctuation", "likely_human", "low"),
       Rule("short_personal_subject", "likely_human", "low"),
       Rule("question_mark_in_subject", "likely_human", "low"),
       Rule("personal_signature_detected", "likely_human", "medium") >>

\* The rules, in the order they are tried.
EngineRules == NewsletterRules \o ReceiptRules \o AlertRules \o LikelyHumanRules

Weight == [high |-> 3, medium |-> 2, low |-> 1]
Strongest(ks) == CHOOSE k \in ks : \A j \in ks : Weight[j] <= Weight[k]

Score(matched, c) ==
    FoldLeft(LAMBDA n, r : IF r.category = c THEN n + Weight[r.confidence] ELSE n, 0, matched)

\* A later category of the same score takes over.
BestLastWins(matched) ==
    FoldLeft(LAMBDA b, r : IF Score(matched, r.category) >= Score(matched, b) THEN r.category ELSE b,
             "unknown", matched)

\* selectBestCategory: the categories in the order their first rule matched,
\* the best replaced only by a higher score.
Best(matched) ==
    FoldLeft(LAMBDA b, r : IF Score(matched, r.category) > Score(matched, b) THEN r.category ELSE b,
             "unknown", matched)

\* classify of the rule engine.
Verdict(names) ==
    LET matched == SelectSeq(EngineRules, LAMBDA r : r.name \in names)
        best == Best(matched)
    IN  [category |-> best,
         confidence |-> IF matched = <<>> THEN "low"
                        ELSE Strongest({matched[i].confidence : i \in {i \in DOMAIN matched : matched[i].category = best}})]

-----------------------------------------------------------------------------

ImportanceLevels == <<"none", "low", "medium", "high", "critical">>
UrgencyLevels == <<"none", "eventually", "this_week", "today", "immediate">>

\* Math.round: halves go up.
Rounded(n, unit) == (2 * n + unit) \div (2 * unit)
Shown(score) == Rounded(score, 10)
Clamped(n, levels) == IF n < 0 THEN 0 ELSE IF n >= Len(levels) THEN Len(levels) - 1 ELSE n

\* The level is taken from the exact score.
LevelOfExact(levels, score) == levels[Clamped(Rounded(score, 1000), levels) + 1]

\* levelFor: the level of the score as it is shown.
LevelOf(levels, score) == levels[Clamped(Rounded(Shown(score), 100), levels) + 1]

Band(p) == IF p >= 750 THEN "high" ELSE IF p >= 500 THEN "medium" ELSE "low"

CompatiblePairs == {{"newsletter", "marketing"}, {"newsletter", "notification"}, {"newsletter", "social"}}
Compatible(c, d) == c = d \/ {c, d} \in CompatiblePairs

\* A rule category outside EmailCategorySchema (alert, likely_human) never
\* disagrees.
Disagrees(verdict, c) ==
    /\ verdict.confidence = "high"
    /\ verdict.category \in Categories
    /\ ~Compatible(verdict.category, c)

\* The rules are not asked.
NeedsReviewByAnswers(verdict, a) ==
    a.category = "unknown" \/ Band(a.certainty) = "low" \/ a.sensitive >= 500

NeedsReview(verdict, a) ==
    \/ a.category = "unknown"
    \/ Band(a.certainty) = "low"
    \/ a.sensitive >= 500
    \/ Disagrees(verdict, a.category)

\* mapJudgmentsToOutput.
Judged(verdict, a) ==
    [category |-> a.category,
     importance |-> LevelOf(ImportanceLevels, a.importance),
     urgency |-> LevelOf(UrgencyLevels, a.urgency),
     action |-> a.action,
     confidence |-> Band(a.certainty),
     needsReview |-> NeedsReview(verdict, a)]

-----------------------------------------------------------------------------

\* The review queue, at its default threshold: what was flagged, and what
\* the classifier was not highly confident of.
InReviewQueue(r, d) == d = NotYet /\ (r.needsReview \/ r.confidence \in {"low", "medium"})

\* The urgency only counts at its top.
ActionableUrgent(r) ==
    \/ r.category = "needs_attention"
    \/ r.category = "personal" /\ r.importance \in {"high", "critical"}
    \/ r.action \in {"reply_needed", "read_now"}
    \/ r.urgency = "immediate" /\ r.importance = "high"

\* ACTIONABLE_WHERE, on the stored row.
Actionable(r) ==
    \/ r.category = "needs_attention"
    \/ r.category = "personal" /\ r.importance \in {"high", "critical"}
    \/ r.action \in {"reply_needed", "read_now"}
    \/ r.urgency \in {"immediate", "today"} /\ r.importance = "high"

\* The digest shows the category a reviewer corrected it to.
Effective(r, d) ==
    IF d # NotYet /\ d.corrected # "none" THEN [r EXCEPT !.category = d.corrected] ELSE r

\* determineActionabilityGroup.
DigestGroup(r) ==
    CASE \/ r.category = "needs_attention"
         \/ r.category = "personal" /\ r.importance \in {"high", "critical"}
         \/ r.action \in {"reply_needed", "read_now"}
         \/ r.urgency \in {"immediate", "today"} /\ r.importance = "high" -> "actionable"
      [] OTHER ->
            IF \/ r.category \in {"archive", "delete", "marketing", "social", "unknown"}
               \/ r.importance = "low" /\ r.action \in {"no_action", "mark_read", "delete"}
            THEN "lowValue" ELSE "fyi"

-----------------------------------------------------------------------------

TriageInit ==
    /\ rule = NotYet
    /\ answers = NotYet
    /\ row = NotYet
    /\ decision = NotYet

Normalise(names) ==
    /\ rule = NotYet
    /\ rule' = Verdict(names)
    /\ UNCHANGED <<answers, row, decision>>

Judge(a) ==
    /\ rule # NotYet /\ row = NotYet
    /\ answers' = a
    /\ row' = Judged(rule, a)
    /\ UNCHANGED <<rule, decision>>

\* A decision takes the place of the one before.
Approve ==
    /\ row # NotYet
    /\ decision' = [decision |-> "approved", corrected |-> "none"]
    /\ UNCHANGED <<rule, answers, row>>

Reject(c) ==
    /\ row # NotYet
    /\ decision' = [decision |-> "rejected", corrected |-> c]
    /\ UNCHANGED <<rule, answers, row>>

Recategorize(c) ==
    /\ c # "none"
    /\ Reject(c)

AnswerSet ==
    [category : Categories, action : Actions, importance : Scores, urgency : Scores,
     certainty : Certainties, sensitive : Certainties]

TriageNext ==
    \/ \E names \in SUBSET Matchable : Normalise(names)
    \/ \E a \in AnswerSet : Judge(a)
    \/ Approve
    \/ \E c \in Categories \cup {"none"} : Reject(c) \/ Recategorize(c)

TriageSpec == TriageInit /\ [][TriageNext]_triageVars

-----------------------------------------------------------------------------

\* The verdict is a category of the highest score, of those the one whose
\* rules come first, and it is as confident as its own strongest rule.
BestRulesWin ==
    [][rule' # rule => \A names \in SUBSET Matchable :
        Normalise(names) /\ names # {} =>
            LET matched == SelectSeq(EngineRules, LAMBDA r : r.name \in names)
                score(c) == Score(matched, c)
                first(c) == CHOOSE i \in DOMAIN matched :
                                matched[i].category = c /\ \A j \in 1..(i - 1) : matched[j].category # c
                won == rule'.category
            IN  \A i \in DOMAIN matched :
                    LET c == matched[i].category IN
                    /\ score(c) < score(won) \/ (score(c) = score(won) /\ first(won) <= first(c))
                    /\ c = won => Weight[matched[i].confidence] <= Weight[rule'.confidence]]_triageVars

\* The score the reason shows never disagrees with the level stored: a score
\* shown alike has the same level, one shown higher no lower level.
ShownScoreAgrees ==
    row # NotYet =>
        LET rank(levels, l) == CHOOSE i \in DOMAIN levels : levels[i] = l
            agrees(levels, l, mine) ==
                \A s \in Scores :
                    LET other == rank(levels, LevelOf(levels, s)) IN
                    /\ Shown(s) = Shown(mine) => other = rank(levels, l)
                    /\ Shown(s) > Shown(mine) => other >= rank(levels, l)
        IN  /\ agrees(ImportanceLevels, row.importance, answers.importance)
            /\ agrees(UrgencyLevels, row.urgency, answers.urgency)

\* A classification nobody decided on and the review queue does not show is
\* known, sure, not sensitive, and not against a sure rule.
NothingDoubtfulHidden ==
    row # NotYet /\ decision = NotYet /\ ~InReviewQueue(row, decision) =>
        /\ row.category # "unknown"
        /\ answers.certainty >= 750
        /\ answers.sensitive < 500
        /\ rule.confidence = "high" /\ rule.category \in {"newsletter", "receipt"} =>
               Compatible(rule.category, row.category)

\* The Actionable view shows what the digest's Actionable section shows,
\* for as long as no reviewer corrected the category: the view reads the
\* stored category only.
ActionableMatchesDigest ==
    row # NotYet /\ Effective(row, decision) = row =>
        (Actionable(row) <=> DigestGroup(Effective(row, decision)) = "actionable")

\* What a reviewer is shown is what was judged: the level, what is doubtful,
\* and what the digest calls actionable.
ShownAsJudged == ShownScoreAgrees /\ NothingDoubtfulHidden /\ ActionableMatchesDigest
=============================================================================
