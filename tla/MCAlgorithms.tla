---------------------------- MODULE MCAlgorithms ----------------------------
EXTENDS SenderSuggestions, Triage

Ki(l) == <<<<"k", "i", l>>, <<"c">>>>
Kaa == <<<<"k", "a", "a">>, <<"c">>>>
MailKia == <<<<"m">>, <<"k", "i", "a">>, <<"c">>>>
Protected == <<<<"k", "p">>, <<"c">>>>
NewsOf(l) == <<<<"n">>, <<l>>, <<"c">>, <<"u">>>>

Count(m, n, o) == [marketing |-> m, newsletter |-> n, other |-> o]
None == Count(0, 0, 0)
Promo == Count(2, 0, 0)
Mixed == Count(0, 1, 1)
KinHistories ==
    {Ki("a") :> a @@ Ki("b") :> b @@ Ki("c") :> Promo @@ Kaa :> k @@ MailKia :> m :
     a \in {Promo, Mixed}, b \in {Promo, Mixed}, k \in {None, Promo, Mixed}, m \in {None, Promo}}
NewsHistories ==
    {NewsOf("a") :> Promo @@ NewsOf("b") :> Promo @@ NewsOf("d") :> d @@ NewsOf("e") :> e @@ Protected :> p :
     d \in {None, Promo}, e \in {None, Promo, Mixed}, p \in {None, Promo}}
\* Nothing to suggest.
Quiet == Ki("a") :> None
MCHistories == KinHistories \cup NewsHistories \cup {Quiet}

Pattern(type, local, h) == [matchType |-> type, local |-> local, host |-> h, accepts |-> {}, safe |-> TRUE]
MCUserPatterns ==
    {Pattern("domain_suffix", NoLocal, Ki("a")),
     Pattern("domain_suffix", NoLocal, <<<<"m">>>> \o Protected),
     Pattern("glob", NoLocal, Ki("?")),
     Pattern("glob", NoLocal, <<<<"k", "?", "a">>, <<"c">>>>),
     Pattern("glob", NoLocal, <<<<"k", "?">>, <<"c">>>>),
     Pattern("glob", NoLocal, <<<<"*">>, <<"c">>>>),
     [Pattern("regex", NoLocal, <<>>) EXCEPT !.accepts = {Ki("b"), Protected}]}

MCProtectedDomains == {Protected}
MCProbeSubdomains == {<<>>, <<<<"n">>>>}
MCProbeLocals == {<<"i">>}
MCPublicSuffixes == {<<<<"c">>>>, <<<<"c">>, <<"u">>>>}
MCCanaryDomains == {<<<<"a">>, <<"c">>>>}
MCMinShare == <<3, 4>>
MCNews == <<"n">>

MCMatchable == {"has_unsubscribe_link", "is_bulk_flag_set", "receipt_keywords_in_subject",
                "notification_automated_patterns", "no_reply_sender", "personal_greeting_patterns",
                "short_personal_subject"}
MCCategories == {"needs_attention", "newsletter", "marketing", "receipt", "personal", "unknown"}
MCActions == {"read_now", "no_action"}
MCScores == {1200, 2496, 2500, 4200}
MCCertainties == {499, 500, 750}

\* The two components share nothing: the run explores each of them with the
\* other at its start, for the quiet history.
MCInit == Init /\ TriageInit
MCNext ==
    \/ rule = NotYet /\ Next /\ UNCHANGED triageVars
    \/ /\ rules = {} /\ created = 0 /\ mail = Quiet
       /\ TriageNext
       /\ UNCHANGED vars
MCSpec == MCInit /\ [][MCNext]_<<vars, triageVars>>
=============================================================================
