SPECIFICATION MCSpec
CONSTANTS
    Histories <- MCHistories
    UserPatterns <- MCUserPatterns
    ProtectedDomains <- MCProtectedDomains
    ProbeSubdomains <- MCProbeSubdomains
    ProbeLocals <- MCProbeLocals
    PublicSuffixes <- MCPublicSuffixes
    CanaryDomains <- MCCanaryDomains
    CanaryLocals <- MCProbeLocals
    MinShare <- MCMinShare
    News <- MCNews
    GlobMinLiterals = 2
    MinEmails = 2
    PrefixMinLength = 1
    PrefixMinMembers = 3
    MaxOwn = 1
    MaxCreated = 4
    NotYet = NotYet
    Matchable <- MCMatchable
    Categories <- MCCategories
    Actions <- MCActions
    Scores <- MCScores
    Certainties <- MCCertainties
INVARIANTS ProposalsFit MatchIgnoresOrder WarnsOfProtected ShownAsJudged
PROPERTIES AcceptedIsSettled 
CHECK_DEADLOCK FALSE
