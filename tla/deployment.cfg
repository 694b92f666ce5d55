SPECIFICATION FairSpec
CHECK_DEADLOCK FALSE
CONSTANTS
    N = 3
    Deployments <- MCDeployments
    Addresses <- MCAddresses
    Clients <- Foreigners
    Requests <- MCRequests
    Answers <- MCAnswers
    Nearby <- MCNearby
    NumberTexts <- MCNumberTexts
    PathTexts <- MCPathTexts
    URLTexts <- MCURLTexts
    ProxyTexts <- MCProxyTexts
    RegexTexts <- MCRegexTexts
INVARIANTS
    UsableWhenServing ShadowedIgnored ReservedStaysLocal NotSpoofed ChainPreserved
    OriginKept HopByHopStays EncodingKept
PROPERTY RequestAnswered
