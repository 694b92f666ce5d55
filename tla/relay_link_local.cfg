SPECIFICATION Spec
CHECK_DEADLOCK FALSE
CONSTANTS
    N = 3
    Deployments <- EchoOnly
    Addresses <- MCAddresses
    Clients <- Neighbours
    Requests <- MCRequests
    Answers <- MCAnswers
    Nearby <- MCNearby
    NumberTexts <- MCNumberTexts
    PathTexts <- MCPathTexts
    URLTexts <- MCURLTexts
    ProxyTexts <- MCProxyTexts
    RegexTexts <- MCRegexTexts
INVARIANT NearbyTrusted
