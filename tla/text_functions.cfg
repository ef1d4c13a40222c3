SPECIFICATION Spec
CONSTANTS
    LowerOf <- MCLowerOf
    EntityOf <- MCEntityOf
    TermLower <- MCTermLower
    Stopwords <- MCStopwords
    HrefOf <- MCHrefOf
    Urls <- MCUrls
    Detours <- MCDetours
    Robots <- MCRobots
    Pages <- MCPages
    Beginnings <- MCBeginnings
    maxLen = 3
    RAW_LIMIT = 5
    Segments <- MCSegments
    Keywords = {"login"}
    UselessEnds = {"f.png"}
    Limit = 4
    MaxPages = 2
    ElementsOn <- MCElementsOn
    TextOn <- MCTextOn
    Contents <- ShortContents
    QuerySets <- MCQuerySets
    ByteStrings <- ShortByteStrings
    TermTexts <- ShortTermTexts
    BaseUrls <- Bases
    ElementLists <- ShortElementLists
    TextNodes <- MCTextNodes
    Trees <- ShortTrees
    MaxDepth = 9
    MaxTokens = 4
    MaxTangled = 5
    MaxNested = 7
CHECK_DEADLOCK FALSE
INVARIANT SnippetExact
INVARIANT BytesExact
INVARIANT LinksExact
INVARIANT TextIsPrefix
INVARIANT TreeRight
INVARIANT RobotsObeyed
INVARIANT AnswerIsOfItsPage
