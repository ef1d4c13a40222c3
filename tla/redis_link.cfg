SPECIFICATION FairSpec
CONSTANTS
    Discard = 6
    Replies <- MCReplies
    TooManyClients <- MCTurnedAway
    Malformed <- MCMalformed
    NULL = NULL
    CommandSize = 2
    MaxCommands = 3
CHECK_DEADLOCK FALSE
PROPERTY ImplementsLink
PROPERTY EveryCommandReturns
