SPECIFICATION Spec
CONSTANTS
    r1 = r1
    r2 = r2
    r3 = r3
    r4 = r4
    Replies <- MCReplies
    RecipientOf <- MCRecipientOf
    LocalOnly <- MCLocalOnly
    Chunks = 2
    CanStop = TRUE
INVARIANTS
    RepliesSound
PROPERTIES
    EveryReplyEnds
CHECK_DEADLOCK FALSE
