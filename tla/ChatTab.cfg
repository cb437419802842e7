SPECIFICATION FairSpec
CONSTANTS
    c1 = c1
    c2 = c2
    r1 = r1
    r1again = r1again
    r2 = r2
    r2again = r2again
    Tabs = {t1, t2}
    Chats = {c1, c2}
    Replies = {r1, r1again, r2, r2again}
    ChatOf <- MCChatOf
    MaxBreaks = 1
    MaxDrops = 1
CHECK_DEADLOCK FALSE
INVARIANTS
    TypeOK
    MisplacedOnlyIfOverlapping
    ShownOnceWhereAsked
PROPERTIES
    RepliesKept
    AnsweredIsShown
