SPECIFICATION FairSpec
CONSTANTS
    Client = {voice}
    Voice = voice
    Self = Self
    None = None
    Asks <- MCAsks
    QueueLen = 2
    ReplyLen = 2
    DetectSends <- MCDetectSends
    MaxAsk = 1
    MaxOwn = 1
    MaxMove = 1
    MaxLate = 1
CHECK_DEADLOCK FALSE
INVARIANTS
    ChannelSound
    HandedToAsker
    Fresh
    NoneForgotten
PROPERTIES
    Served
