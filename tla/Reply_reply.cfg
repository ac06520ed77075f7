SPECIFICATION FairReplySpec
CONSTANTS
    a = a
    bb = bb
    pic = pic
    page = page
    clip = clip
    Nothing = Nothing
    TimeoutSettings = {0, 6}
    RetrySettings <- MCRetrySettings
    BaseSettings = {0, 48}
    DefaultBase = 2
    MaxBackoff = 4
    Grain = 1
    Width = 7
    MaxAttachment = 3
    MaxAttachmentsTotal = 4
    MaxDownload = 7
    TimeFactor = 3
    Sizes = {1, 3}
    MaxItems = 3
    Late = 1
    Words <- MCWords
    Runes <- MCRunes
    MediaURLs <- MCMediaURLs
    URLOf <- MCURLOf
    Within <- MCWithin
    Torn <- MCTorn
    Limits = {0, 4}
    MinSizes = {0, 3}
    Texts <- MCTexts
    NoticeEnabled = TRUE
    Notices <- MCNotices
INVARIANTS
    ReplyTypeOK
    MediaWithinBudget
    MediaTimeBounded
    OutcomeIsTrue
    CallIsBounded
    TextKept
    SegmentsFit
    FewestParts
    DeliveredIsPrefix
    AtMostOneAfterCancel
    SilenceHasAReason
PROPERTIES
    RetriesBackOff
    CancelIsSeen
    TurnFollowsLedger
    TurnEnds
CHECK_DEADLOCK FALSE
