SPECIFICATION ReplySpec
CONSTANTS
    a = a
    bb = bb
    pic = pic
    page = page
    clip = clip
    Nothing = Nothing
    TimeoutSettings = {6}
    RetrySettings <- MCRetrySettings
    BaseSettings = {0}
    DefaultBase = 2
    MaxBackoff = 4
    Grain = 1
    Width = 7
    MaxAttachment = 3
    MaxAttachmentsTotal = 4
    MaxDownload = 2
    TimeFactor = 3
    Sizes = {1, 3}
    MaxItems = 0
    Late = 1
    Words <- MCWords
    Runes <- MCRunes
    MediaURLs <- MCMediaURLs
    URLOf <- MCURLOf
    Within <- MCWithin
    Torn <- MCTorn
    Limits = {4}
    MinSizes = {3}
    Texts <- MCTexts
    NoticeEnabled = TRUE
    Notices <- MCNotices
INVARIANT ShortPartsMerged
CHECK_DEADLOCK FALSE
