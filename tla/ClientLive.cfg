CONSTANTS
    StreamNum = 1
    StreamTimeout = 2
    ForcedClose = TRUE
SPECIFICATION FairSpec
PROPERTIES SilentStreamIsRetried PictureIsShown StopIsObeyed
