\* Two streams, a stop at any time, and a close of a link that waits for the
\* frame callback in progress.
CONSTANTS
    StreamNum = 2
    StreamTimeout = 1
    ForcedClose = FALSE
SPECIFICATION Spec
INVARIANTS TypeOK GetVdCanAdvance LampMeansEncoding NothingLeftBehind OverlayHandleLives LinkStartsClean DecoderHandleLives
