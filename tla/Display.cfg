\* The supervisor, two receivers, the overlay thread, the key thread and two
\* workers on a media system whose vendor calls fail at the places after which
\* nothing is left that the records do not tell of.  CHECK_DEADLOCK FALSE: the
\* client ends, or waits for an overlay thread that gets no more messages.
SPECIFICATION FairSpec
CONSTANTS
    StreamNum = 2
    MaxChannels = 2
    Cameras = {1}
    Keys = {0, 2}
    MayFail = {"CreateGrp", "StartVo", "StartSd", "BindSd", "CreateVenc", "Thread",
               "UnbindVenc", "StopVenc", "CreateRgn", "ShowBind"}
    ForcedClose = FALSE
INVARIANTS TypeOK HandlesTellHardware NothingOnADeadPipe WorkerFetchesFromEncoder
INVARIANTS HandlesLive ScreenIsAsAsked
PROPERTIES LockComesFree
CHECK_DEADLOCK FALSE
