\* Two peers, a file of one block and one of two.
SPECIFICATION FairSpec
CONSTANTS
    short = short
    long = long
    Conns = {c1, c2}
    Files = {short, long}
    FileLen <- OneAndTwo
    NoConn = none
    MaxSend = 3
INVARIANTS TypeOK UploadBelongsToClient
PROPERTIES VerdictOnWholeFile CompleteIsJudged EveryoneIsAccepted
\* the process may have crashed, or every peer may have nothing left to say
CHECK_DEADLOCK FALSE
