\* A main stream whose pool the writer laps after one to five frames, a key
\* frame request, and a session whose buffer no frame of the whole pool fits.
CONSTANTS
    Readers = {r1}
    PoolCount = 4
    MainCount = 5
    BufUnits = 3
    MaxTick = 4
SPECIFICATION FairSpec
INVARIANTS TypeOK StartMeansWhole KeyRequestGetsNewestKey NextFrameAtPos
PROPERTIES FeedSpec ServedOrLapped
