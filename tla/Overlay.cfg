\* Two channels, a ring of three rounds of both clocks, one end of the server.
SPECIFICATION Spec
CONSTANTS
    LastChannel = 1
    RingPieces = 24
    ReadPieces = 8
    MaxNet = 8
    MaxCommands = 2
    MaxStops = 1
PROPERTIES QueueSpec ClockIsDrawn
CHECK_DEADLOCK FALSE
