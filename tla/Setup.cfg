\* Two windows on one device or two, with vendor calls that fail anywhere.
SPECIFICATION Spec
CONSTANTS
    MaxChannels = 2
    Screens = {"hd", "wide"}
    NoFormat = {"wide"}
    Setups <- SomeSetups
    MaxFailures = 1
    MaxMade = 2
INVARIANTS LayerAsRecorded WindowAsMode ShownIsDisplayed NothingLeftRunning
\* a leaked lock stops every call
CHECK_DEADLOCK FALSE
