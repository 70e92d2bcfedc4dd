\* A buffer of six bytes, headers of two and bodies of up to three: every
\* segmentation of up to four frames.  Values and tasks: see the module.
CONSTANTS
    Cap = 6
    HeaderSize = 2
    DataMax = 3
    Streams <- MCStreams
    Base = 4
    ErrorFmt = 7
    Parse <- MCParse
    Values <- MCValues
    Half = 4
    Orders <- MCOrders
SPECIFICATION WireSpec
CHECK_DEADLOCK FALSE
INVARIANTS
    ReaderSafe FmtExact TaskSurvives
PROPERTIES
    ImplementsFrameStream WholeFrameHandled
