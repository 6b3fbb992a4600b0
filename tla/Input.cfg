SPECIFICATION Spec
CONSTANTS
    Slots = {0, 1}
    Keys = {30, 272}
    Enabled = {30}
    Buttons = {272}
    KeySyms = {"a", "A", "?"}
    Keymap <- MCKeymap
    Reports <- MCReports
    RawEvents <- MCRawEvents
    MaxFaults = 1
INVARIANTS
    TypeOK
    KeysAsAsked
    NothingLeftOpen
PROPERTY
    TouchRefinement
