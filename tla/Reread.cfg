\* Two keys, one of which fails each time it is read.
SPECIFICATION FairSpec
CONSTANTS
    Key <- TwoKeys
    Listing <- ThreeListings
    KeyOf <- TwoAndOne
    Broken <- OneBroken
    Batch = 1
    None = None
    MaxLoaded = 1
    MaxEdits = 2
    MaxFaults = 1
INVARIANTS
    ReadSinceChanged
    CursorIsBehind
PROPERTIES
    RequestsEnd
