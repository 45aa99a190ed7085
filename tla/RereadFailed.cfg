\* A change comes while a key that cannot be read is being read.
SPECIFICATION Spec
CONSTANTS
    Key <- TwoKeys
    Listing <- ThreeListings
    KeyOf <- TwoAndOne
    Broken <- OneBroken
    Batch = 1
    None = None
    MaxLoaded = 1
    MaxEdits = 2
    MaxFaults = 0
PROPERTIES
    ChangeStartsOver
