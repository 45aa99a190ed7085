\* Two listings a pass can place, one it cannot read, everybody at work.
SPECIFICATION Spec
CONSTANTS
    Listing <- Listings
    Unread <- NoReading
    Entry <- Entries
    Fits <- FitsOf
    Own <- OwnOf
    Promotable <- TheThird
    Limit = 2
    None = None
    Requests <- All
    Handled <- Two
    Merged <- OneIntoOther
    MaxFaults = 2
INVARIANTS
    TypeOK
PROPERTIES
    OneAnswer
    MovesOnlyWhatWaits
    PlacedStaysPlaced
    NeverNowhere
    FirstComeFirst
