\* Whether every listing is tried again, whatever others do to it and its row.
SPECIFICATION FairSpec
CONSTANTS
    Listing <- Listings
    Unread <- NoReading
    Entry <- Entries
    Fits <- FitsOf
    Own <- OwnOf
    Promotable <- TheThird
    Limit = 2
    None = None
    Requests <- MovesRows
    Handled <- Two
    Merged <- OneIntoOther
    MaxFaults = 1
PROPERTIES
    TriedAgain
