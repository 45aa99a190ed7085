\* As many listings without a reading as a pass takes, and one that a pass could place.
SPECIFICATION FairSpec
CONSTANTS
    Listing <- Listings
    Unread <- TwoNoReading
    Entry <- Entries
    Fits <- FitsOf
    Own <- OwnOf
    Promotable <- TheThird
    Limit = 2
    None = None
    Requests = {}
    Handled = {}
    Merged <- NoneMerged
    MaxFaults = 0
PROPERTIES
    TriedAgain
