\* A person places a listing while the judge is being asked about it.
SPECIFICATION Spec
CONSTANTS
    Listing <- Listings
    Unread <- NoReading
    Entry <- OneMore
    Fits <- FitsOf
    Own <- OwnOf
    Promotable <- TheThird
    Limit = 2
    None = None
    Requests <- WhileAsked
    Handled <- TheThird
    Merged <- NoneMerged
    MaxFaults = 0
PROPERTIES
    HumanOutlastsJudge
