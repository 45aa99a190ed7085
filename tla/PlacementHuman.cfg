\* A person places, somebody runs the ladder on the same listing, and a run is settled.
SPECIFICATION Spec
CONSTANTS
    Listing <- Listings
    Unread <- NoReading
    Entry <- OneMore
    Fits <- FitsOf
    Own <- OwnOf
    Promotable <- TheThird
    Limit = 2
    None = None
    Requests <- OverAgain
    Handled <- TheThird
    Merged <- NoneMerged
    MaxFaults = 0
PROPERTIES
    HumanSurvives
