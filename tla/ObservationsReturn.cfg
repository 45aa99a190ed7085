\* A price that was served before is served again.
SPECIFICATION Spec
CONSTANTS
    Channel <- OneChannel
    Price = {low, high}
    None = None
    Passes <- CardsOnly
    Reader = {}
    MaxChanges = 0
    MaxNow = 4
PROPERTY SeriesFollowsTheShop
