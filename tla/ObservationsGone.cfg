\* A listing the shop took down is parsed again from its kept page.
SPECIFICATION Spec
CONSTANTS
    Channel <- OneChannel
    Price = {low, high}
    None = None
    Passes <- PagesOnly
    Reader = {}
    MaxChanges = 0
    MaxNow = 4
PROPERTY ListedIsSeen
