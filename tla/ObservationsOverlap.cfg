\* A re-read that decided before a newer page was taken in, and wrote after.
SPECIFICATION Spec
CONSTANTS
    Channel <- OneChannel
    Price = {low}
    None = None
    Passes <- PagesOnly
    Reader = {r}
    MaxChanges = 1
    MaxNow = 4
INVARIANT NameIsNewestPage
