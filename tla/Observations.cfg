\* A channel that opens pages and one that reads cards, and a re-read.  At one
\* price a listing has a card and a page as each version of the parser reads it.
SPECIFICATION Spec
CONSTANTS
    Channel <- TwoChannels
    Price = {low}
    None = None
    Passes <- PagesAndCards
    Reader = {r}
    MaxChanges = 1
    MaxNow = 5
INVARIANTS
    NamedUnlessCrossed
    SeenIsListed
PROPERTIES
    RereadReachesTheName
