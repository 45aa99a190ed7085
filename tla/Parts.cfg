\* The catalogue, the category tree, a channel's walk, the snapshots on disk,
\* the fetcher, the judge's store, the families and the makers, one at a time.
SPECIFICATION PartsSpec
CONSTANTS
    o1 = o1  o2 = o2  m1 = m1  m2 = m2  a1 = a1  a2 = a2  v1 = v1  v2 = v2
    p1 = p1  p2 = p2  p3 = p3  p4 = p4  k1 = k1  k2 = k2  k3 = k3
    f1 = f1  f2 = f2  q1 = q1  q2 = q2  h1 = h1  h2 = h2  h3 = h3
    b1 = b1  b2 = b2  b3 = b3  t1 = t1  t2 = t2
    e1 = e1  e2 = e2  r1 = r1  r2 = r2  j1 = j1  j2 = j2  s1 = s1  s2 = s2
    \* Catalogue
    Offer = {o1, o2}
    Model = {m1, m2}
    Axis = {a1, a2}
    Value = {v1, v2}
    Shown = {v1}
    Gtin = {g1}
    AtFirst <- Mixed
    Unknown = Unknown
    Bearing = {a1, a2}
    MayBear = {a1}
    Strict = FALSE
    Limit = 2
    MaxEntries = 3
    MaxChanged = 1
    \* Categories
    Category = {c1, c2, c3}
    Seeded = {c1, c2}
    Root = Root
    Absent = Absent
    Keep = Keep
    Editor = {e1, e2}
    MaxEdits = 3
    \* Walk
    Product = {p1, p2, p3, p4}
    LeftOut = {p4}
    Shops <- Categories34
    Sizes = {1, 2}
    MaxPages = 3
    MaxMoves = 2
    \* Snapshots
    Card = {k1, k2, k3}
    File = {f1, f2}
    NameOf <- TwoShare
    MaxServed = 3
    \* Fetching
    Fetch = {r1, r2, r3}
    Addresses = 3
    Room = 2
    Retries = 2
    Troubles = 2
    \* Verdicts
    Question = {q1, q2}
    Listings = 3
    Asks <- TwoAsk
    Verdict = {yes, no}
    Failed = Failed
    NoRow = NoRow
    Judging = {j1, j2}
    Budget = 2
    MaxPaid = 2
    MaxForgotten = 1
    \* Families
    Family = {h1, h2, h3}
    Variant = {1, 2}
    Name <- Spellings
    Lower <- LowerOf
    TheTrail = {h1}
    Unmade = Unmade
    Deleted = Deleted
    Orphan = Orphan
    Session = {s1, s2}
    ListLimit = 2
    MaxActs = 4
    \* Makers
    Maker = {b1, b2, b3}
    Stock = {1, 2, 3}
    Field <- Fields
    Heading <- Titles
    Designation <- Models
    Shelf <- Shelves
    Alias0 <- BothDelta
    AliasNew <- OneLessOrMore
    Entry0 <- FirstMakes
    EntryNew <- BothMake
    Thorough = {1, 2}
    Picks = {b2}
    Cut = 1
    MaxTurns = 1
SYMMETRY Alike
INVARIANTS
    PartsTypeOK
    KeyIsRight
    LoopTakesTwo
    StaleNeedsOverlap
    StandingShopIsSeen
    BrokenAreTheFailures
    ServedWhileAWayIsUp
    PassMovesForward
    PaidTwiceNeedsOverlap
    FamiliesFollow
PROPERTIES
    BarcodesStay
    NotMadeInVain
    RebuildKeepsApart
    NeverToAnOlderPage
    FoundAtItsEntry
    KeepsTheBook
\* Walks end, bounds are reached and edits caught in a loop stay there.
CHECK_DEADLOCK FALSE
