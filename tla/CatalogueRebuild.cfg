\* Listings of one model that say all of it.
SPECIFICATION CatSpec
CONSTANTS
    o1 = o1  o2 = o2  m1 = m1  m2 = m2  a1 = a1  a2 = a2  v1 = v1  v2 = v2  g1 = g1
    Offer = {o1, o2}
    Model = {m1, m2}
    Axis = {a1, a2}
    Value = {v1, v2}
    Shown = {v1}
    Gtin = {g1}
    AtFirst <- Full
    Unknown = Unknown
    Bearing = {a1, a2}
    MayBear = {}
    Strict = FALSE
    Limit = 3
    MaxEntries = 3
    MaxChanged = 1
PROPERTY RebuildNeverGuesses
CHECK_DEADLOCK FALSE
