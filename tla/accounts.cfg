SPECIFICATION Spec
CONSTANTS
    g1 = g1  g2 = g2  e1 = e1  e2 = e2
    Users = {u1, u2}
    Phones = {p1}
    Emails = {e1, e2}
    GoogleIds = {g1, g2}
    AppleIds = {a1}
    EmailOf <- EmailOfTwo
    Workers = {w1, w2}
    SessionCap = 1
    None = None
SYMMETRY Symmetry
INVARIANTS
    WayInKept
    NoSilentGoogleLink
PROPERTY
    LinksAreNotTaken
CHECK_DEADLOCK FALSE
