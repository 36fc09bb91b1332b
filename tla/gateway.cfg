SPECIFICATION GatewaySpec
CONSTANTS
    o1 = o1  u1 = u1  d1 = d1  d2 = d2  a1 = a1
    Orders = {o1}
    Users <- Everyone
    Owner <- OneOwner
    Drivers <- TwoDrivers
    Staff = {a1}
    Kitchen = {}
    Sockets = {s1}
    Workers = {w1, w2}
    None = None
SYMMETRY Symmetry
INVARIANTS
    ScreensShowTheRow
    NewsReachParties
