CONSTANTS
    Orders <- MCOrders
    Drivers <- MCDrivers
    Workers <- MCWorkers
    MaxAge = 1
    MaxAhead = 0
    StaleAfter = 1
    Horizon = 2
    Ages = {1, 2}
    None = None
    o1 = o1
    d1 = d1
    d2 = d2
    w1 = w1
    w2 = w2
SPECIFICATION Spec
SYMMETRY Symmetry
INVARIANTS LiveIsRecent EstimateOfItsDriver
