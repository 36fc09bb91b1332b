SPECIFICATION Spec
CONSTANTS
    Orders = {o1}
    Drivers = {d1, d2}
    Workers = {w1, w2}
    AdminStatuses = {"CANCELLED"}
    None = None
SYMMETRY Symmetry
INVARIANTS
    DeliveredWasCarried
    OrderMatchesDelivery
PROPERTIES
    MovesFollowMachine
