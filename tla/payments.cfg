CONSTANTS
    o1 = o1  o2 = o2  a1 = a1  a2 = a2  x1 = x1  x2 = x2  w1 = w1  w2 = w2
    None = None
    Orders <- TwoOrders
    Attempts = {a1, a2}
    GatewayPays = {x1, x2}
    Workers = {w1, w2}
    Total <- TotalOfTwo
    AdminStatuses = {"CANCELLED"}
    AuditCap = 2
SPECIFICATION Spec
SYMMETRY Symmetry
INVARIANTS SettlementInv PaidIsBacked AckedIsSettled OneActiveAttempt
PROPERTIES SettlesAsPromised NoRepeatedSettlement PaymentOnlyConfirms
