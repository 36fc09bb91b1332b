SPECIFICATION Spec
CONSTANTS
    Calls = {c1, c2, c3}
    Keys = {key1}
    Coupons = {coupon1}
    Tokens = {token1}
    Limits = {0, 1}
    MaxParallel = 3
    None = None
SYMMETRY Symmetry
INVARIANTS
    OneOrderPerKey
    UsageCountsOrders
    OverdrawnByInFlight
    ConsumedHasOrder
    NoSharedCouponAndToken
    TokenUsedOnceSerially
CHECK_DEADLOCK FALSE
