SPECIFICATION Spec
CONSTANTS
    Workers = {w1, w2}
    Cap = 4
    None = None
SYMMETRY Symmetry
INVARIANTS
    OneDefaultOnceSettled
    DefaultKeptOnceSettled
