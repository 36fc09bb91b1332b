SPECIFICATION Spec
CONSTANTS
    s1 = s1  s2 = s2  k1 = k1  k2 = k2  k3 = k3  b1 = b1  b2 = b2
    c1 = c1  c2 = c2  w1 = w1  w2 = w2
    None = None
    Secrets = {s1, s2}
    Codes = {k1, k2, k3}
    Batches = {b1, b2}
    Batch <- BatchOf
    Challenges = {c1, c2}
    Workers = {w1, w2}
SYMMETRY Symmetry
INVARIANTS
    TwoFactorInv
    ChallengeOpensOneSession
    RecoveryCodeOpensOneSession
    OneBatchSerially
    EnabledIsConfirmedSerially
    OneChallengeSerially
