SPECIFICATION BillingFairSpec
CONSTANTS
    t1 = t1  t2 = t2  u1 = u1
    Tasks = {t1, t2}
    Users = {u1}
    Owner <- OneOwner
    GpuCount <- OneOrTwoGpus
    Durations <- ShortTimes
    Purses = {1}
    Runs = {r1, r2}
    MaxMishaps = 1
INVARIANTS BillingTypeOK CreditsNeverNegative SumIsKept ChargedOnce
PROPERTIES EventuallyBilled
