SPECIFICATION BillingSpec
CONSTANTS
    t2 = t2
    t1 = t1    u1 = u1
    Tasks = {t1}
    Users = {u1}
    Owner <- OneOwner
    GpuCount <- OneOrTwoGpus
    Durations <- ShortTimes
    Purses = {4}
    Runs = {r1}
    MaxMishaps = 1
INVARIANT BilledMeansCharged
