SPECIFICATION ESpec
CONSTANTS
    t1 = t1  t2 = t2  k1 = k1  k2 = k2
    Tills = {t1, t2}
    Tokens = {k1, k2}
    Setting <- Settings
    Minutes = {1}
    Attempts = {1, 2, 3}
    MaxNow = 1
    MaxFaults = 2
SYMMETRY Either
INVARIANT OneDevicePerToken
CHECK_DEADLOCK FALSE
