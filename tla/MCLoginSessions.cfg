\* Three requests of any kind on one account.
SPECIFICATION Spec
CONSTANTS
    Requests = {r1, r2, r3}
    Earlier = Earlier
    MaxTime = 1
    MAX_FAILED_LOGINS = 2
    MAX_OTP_ATTEMPTS = 2
    MAX_RESENDS = 1
    LOCKOUT = 1
    OTP_TTL = 2
    RESEND_COOLDOWN = 1
    RESET_TTL = 1
    ABSOLUTE_LIFETIME = 2
    IDLE_TIMEOUT = 1
    LAST_SEEN_REFRESH = 1
SYMMETRY RequestSymmetry
CHECK_DEADLOCK FALSE
INVARIANTS
    ConsumedIsFinal
    LiveCodesOverlap
    SerialFailuresExact
PROPERTIES
    ResetRevokesEverySession
    DeadStaysDead
