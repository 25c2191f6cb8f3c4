SPECIFICATION MCSpec
CONSTANTS
    admin = admin
    user = user
    adminMail = adminMail
    userMail = userMail
    newMail = m3
    code1 = code1
    Names = {admin, user, n3}
    Emails = {adminMail, userMail, m3}
    ClientCodes = {code1, code2}
    RecoveryCodes = 1
    MaxRequests = 10
    MaxExpired = 1
CHECK_DEADLOCK FALSE
INVARIANTS
    SavesChangeOnlyTheirOwn
    ResetConfirmedOnce
    ChallengeAdmitsOnce
    FinishedCutLeavesNoOldSession
    ClientCodesIdentify
    OneBootstrap
    DeletedClientHasNoUsers
