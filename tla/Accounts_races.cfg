\* Two addresses, by mail and by two Google accounts that change theirs.
SPECIFICATION Spec
CONSTANTS
    e1 = e1
    e2 = e2
    g1 = g1
    g2 = g2
    Emails = {e1, e2}
    Passwords = {p1, p2}
    GoogleIds = {g1, g2}
    GoogleTokens <- MCGoogleTokens
    Requests = {r1, r2}
    VerifyTTL = 0
    ResetTTL = 0
    RefreshTTL = 1
    MaxTime = 1
    MaxTokens = 2
    None = None
SYMMETRY Symmetry
CHECK_DEADLOCK FALSE
INVARIANTS TypeOK OneAccountPerGoogle SignInsAreEarned
PROPERTIES VerifiedByProof PasswordsChangeByMail VerifiedForGood ProvenIdentities
