\* A refresh that overtakes a logout.
SPECIFICATION Spec
CONSTANTS
    e1 = e1
    e2 = e2
    g1 = g1
    g2 = g2
    Emails = {e1}
    Passwords = {p1}
    GoogleIds = {}
    GoogleTokens <- NoGoogleTokens
    Requests = {r1, r2}
    VerifyTTL = 1
    ResetTTL = 1
    RefreshTTL = 2
    MaxTime = 1
    MaxTokens = 1
    None = None
CHECK_DEADLOCK FALSE
PROPERTY EndedSessionsStayEnded
