\* Two resets with one token.
SPECIFICATION Spec
CONSTANTS
    e1 = e1
    e2 = e2
    g1 = g1
    g2 = g2
    Emails = {e1}
    Passwords = {p1, p2}
    GoogleIds = {}
    GoogleTokens <- NoGoogleTokens
    Requests = {r1, r2}
    VerifyTTL = 1
    ResetTTL = 1
    RefreshTTL = 2
    MaxTime = 0
    MaxTokens = 2
    None = None
CHECK_DEADLOCK FALSE
PROPERTY ResetTokensWorkOnce
