SPECIFICATION Spec
CONSTANTS
    p = p
    q = q
    r = r
    g = g
    h = h
    s1 = s1
    s2 = s2
    slug = slug
    None = None
    Clients = {p, q, r}
    Identities = {g, h}
    States = {s1, s2, s3}
    Slugs = {slug, other}
    Second = 2
    WindowSeconds = 3
    StateTTL = 3
    TokenLife = 4
    Starts <- MCStarts
INVARIANT StrangersCannotTell
CHECK_DEADLOCK FALSE
