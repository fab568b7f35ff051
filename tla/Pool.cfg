SPECIFICATION FairSpec
CONSTANTS
    s1 = s1
    s2 = s2
    s3 = s3
    c1 = c1
    c2 = c2
    c3 = c3
    c4 = c4
    Scopes <- MCScopes
    Contexts <- MCContexts
    Null = Null
    Nobody = Nobody
    MayFail = TRUE
INVARIANTS TypeOK ExclusiveLease NoneLost
PROPERTIES ImplementsLeases CreatedOnlyWhenAllHeld LockReleased
