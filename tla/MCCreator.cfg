SPECIFICATION Spec
CONSTANTS
    p = p
    q = q
    ann = ann
    bob = bob
    inv = inv
    x = x
    y = y
    Free = Free
    Nobody = Nobody
    Procs <- TwoProcs
    People <- TwoPeople
    Invites <- OneInvite
    Fields <- TwoFields
    Tiers <- TwoTiers
    MaxOf <- Few
    Ttl = 1
    MaxOps = 3
    MaxChanges = 3
SYMMETRY Alike
INVARIANTS
    Limits
    InviteOnce
    
PROPERTY
    BodyForMembers
CHECK_DEADLOCK FALSE
