CONSTANTS
    Conns = {c1, c2, c3}
    None = None
SPECIFICATION FairSpec
INVARIANTS
    TypeOK
    TunnelSound
PROPERTIES
    FollowsLife
    ReconnectSettles
    EventuallyConnected
