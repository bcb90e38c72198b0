SPECIFICATION PortalSpec
CONSTANTS
    g1 = g1
    g2 = g2
    DefaultNet = DefaultNet
    Call = {c1, c2}
    GatewayList <- Files
    UpdateBlocks = 1
    MaxHead = 2
    MaxCalls = 2
INVARIANTS PayloadIsUsable GatewaysFollowFallback
PROPERTIES EveryCallReturns RefreshHeals
