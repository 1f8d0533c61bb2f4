SPECIFICATION Spec
CONSTANTS
    Leg = {l1, l2}
    Asset = {BTC}
    AssetOf <- OneAsset
    TTL = 0
    WatchdogTimeout = 1
INVARIANTS OneTickAtATime BookedLegsCovered SpotIsAsFreshAsQuote
PROPERTIES StallIsBroken MonitorIsServed SignalEndsTheBot
CHECK_DEADLOCK FALSE
