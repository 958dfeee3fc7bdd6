CONSTANTS
    Ids = {p1, p2, p3}
    MaxProviders = 3
SYMMETRY Symmetry
SPECIFICATION LaneSpec
INVARIANTS LaneFollowsPlan BrokerAgreesWithRouter
