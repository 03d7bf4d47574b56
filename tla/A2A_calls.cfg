\* Channels with room for one message, two callers of one client, a peer and an offer.
SPECIFICATION Spec
CONSTANTS
    c1 = c1  c2 = c2  a1 = a1  k1 = k1  k2 = k2  s1 = s1  n1 = n1
    Nobody = Nobody
    Callers <- TwoCallers
    Agents <- OneAgent
    Capabilities <- TwoCapabilities
    Announced <- OneOrBoth
    Subscribers <- OneSubscriber
    Offers <- OneOffer
    EventBuffer = 1
    ChannelSize = 1
    MaxHandlers = 2
    MaxCalls = 3
CHECK_DEADLOCK FALSE
INVARIANTS
    FoundByCapabilities
    AnswersStand
PROPERTIES
    CallsReturn
