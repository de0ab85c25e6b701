CONSTANTS
    s1 = s1
    s2 = s2
    q = q
    p1 = p1
    NoPeer = NoPeer
    Session = {s1, s2, q}
    Pase = {q}
    Peer = {p1}
    PeerId = {1}
    MaxPerSession = 1
    MaxChannels = 1
    MaxExchanges = 3
    MaxEnds = 1
SPECIFICATION FairSpec
INVARIANTS TableAgrees ExchangeLimit EndedHasNoExchange ChannelsAreLive
PROPERTY DelayedEnds
CHECK_DEADLOCK FALSE
