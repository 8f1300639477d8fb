SPECIFICATION Spec
CONSTANTS
    e1 = e1
    e2 = e2
    e3 = e3
    srv = srv
    tls = tls
    none = none
    Endpoints = {e1, e2, e3, srv}
    Protos = {"tcp", "udp"}
    Slots = 2
    Window = 2
    Home <- MCHome
    Rules <- MCRules
    NameRules <- MCNameRules
    AddressRule <- MCAddressRule
    Protocols = {tls}
    NoRule = none
    Traffic <- MCTraffic
    PACKET_BUDGET = 2
    PacketModulus = 4
    MaxPackets = 5
INVARIANT MatchersBounded
CHECK_DEADLOCK FALSE
