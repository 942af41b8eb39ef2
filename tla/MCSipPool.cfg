SPECIFICATION SipSpec
CONSTANTS
    g1 = g1
    g2 = g2
    h1 = h1
    a1 = a1
    a2 = a2
    Gateways = {g1, g2}
    Hosts = {h1}
    HostOf <- MCHosts
    Contacts = {a1, a2}
    UserOf <- MCUsers
    NoGateway = NoGateway
    NoContact = NoContact
    Callers = {k1, k2}
    Slots <- DayAndNight
    Types <- LargeAndSmall
    MaxCrashes = 1
    MaxMishaps = 1
INVARIANTS SipTypeOK OneCallPerGateway
PROPERTIES ShrinkSparesCalls BlindSparesPool MarkedGo
