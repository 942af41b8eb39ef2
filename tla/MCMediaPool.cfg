SPECIFICATION PoolSpec
CONSTANTS
    g1 = g1
    g2 = g2
    h1 = h1
    h2 = h2
    Gateways = {g1, g2}
    Firsts = {g1, g2}
    Numbers = {g1, g2}
    NumberOf <- MCNumber
    Hosts = {h1, h2}
    HostOf <- MCApart
    OnDemand = {g1}
    Rooms = {r1}
    NoRoom = NoRoom
    NoFile = NoFile
    NoGateway = NoGateway
    Requests = {}
    Monitor = Monitor
    MaxFaults = 0
    Slots <- DayAndEvening
    Types <- Small
    MaxMishaps = 1
INVARIANTS PoolTypeOK RoomOnlyWhenStarted
PROPERTIES ShrinkSparesBuffer
