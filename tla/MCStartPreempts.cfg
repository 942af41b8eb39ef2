SPECIFICATION Spec
CONSTANTS
    g1 = g1
    g2 = g2
    g3 = g3
    h1 = h1
    n1 = n1
    n2 = n2
    Gateways = {g2}
    Firsts = {g2}
    Numbers = {n1, n2}
    NumberOf <- MCNumber
    Hosts = {h1}
    HostOf <- MCHost
    OnDemand = {}
    Rooms = {r1, r2}
    NoRoom = NoRoom
    NoFile = NoFile
    NoGateway = NoGateway
    Requests = {q1, q2}
    Monitor = Monitor
    MaxFaults = 0
PROPERTIES NoPreemption
