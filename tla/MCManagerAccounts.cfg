CONSTANTS
    Users = {admin, alice}
    AdminUser = admin
    Clients = {c1, c2}
    MaxFailures = 1
    MaxEpoch = 2
    MaxRows = 2
SPECIFICATION Spec
SYMMETRY Symmetry
INVARIANT OutdatedRefused
INVARIANT AuditTells
PROPERTY LostOnlyInRace
