CONSTANTS
    u1 = u1
    u2 = u2
    c1 = c1
    c2 = c2
    Admins = {a1, a2}
    Units = {u1, u2}
    Callers = {c1, c2}
    NoUnit = NoUnit
    Bodies <- MCBodies
    First <- MCFirst
    Fold <- MCFold
    Claims <- MCClaims
    MaxRules = 3
SPECIFICATION Spec
INVARIANT DecidesAsShown
PROPERTY NewRuleDecides
PROPERTY OrderAsAsked
PROPERTY TwinsOnlyInRace
