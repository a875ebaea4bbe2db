SPECIFICATION Spec
CONSTANTS
    Null = Null
    Handlers = {h1, h2, h3}
    Admins = {a1, a2}
    Passwords = {p1, p2}
    Patches <- MCPatches
SYMMETRY Symmetry
INVARIANTS
    ChangeLeavesOneSession
PROPERTIES
    UpdateKeepsTheRest
    KeepsMembership
