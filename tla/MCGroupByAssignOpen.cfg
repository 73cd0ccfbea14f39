SPECIFICATION Spec
CONSTANTS
    Keys = {k1, k2}
    MaxLen = 3
    Its = {i1, i2}
    Grps = {g1, g2, g3}
    Curs = {c1, c2}
    KeyAliases = FALSE
    Habits = {"assign_open"}
SYMMETRY Symmetric
PROPERTY AssignTakesPosition
