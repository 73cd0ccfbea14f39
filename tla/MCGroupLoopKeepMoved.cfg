SPECIFICATION KeepingSpec
CONSTANTS
    Keys = {k1, k2, k3}
    MaxLen = 5
    It = it
    Last = last
    Its = {it, last}
    Pair = pair1
    Local = local
    Grps = {pair1, local}
    Cur = cur
    Curs = {cur}
    KeyAliases = FALSE
    Habits = {}
CHECK_DEADLOCK FALSE
PROPERTY Terminates
