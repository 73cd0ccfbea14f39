SPECIFICATION Spec
CONSTANTS
    MaxLen = 4
    MaxSize = 2
    Its = {i1, i2}
    Bufs = {b1, b2}
SYMMETRY Symmetric
PROPERTY PostIncrementYieldsCurrent
