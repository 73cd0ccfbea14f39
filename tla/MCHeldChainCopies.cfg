SPECIFICATION Spec
CONSTANTS
    MaxLen = 3
    MaxSize = 2
    Its = {i1, i2, i3}
    Freed = freed
SYMMETRY Symmetric
PROPERTY CopiesLast
