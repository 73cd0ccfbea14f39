SPECIFICATION Spec
CONSTANTS
    MaxLen = 5
    MaxSize = 4
    Its = {i1, i2, i3}
    Bufs = {b1, b2, b3}
SYMMETRY Symmetric
INVARIANTS TypeOK StaysInside EqualIffSamePlace
PROPERTY ImplementsInputIterator
