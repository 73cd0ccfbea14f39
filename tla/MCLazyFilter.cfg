SPECIFICATION Spec
CONSTANTS
    Tools = {"filter", "filterfalse", "unique_everseen", "dropwhile", "takewhile"}
    Elems = {a, b, c}
    MaxLen = 4
    Its = {i1, i2}
    Habits = {}
SYMMETRY Symmetric
INVARIANTS TypeOK StandsOnYielded ReadsOnce
PROPERTIES ImplementsInputIterator PostIncrementYieldsCurrent
