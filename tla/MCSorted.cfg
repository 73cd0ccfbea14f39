SPECIFICATION Spec
CONSTANTS
    MaxLen = 2
    Values = {1, 2}
    Stores = {0, 1, 2}
    Views = {v1, v2}
    Vectors = {1, 2, 3, 4}
    Its = {i1}
    Throwing = FALSE
SYMMETRY Symmetric
INVARIANTS TypeOK EachElementOnce SortedAsAsked
PROPERTY IteratorsStay
