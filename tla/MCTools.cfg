SPECIFICATION Spec
CONSTANTS
    CountingWidth = 3
    SliceWidth = 4
    Sources <- MCSources
    Its = {i1, i2}
    MaxPlace = 40
SYMMETRY Symmetric
INVARIANTS TypeOK EndFoundAtPast EqualIffSamePlaceOrTurn StaysInside SizeCountsElements IndexIsNth
PROPERTY ImplementsInputIterator
