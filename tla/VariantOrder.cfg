SPECIFICATION Spec
CONSTANTS
    Variants = {v, w}
    Pointers = {p}
    Blocks = {1, 2, 3, 4}
    Contents <- Samples
    AssignsOwnElements = FALSE
    Width <- Widths
    Mantissa = 2
    One = 6
    Printed = 3
    Precision = 2
SYMMETRY Symmetry
INVARIANT GreaterAsDocumented
