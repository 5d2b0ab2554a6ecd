SPECIFICATION Spec
CONSTANTS
    element_count = 4
    UNSIGNED = 8
    element_size = 2
    Octets = {1, 2, 3}
INVARIANT CellStaysFree
PROPERTY ImplementsFifo
