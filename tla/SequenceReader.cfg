SPECIFICATION Spec
CONSTANTS
    Elems <- MCElems
    Inputs <- MCSequences
    MaxLength = 6
INVARIANTS
    TypeOK
    ViewsAreFlat
PROPERTIES
    ImplementsFlatReader
