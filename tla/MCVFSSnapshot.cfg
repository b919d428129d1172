SPECIFICATION Spec
CONSTANTS
    t1 = t1
    t2 = t2
    Tags <- MCTags
    Nested <- MCNested
    Contents = {d1, d2}
    NoTag = NoTag
SYMMETRY Symmetry
INVARIANTS
    TypeOK
    TagKeepsSnapshot
    HalfTreesStayHidden
    LiveTreeRecoverable
PROPERTIES
    RestoreExact
