SPECIFICATION SearchSpec
CONSTANT
    Nodes = {a, b, c}
INVARIANTS
    AnswerRight
    PathIsMarked
    ReportIsCycle
    DepthBounded
PROPERTY
    SearchEnds
CHECK_DEADLOCK FALSE
