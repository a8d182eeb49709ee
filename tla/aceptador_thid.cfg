SPECIFICATION Spec
CONSTANTS
    MaxConns = 3
    ThidSize = 2
INVARIANT ThidInBounds
