\* Two operations on every tree of a root and three rows, and on some larger
\* ones, with two names.
CONSTANTS
    Names = {"x", "y"}
    Trees <- MCTrees
    MaxNodes = 6
    MaxOperations = 2
SPECIFICATION Spec
INVARIANTS Attached  SizesAdd
CHECK_DEADLOCK FALSE
