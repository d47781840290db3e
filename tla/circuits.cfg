SPECIFICATION CircuitsSpec
CONSTANTS
    Half = 2
    Words = {0, 1, 3}
    Depth = 2
    Leaf = {a, b, c}
    Zero = Zero
    MaxLeaves = 6
CHECK_DEADLOCK FALSE
INVARIANTS CleanIffBalanced TreeStandsForFull PathsProveMembership
