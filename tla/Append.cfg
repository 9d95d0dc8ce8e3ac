SPECIFICATION Spec
CONSTANTS
    Bytes = {"x", "y"}
    Sizes = {1, 2}
    Zero = "zero"
    MaxSize = 5
CHECK_DEADLOCK FALSE
INVARIANT
    AppendAppends
