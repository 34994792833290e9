SPECIFICATION Spec
CONSTANTS
    Size = 2
    Sources = {"low", "high"}
    MaxSN = 5
    MaxLine = 6
    MaxEpochs = 2
    MaxPadding = 2
    DummySN = 3
INVARIANTS
    NumbersInLine
    WrittenAsOwned
CHECK_DEADLOCK FALSE
