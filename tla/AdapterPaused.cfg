SPECIFICATION Spec
CONSTANT MaxSaves = 1
PROPERTY ClosedUntilReset
