SPECIFICATION Spec
CONSTANTS
    Runs = {1, 2, 3}
    Products = {1, 2}
    a = a
    b = b
    b2 = b2
    Contents = {a, b}
    Reading <- MCReading
    Absent = Absent
    Faults = {"unparseable", "raise"}
    Overlap = FALSE
    Garbled = FALSE
INVARIANT RaisedLeavesNothing
