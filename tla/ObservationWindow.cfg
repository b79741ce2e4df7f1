SPECIFICATION Spec
CONSTANTS
    Contents = {c1, c2}
    Absent = Absent
    MaxTime = 5
INVARIANTS TypeOK NewWithinWindow PreviousSighting
