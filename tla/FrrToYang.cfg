CONSTANTS
    Hostnames = {h1, h2}
    ClientValues = {v}
    Absent = Absent
    MaxEdits = 2
SPECIFICATION Spec
INVARIANT TypeOK
PROPERTIES
    AllOrNothing
    ExportEnds
CHECK_DEADLOCK FALSE
