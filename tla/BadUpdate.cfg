SPECIFICATION Spec
CONSTANTS
    Versions = {r1, r2}
    r1 = r1
    r2 = r2
    Edits = {"partial", "complete"}
PROPERTIES
    UpdateRestarts
