SPECIFICATION Spec
CONSTANTS
    Runs = {r1, r2}
INVARIANTS OneOperation
